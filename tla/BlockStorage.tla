---- MODULE BlockStorage ----
(***************************************************************************)
(* Data on block devices: ensure_ceph_storage moves a directory to a RADOS *)
(* block device (contrib/storage/linux/ceph.py), configure_volume mounts a *)
(* volume over it (contrib/charmsupport/volumes.py), clean_storage takes a *)
(* disk (contrib/openstack/utils.py), all by core/host.py and fstab.py.    *)
(***************************************************************************)
EXTENDS Integers, FiniteSets

CONSTANTS
  Volumes,    \* block devices that the operator may give to the unit
  Writes,     \* what the services write
  MaxOperated \* bound: changes by the operator, and reboots

(***************************************************************************)
(* killed      the hook is killed between two of its commands              *)
(* reboot      the machine is rebooted with data on a RADOS device, which  *)
(*             nothing maps at boot                                        *)
(* writing     a service that writes does not stop                         *)
(* fstab_taken fstab has the volume already, for another directory         *)
(* not_ext3    the volume has a file system that does not mount as ext3    *)
(* busy        a disk to be cleaned cannot be unmounted                    *)
(* partition   a partition of that disk is mounted                         *)
(***************************************************************************)
BsHazards == {"killed", "reboot", "writing", "fstab_taken", "not_ext3", "busy", "partition"}

VARIABLES
  bsExposed, \* the hazards of this unit; never changes
  storage,   \* what the charm uses: "ceph", "volume" or "disk"
  operated,
  wanted,    \* the device of volume-map, "" for volume-ephemeral
  mounts,    \* mounts[mountpoint]: a device, "" for none
  fstab,     \* entries [device, mountpoint, filesystem]
  disk,      \* disk[d]: its format and what is written on it
  written,   \* what the services wrote
  running,   \* whether they run
  bsHook,    \* what the running hook does next, "" for no hook
  bsDone     \* the last hook succeeded and the operator changed nothing since

bsVars == <<bsExposed, storage, operated, wanted, mounts, fstab, disk, written, running, bsHook,
            bsDone>>

Spared(hazards) == bsExposed \cap hazards = {}
Visible == IF mounts["data"] # "" THEN mounts["data"] ELSE "root"
Keep == UNCHANGED <<bsExposed, storage, operated, wanted>>
Ends(success) == bsHook' = "" /\ bsDone' = success
-----------------------------------------------------------------------------
mount(device, mountpoint) == mounts' = [mounts EXCEPT ![mountpoint] = device]

\* An entry is added unless its device has one; its file system is ext3
CanAdd(device) == \A e \in fstab : e.device # device
fstab_add(device, mountpoint) ==
  IF CanAdd(device)
  THEN fstab \cup {[device |-> device, mountpoint |-> mountpoint, filesystem |-> "ext3"]}
  ELSE fstab

Entries(mountpoint) == {e \in fstab : e.mountpoint = mountpoint}
fstab_remove(mountpoint) ==
  IF Entries(mountpoint) = {} THEN fstab ELSE fstab \ {CHOOSE e \in Entries(mountpoint) : TRUE}
-----------------------------------------------------------------------------
(***************************************************************************)
(* ensure_ceph_storage, command by command.                                *)
(***************************************************************************)
filesystem_mounted == mounts["data"] # ""

ensure_ceph_storage ==
  /\ storage = "ceph" /\ bsHook = ""
  /\ IF filesystem_mounted THEN Ends(TRUE) ELSE bsHook' = "mkfs" /\ bsDone' = FALSE
  /\ UNCHANGED <<mounts, fstab, disk, written, running>> /\ Keep

\* mkfs refuses a device that is mounted
make_filesystem ==
  /\ bsHook = "mkfs"
  /\ IF mounts["/mnt"] = "" THEN
       /\ disk' = [disk EXCEPT !["rbd"] = [format |-> "ext4", has |-> {}]]
       /\ bsHook' = "stop" /\ UNCHANGED bsDone
     ELSE Ends(FALSE) /\ UNCHANGED disk
  /\ UNCHANGED <<mounts, fstab, written, running>> /\ Keep

StopServices ==
  /\ bsHook = "stop" /\ bsHook' = "copy"
  /\ \/ running' = FALSE
     \/ "writing" \in bsExposed /\ UNCHANGED running
  /\ UNCHANGED <<mounts, fstab, disk, written, bsDone>> /\ Keep

copy_files ==
  /\ bsHook = "copy" /\ bsHook' = "remount"
  /\ mount("rbd", "/mnt")
  /\ disk' = [disk EXCEPT !["rbd"].has = @ \cup disk["root"].has]
  /\ UNCHANGED <<fstab, written, running, bsDone>> /\ Keep

place_data_on_block_device ==
  /\ bsHook = "remount" /\ bsHook' = "start"
  /\ mounts' = [mounts EXCEPT !["/mnt"] = "", !["data"] = "rbd"]
  /\ fstab' = fstab_add("rbd", "data")
  /\ UNCHANGED <<disk, written, running, bsDone>> /\ Keep

StartServices ==
  /\ bsHook = "start"
  /\ running' = TRUE
  /\ Ends(TRUE)
  /\ UNCHANGED <<mounts, fstab, disk, written>> /\ Keep
-----------------------------------------------------------------------------
(***************************************************************************)
(* configure_volume: before_change stops the services, after_change starts *)
(* them.                                                                   *)
(***************************************************************************)
configure_volume ==
  /\ storage = "volume" /\ bsHook = ""
  /\ IF mounts["data"] = wanted
     THEN Ends(TRUE) /\ UNCHANGED running
     ELSE /\ running' = FALSE /\ bsDone' = FALSE
          /\ bsHook' = IF mounts["data"] # "" THEN "umount" ELSE "mount"
  /\ UNCHANGED <<mounts, fstab, disk, written>> /\ Keep

umount ==
  /\ bsHook = "umount" /\ bsHook' = "fstab_remove"
  /\ mount("", "data")
  /\ UNCHANGED <<fstab, disk, written, running, bsDone>> /\ Keep

unmount_volume_NotPersisted ==
  /\ bsHook = "fstab_remove"
  /\ bsHook' = IF wanted = "" THEN "start" ELSE "mount"
  /\ UNCHANGED <<mounts, fstab, disk, written, running, bsDone>> /\ Keep

\* Without an entry VolumeConfigurationError is raised
unmount_volume ==
  /\ bsHook = "fstab_remove"
  /\ fstab' = fstab_remove("data")
  /\ IF Entries("data") = {} THEN Ends(FALSE)
     ELSE bsHook' = (IF wanted = "" THEN "start" ELSE "mount") /\ UNCHANGED bsDone
  /\ UNCHANGED <<mounts, disk, written, running>> /\ Keep

MountVolume ==
  /\ bsHook = "mount" /\ bsHook' = "fstab_add"
  /\ mount(wanted, "data")
  /\ UNCHANGED <<fstab, disk, written, running, bsDone>> /\ Keep

\* With the device in fstab it is raised too
mount_volume ==
  /\ bsHook = "fstab_add"
  /\ fstab' = fstab_add(wanted, "data")
  /\ IF CanAdd(wanted) THEN bsHook' = "start" /\ UNCHANGED bsDone ELSE Ends(FALSE)
  /\ UNCHANGED <<mounts, disk, written, running>> /\ Keep
-----------------------------------------------------------------------------
\* The charm takes the disk sdb for itself: what is mounted from it is
\* unmounted, then LVM's signatures or the partition table are removed
Zapped == [disk EXCEPT !["sdb"] = [format |-> "", has |-> {}]]
clean_storage ==
  /\ storage = "disk" /\ bsHook = "" /\ disk["sdb"].format # ""
  /\ disk' = Zapped /\ Ends(TRUE)
  /\ \/ /\ mounts["data"] = "sdb"
        /\ mount("", "data") /\ fstab' = fstab_remove("data")
     \/ /\ mounts["data"] # "sdb" \/ "busy" \in bsExposed
        /\ UNCHANGED <<mounts, fstab>>
  /\ UNCHANGED <<written, running>> /\ Keep
-----------------------------------------------------------------------------
BsKilled ==
  /\ "killed" \in bsExposed /\ bsHook # ""
  /\ Ends(FALSE)
  /\ UNCHANGED <<mounts, fstab, disk, written, running>> /\ Keep

Write(w) ==
  /\ storage = "ceph" /\ running /\ w \notin written
  /\ written' = written \cup {w}
  /\ disk' = [disk EXCEPT ![Visible].has = @ \cup {w}]
  /\ UNCHANGED <<mounts, fstab, running, bsHook, bsDone>> /\ Keep

Operates == operated < MaxOperated /\ operated' = operated + 1

SetVolumeMap(d) ==
  /\ Operates /\ storage = "volume" /\ bsHook = "" /\ d # wanted
  /\ wanted' = d
  /\ bsDone' = FALSE
  /\ UNCHANGED <<bsExposed, storage, mounts, fstab, disk, written, running, bsHook>>

\* fstab is mounted at boot, as far as the device and its file system allow
Reboot ==
  /\ Operates /\ bsHook = ""
  /\ storage = "ceph" => "reboot" \in bsExposed
  /\ mounts' = [mounts EXCEPT !["data"] =
       LET there == {e \in Entries("data") :
                       e.device # "rbd" /\ disk[e.device].format = e.filesystem} IN
       IF there = {} THEN "" ELSE (CHOOSE e \in there : TRUE).device, !["/mnt"] = ""]
  /\ running' = TRUE
  /\ UNCHANGED <<bsExposed, storage, wanted, fstab, disk, written, bsHook, bsDone>>

BsInit ==
  /\ bsExposed \in {{}} \cup {{h} : h \in BsHazards}
  /\ storage \in {"ceph", "volume", "disk"}
  /\ operated = 0 /\ wanted = "" /\ written = {} /\ running = TRUE /\ bsHook = "" /\ bsDone = FALSE
  /\ \E device \in {"", "sdb"} \cup IF "partition" \in bsExposed THEN {"sdb1"} ELSE {} :
       LET used == storage = "disk" /\ device # "" IN
       /\ mounts = [m \in {"data", "/mnt"} |-> IF m = "data" /\ used THEN device ELSE ""]
       /\ fstab = (IF used THEN {[device |-> device, mountpoint |-> "data", filesystem |-> "ext3"]} ELSE {})
                    \cup {[device |-> d, mountpoint |-> "/old", filesystem |-> "ext3"] :
                            d \in IF "fstab_taken" \in bsExposed THEN Volumes ELSE {}}
  /\ disk = [d \in Volumes \cup {"root", "rbd", "sdb", "sdb1"} |->
               [format |-> IF d = "rbd" THEN "" ELSE IF "not_ext3" \in bsExposed THEN "xfs" ELSE "ext3",
                has |-> {}]]

BsNext ==
  \/ ensure_ceph_storage \/ make_filesystem \/ StopServices \/ copy_files
  \/ place_data_on_block_device \/ StartServices
  \/ configure_volume \/ umount \/ unmount_volume \/ MountVolume \/ mount_volume
  \/ clean_storage \/ BsKilled \/ Reboot
  \/ \E w \in Writes : Write(w)
  \/ \E d \in Volumes \cup {""} : SetVolumeMap(d)

BsSpec == BsInit /\ [][BsNext]_bsVars
-----------------------------------------------------------------------------
\* What the services wrote they find, while the directory moves to the device
\* and afterwards, even when the hook is killed. When a hook succeeded the
\* services run, the directory is the volume that the operator asked for, and
\* is again after a reboot. A disk that was cleaned is not in use.
DataInPlace ==
  /\ (storage = "ceph" /\ running /\ Spared({"reboot", "writing"})) =>
       written \subseteq disk[Visible].has
  /\ (bsDone /\ Spared({"killed", "fstab_taken", "not_ext3"})) => running
  /\ (bsDone /\ storage = "volume" /\ Spared({"killed", "fstab_taken", "not_ext3"})) =>
       /\ mounts["data"] = wanted
       /\ {e.device : e \in Entries("data")} = {wanted} \ {""}
  /\ (bsDone /\ storage = "disk" /\ Spared({"busy", "partition"})) =>
       mounts["data"] \notin {"sdb", "sdb1"}
====
