---- MODULE PackageSources ----
(***************************************************************************)
(* Package sources and OpenStack upgrades (fetch/ubuntu.py and             *)
(* contrib/openstack/utils.py): the option openstack-origin names a        *)
(* source, add_source puts it into the files that apt reads, apt-get       *)
(* update reads them, and an upgrade installs the newest release on offer. *)
(* Releases are numbered, 0 is none.                                       *)
(***************************************************************************)
EXTENDS Integers, FiniteSets, SequencesExt

CONSTANTS
  Series,         \* the series of the machine
  Distro,         \* Distro[s]: the release that Ubuntu series s comes with
  Pockets,        \* the pairs of series and release with a cloud archive
  Sources,        \* values of the option
  ReleasePackage, \* the first release with a package openstack-release
  MaxRetries,     \* CMD_RETRY_COUNT
  MaxOptions      \* bound: changes of the option

(***************************************************************************)
(* gives_up   dist-upgrade fails for good, having upgraded some packages   *)
(* bare       the option is the name of a cloud archive without a series   *)
(* proposed   it is the name of a release with /proposed                   *)
(* pocket     it is a pocket, as in cloud:jammy-updates/zed                *)
(* other_file the option changes to a source that is not in the same file  *)
(***************************************************************************)
SourceHazards == {"gives_up", "bare", "proposed", "pocket", "other_file"}

VARIABLES
  pkgExposed,  \* the hazards of this machine; never changes
  origin,      \* openstack-origin
  options,     \* how often it was changed
  lists,       \* the files in sources.list.d: by name, the release they offer
  index,       \* the releases apt offers since the last apt-get update
  pkg,         \* the release of the installed package
  orel,        \* the release of the package openstack-release
  job          \* the action that runs: [todo, tries]

pkgVars == <<pkgExposed, origin, options, lists, index, pkg, orel, job>>

Spared(hazards) == pkgExposed \cap hazards = {}
Newest(releases) == CHOOSE r \in releases : \A q \in releases : q <= r
-----------------------------------------------------------------------------
(***************************************************************************)
(* add_source: the files after it, or "error".                             *)
(***************************************************************************)
With(file, release) ==
  [f \in DOMAIN lists \cup {file} |-> IF f = file THEN release ELSE lists[f]]
Refused == [f \in {"error"} |-> 0]

_add_cloud_pocket(release) == With("cloud-archive", release)
_add_proposed == With("proposed", Distro[Series])

_add_cloud_distro_check(series, release) ==
  IF series = Series /\ <<series, release>> \in Pockets THEN _add_cloud_pocket(release)
  ELSE Refused

__add_bare_helper(release, proposed) ==
  IF <<Series, release>> \in Pockets THEN _add_cloud_pocket(release)
  ELSE IF Distro[Series] # release THEN Refused
  ELSE IF proposed THEN _add_proposed ELSE lists

_add_cloud(src) ==
  IF src.pocket = "staging"
  THEN IF src.series = Series THEN With("staging", src.release) ELSE Refused
  ELSE IF src.series # "" THEN _add_cloud_distro_check(src.series, src.release)
  ELSE IF \E p \in Pockets : p[2] = src.release THEN _add_cloud_pocket(src.release)
  ELSE Refused

add_source(src) ==
  CASE src.form = "distro" -> lists
    [] src.form = "proposed" -> _add_proposed
    [] src.form = "ppa" -> With("ppa", src.release)
    [] src.form = "cloud" -> _add_cloud(src)
    [] src.form = "bare" -> __add_bare_helper(src.release, src.pocket = "proposed")

Works(files) == "error" \notin DOMAIN files
Offers(files) == {Distro[Series]} \cup Range(files)

\* get_os_codename_install_source: the release, 0 for an exception and -1
\* for an exit of the process, by error_out
install_source(src) ==
  CASE src.form \in {"distro", "proposed"} -> Distro[Series]
    [] src.form = "bare" -> IF src.pocket = "proposed" THEN -1 ELSE src.release
    [] src.form = "cloud" -> IF src.series = "" THEN 0
                             ELSE IF src.pocket = "updates" THEN -1 ELSE src.release
    [] src.form = "ppa" -> src.release
-----------------------------------------------------------------------------
(***************************************************************************)
(* What is installed and what is available.                                *)
(***************************************************************************)
\* get_installed_os_version installs openstack-release if there is one
Installed(works) ==
  IF orel = 0 /\ works /\ Newest(index) >= ReleasePackage THEN Newest(index) ELSE orel

get_os_version_package(release) == IF release # 0 THEN release ELSE pkg

openstack_upgrade_available(src, release) ==
  /\ get_os_version_package(release) # 0
  /\ install_source(src) > 0
  /\ install_source(src) > get_os_version_package(release)

Idle == job.todo = << >>
Start(todo) == job' = [todo |-> todo, tries |-> 0]
Finish == job' = [todo |-> << >>, tries |-> 0]
-----------------------------------------------------------------------------
\* The file that a source is in, if it is in one
File(src) ==
  CASE src.form \in {"proposed", "ppa"} -> src.form
    [] src.form = "cloud" -> IF src.pocket = "staging" THEN "staging" ELSE "cloud-archive"
    [] src.form = "bare" /\ <<Series, src.release>> \in Pockets -> "cloud-archive"
    [] OTHER -> "none"

\* The options that the hazards allow
Usable(src) ==
  /\ (src.form = "cloud" /\ src.series = "") => "bare" \in pkgExposed
  /\ (src.form = "bare" /\ src.pocket = "proposed") => "proposed" \in pkgExposed
  /\ (src.form = "cloud" /\ src.pocket = "updates") => "pocket" \in pkgExposed
  /\ (lists # << >> /\ File(src) \notin DOMAIN lists) => "other_file" \in pkgExposed

PkgInit ==
  /\ pkgExposed \in {{}} \cup {{h} : h \in SourceHazards}
  /\ origin = [form |-> "distro"]
  /\ options = 0
  /\ lists = << >>
  /\ index = {Distro[Series]}
  /\ pkg \in {0, Distro[Series]}
  /\ orel = 0
  /\ job = [todo |-> << >>, tries |-> 0]

SetOrigin(src) ==
  /\ Idle
  /\ options < MaxOptions /\ options' = options + 1
  /\ Usable(src)
  /\ origin' = src
  /\ UNCHANGED <<pkgExposed, lists, index, pkg, orel, job>>

\* The install hook: configure_installation_source exits if the source is
\* no good; update and install are fatal
Install ==
  /\ Idle /\ pkg = 0
  /\ Works(add_source(origin))
  /\ lists' = add_source(origin)
  /\ index' = Offers(lists')
  /\ pkg' = Newest(index')
  /\ UNCHANGED <<pkgExposed, origin, options, orel, job>>

\* do_action_openstack_upgrade, up to the charm's upgrade callback
do_action_openstack_upgrade(works) ==
  /\ Idle /\ pkg # 0
  /\ orel' = Installed(works)
  /\ IF openstack_upgrade_available(origin, orel')
     THEN Start(<<"source", "update", "dist-upgrade">>)
     ELSE UNCHANGED job
  /\ UNCHANGED <<pkgExposed, origin, options, lists, index, pkg>>

\* do_action_package_upgrade, with a callback that updates and upgrades
do_action_package_upgrade(works) ==
  /\ Idle /\ pkg # 0
  /\ orel' = Installed(works)
  /\ IF openstack_upgrade_available(origin, orel') THEN UNCHANGED job
     ELSE Start(<<"update", "dist-upgrade">>)
  /\ UNCHANGED <<pkgExposed, origin, options, lists, index, pkg>>

\* The callback configures the source; SourceConfigError ends the process
Configure ==
  /\ ~Idle /\ Head(job.todo) = "source"
  /\ IF Works(add_source(origin))
     THEN lists' = add_source(origin) /\ Start(Tail(job.todo))
     ELSE Finish /\ UNCHANGED lists
  /\ UNCHANGED <<pkgExposed, origin, options, index, pkg, orel>>

\* What a successful command does
Effect(command) ==
  IF command = "update" THEN index' = Offers(lists) /\ UNCHANGED <<pkg, orel>>
  ELSE /\ pkg' = Newest(index)
       /\ orel' = IF orel = 0 THEN 0 ELSE Newest(index)
       /\ UNCHANGED index

\* Some packages may have been upgraded when dist-upgrade fails
Partly(command) ==
  IF command = "update" THEN UNCHANGED <<index, pkg, orel>>
  ELSE /\ pkg' \in {pkg, Newest(index)}
       /\ orel' \in {orel, IF orel = 0 THEN 0 ELSE Newest(index)}
       /\ UNCHANGED index

\* _run_with_retries: the exit codes 1 and 100 are retried max_retries times
_run_with_retries_Swallowed(code) ==
  /\ ~Idle /\ Head(job.todo) # "source"
  /\ LET command == Head(job.todo)
     IN  IF code = 0 THEN Effect(command) /\ Start(Tail(job.todo))
         ELSE IF job.tries < MaxRetries
         THEN Partly(command) /\ job' = [job EXCEPT !.tries = @ + 1]
         ELSE Partly(command) /\ Start(Tail(job.todo))
  /\ UNCHANGED <<pkgExposed, origin, options, lists>>

_run_with_retries(code) ==
  /\ ~Idle /\ Head(job.todo) # "source"
  /\ LET command == Head(job.todo)
         again == code \in {1, 100} /\ job.tries < MaxRetries
     IN  /\ (command = "dist-upgrade" /\ code # 0 /\ ~again) => "gives_up" \in pkgExposed
         /\ IF code = 0 THEN Effect(command) /\ Start(Tail(job.todo))
            ELSE /\ Partly(command)
                 /\ IF again THEN job' = [job EXCEPT !.tries = @ + 1] ELSE Finish
  /\ UNCHANGED <<pkgExposed, origin, options, lists>>

\* apt_update(fatal=False): that the command failed is not seen
Silent ==
  /\ ~Idle /\ Head(job.todo) = "update"
  /\ Start(Tail(job.todo))
  /\ UNCHANGED <<pkgExposed, origin, options, lists, index, pkg, orel>>

PkgNext ==
  \/ \E src \in Sources : SetOrigin(src)
  \/ Install
  \/ \E works \in BOOLEAN : do_action_openstack_upgrade(works) \/ do_action_package_upgrade(works)
  \/ Configure
  \/ \E code \in {0, 1, 2, 100} : _run_with_retries(code)
  \/ Silent

PkgSpec == PkgInit /\ [][PkgNext]_pkgVars
-----------------------------------------------------------------------------
\* With a source that can be configured, an upgrade is offered whenever the
\* source has a newer release than the installed package, and only then:
\* also after upgrades that failed half way, and whatever is known of
\* openstack-release.
UpgradeSeen ==
  Spared(SourceHazards) =>
  (Idle /\ pkg # 0 /\ Works(add_source(origin)) =>
    \A works \in BOOLEAN :
      openstack_upgrade_available(origin, Installed(works))
        <=> Newest(Offers(add_source(origin))) > pkg)
====
