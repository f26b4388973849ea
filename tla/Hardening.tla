---- MODULE Hardening ----
(***************************************************************************)
(* Hardening (contrib/hardening): hooks under the decorator harden audit   *)
(* files, directories, packages and modules of the machine, and bring what *)
(* does not comply to what templates and settings ask. What was rendered   *)
(* is known again by the checksums of the template and of the file.        *)
(***************************************************************************)
EXTENDS Integers, FiniteSets, SequencesExt

CONSTANTS
  Charms,     \* [asked, settings]: the modules of the option harden, and what
              \* hardening.yaml over the defaults may be (see Context)
  Parent,     \* Parent[p]: the directory of a path, "" for one that is in none
  Dirs,       \* the paths that are directories
  MaxHappens  \* bound: changes to the machine or the charm

(***************************************************************************)
(* killed        the hook fails or is killed in the middle of an audit:    *)
(*               apt_update of pre_write is fatal                          *)
(* settings      settings change while the template stays                  *)
(* restart_fails the command that lets a service load its file fails       *)
(* charm_writes  the decorated hook itself writes a hardened file          *)
(* nested        a directory with directories needs its mode set again     *)
(* flat_dir      so does a directory without                               *)
(* group_only    a command is writable for its group and not for others    *)
(* weak          the settings ask for weak key exchanges or for CBC        *)
(* client        client and server of ssh have different settings          *)
(***************************************************************************)
HdHazards == {"killed", "settings", "restart_fails", "charm_writes", "nested",
              "flat_dir", "group_only", "weak", "client"}

VARIABLES
  hdExposed, \* the hazards of this machine; never changes
  hdCharm,   \* a member of Charms
  hdSettings,
  template,  \* the release of the charm's templates
  happened,
  host,      \* the machine: see HdInit
  hdDone     \* a hardened hook ended and nothing happened since

hdVars == <<hdExposed, hdCharm, hdSettings, template, happened, host, hdDone>>

Spared(hazards) == hdExposed \cap hazards = {}
Paths == DOMAIN Parent
Below(p) == {q \in Paths : p \in {q, Parent[q]} \/ (Parent[q] \in Paths /\ Parent[Parent[q]] = p)}
LeafDirs == {d \in Dirs : Below(d) \cap Dirs = {d}}
None == [by |-> "none"] \* the content of a file that is not there
Exists(m, p) == m.content[p] # None
-----------------------------------------------------------------------------
(***************************************************************************)
(* What the audits of ssh ask, and how its files are rendered.             *)
(***************************************************************************)
get_macs(s, who) ==
  (IF s.trusty THEN <<"sha2-512-etm", "sha2-512", "ripemd160">> ELSE <<"sha2-512", "ripemd160">>)
    \o (IF "weak_hmac" \in s[who] THEN <<"sha1">> ELSE << >>)
get_kexs(s, who) ==
  (IF s.trusty THEN <<"curve25519", "exchange-sha256">> ELSE <<"exchange-sha256">>)
    \o (IF "weak_kex" \in s[who] THEN <<"group14-sha1", "exchange-sha1", "group1-sha1">> ELSE << >>)

\* Before trusty the last of the strong and the first of the weak ciphers are
\* one word
get_ciphers(s, who) ==
  LET strong == (IF s.trusty THEN <<"chacha20">> ELSE << >>) \o <<"aes256-ctr", "aes192-ctr">> IN
  IF "cbc_required" \notin s[who] THEN Append(strong, "aes128-ctr")
  ELSE IF s.trusty THEN strong \o <<"aes128-ctr", "aes256-cbc", "aes128-cbc">>
  ELSE strong \o <<"aes128-ctraes256-cbc", "aes128-cbc">>

SSHConfigContext(s) ==
  [macs |-> get_macs(s, "client"), kexs |-> get_kexs(s, "client"),
   ciphers |-> get_ciphers(s, "client"), roaming |-> "roaming" \in s.client]
SSHDConfigContext(s) ==
  [macs |-> get_macs(s, "server"), kexs |-> get_kexs(s, "server"),
   ciphers |-> get_ciphers(s, "server"), sftp |-> "sftp_enable" \in s.server]

SysCtlHardeningContext(s) ==
  [ip_forward |-> "forwarding" \in s.os, disable_ipv6 |-> "ipv6_enable" \notin s.os,
   arp |-> "arp_restricted" \in s.os, sysrq |-> "kernel_enable_sysrq" \in s.os,
   suid_dumpable |-> "core_dump" \in s.os]

Context(p, s) ==
  CASE p = "ssh_config" -> SSHConfigContext(s)
    [] p = "sshd_config" -> SSHDConfigContext(s)
    [] p = "99-juju-hardening.conf" -> SysCtlHardeningContext(s)
    [] OTHER -> [options |-> s.os]
Rendered(p) == [by |-> "template", template |-> template, context |-> Context(p, hdSettings)]

FileContentAudit_is_compliant(pass, fail) == FALSE \notin pass /\ TRUE \notin fail
WeakKexs == <<"group14-sha1", "exchange-sha1", "group1-sha1">>
CtrCiphers == {"aes128-ctr", "aes192-ctr", "aes256-ctr"}
Has(list, x) == \E i \in DOMAIN list : list[i] = x
CBC == {"aes256-cbc", "aes128-cbc", "aes128-ctraes256-cbc"}

\* The patterns for an audit that goes by the settings of who: weak key
\* exchanges are looked for at the head of the list
KexAndCipherCases(c, s, who) ==
  [pass |->
     (IF "weak_kex" \in s[who] THEN {Head(c.kexs) = WeakKexs[i] : i \in DOMAIN WeakKexs}
      ELSE {Last(c.kexs) = "exchange-sha256"})
     \cup (IF "cbc_required" \in s[who] THEN {\E x \in CBC : Has(c.ciphers, x)}
           ELSE {Has(c.ciphers, x) : x \in CtrCiphers}
                  \cup {s.trusty => Head(c.ciphers) = "chacha20" /\ Last(c.ciphers) = "aes128-ctr"}),
   fail |->
     (IF "weak_kex" \in s[who] THEN {Head(c.kexs) = "exchange-sha256"}
      ELSE {IF s.trusty THEN Has(c.kexs, "group14-sha1") ELSE Head(c.kexs) \in ToSet(WeakKexs)})
     \cup (IF "cbc_required" \in s[who] THEN {Has(c.ciphers, x) : x \in CtrCiphers}
           ELSE {Has(c.ciphers, x) : x \in CBC})]

\* On trusty and later the client's file is audited by the server's settings
SSHConfigFileContentAudit(c, s) ==
  LET who == IF s.trusty THEN "server" ELSE "client"
      cases == KexAndCipherCases(c, s, who)
      macs == IF "weak_hmac" \in s[who] THEN Last(c.macs) = "sha1"
              ELSE IF s.trusty THEN Last(c.macs) = "ripemd160" ELSE Last(c.macs) # "sha1" IN
  FileContentAudit_is_compliant(cases.pass \cup {macs, c.roaming \/ "roaming" \notin s.client},
                                cases.fail \cup {c.roaming /\ "roaming" \notin s.client})

SSHDConfigFileContentAudit(c, s) ==
  LET cases == KexAndCipherCases(c, s, "server")
      macs == Last(c.macs) = IF "weak_hmac" \in s.server THEN "sha1" ELSE "ripemd160" IN
  FileContentAudit_is_compliant(cases.pass \cup {macs, c.sftp \/ "sftp_enable" \notin s.server},
                                cases.fail \cup {c.sftp /\ "sftp_enable" \notin s.server})
-----------------------------------------------------------------------------
(***************************************************************************)
(* The audits of each module. A mode is the set of what it allows beyond   *)
(* its owner's reading and writing; loads is who reads a file when a       *)
(* service action or post_write tells it to.                               *)
(***************************************************************************)
Templated(p, mode, loads) == [kind |-> "templated", path |-> p, mode |-> mode, loads |-> loads]
FilePermission(p, mode) == [kind |-> "file", path |-> p, mode |-> mode]
DirectoryPermission(p, mode, recursive) ==
  [kind |-> "directory", path |-> p, mode |-> mode, recursive |-> recursive]
OnPaths(kind, ps) == [i \in DOMAIN ps |-> [kind |-> kind, path |-> ps[i]]]
When(condition, audit) == IF condition THEN <<audit>> ELSE << >>

pam_get_audits(s) ==
  When("passwdqc" \in s.os, Templated("passwdqc.conf", {}, "pam"))
    \o (IF "retries" \in s.os THEN <<Templated("tally2", {}, "pam")>> ELSE OnPaths("deleted", <<"tally2">>))

limits_get_audits(s) ==
  <<DirectoryPermission("limits.d", {"or", "x"}, TRUE)>>
    \o When("core_dump" \notin s.os, Templated("10.hardcore.conf", {}, "nobody"))

minimize_access_get_audits(s) ==
  OnPaths("readonly", <<"bin">>)
    \o <<FilePermission("shadow", {})>>
    \o When("change_user" \notin s.os, FilePermission("su", {"x"}))

\* A set bit is removed from what is blacklisted; looking for other files
\* fails, since the output of find is split as if it were text
suid_sgid_get_audits(s) ==
  IF "suid_sgid_enforce" \in s.os
  THEN OnPaths("suid", SetToSeq({"rcp"} \ (IF "whitelisted" \in s.os THEN {"rcp"} ELSE {})))
  ELSE << >>

sysctl_get_audits ==
  <<Templated("99-juju-hardening.conf", {}, "kernel"), FilePermission("sysctl.conf", {})>>

run_os_checks(s) ==
  OnPaths("package", <<"telnet-server">>)
    \o limits_get_audits(s) \o <<Templated("login.defs", {"or"}, "nobody")>>
    \o minimize_access_get_audits(s) \o pam_get_audits(s)
    \o suid_sgid_get_audits(s) \o sysctl_get_audits

ssh_get_audits ==
  <<Templated("ssh_config", {"or"}, "nobody"), Templated("sshd_config", {}, "ssh")>>

mysql_get_audits ==
  <<FilePermission("my.cnf", {}), Templated("hardening.cnf", {"x"}, "mysql"),
    DirectoryPermission("/etc/mysql", {"x"}, FALSE)>>

apache_get_audits ==
  <<FilePermission("apache2.conf", {}), Templated("99-hardening.conf", {}, "apache2"),
    DirectoryPermission("/etc/apache2", {"x"}, TRUE)>>
    \o OnPaths("module", <<"cgi">>) \o OnPaths("noother", <<"/etc/apache2">>)
    \o OnPaths("deleted", <<"index.html">>)

\* The audits of a hook, in the order of RUN_CATALOG
RunCatalog ==
  (IF "os" \in hdCharm.asked THEN run_os_checks(hdSettings) ELSE << >>)
    \o (IF "ssh" \in hdCharm.asked THEN ssh_get_audits ELSE << >>)
    \o (IF "mysql" \in hdCharm.asked THEN mysql_get_audits ELSE << >>)
    \o (IF "apache" \in hdCharm.asked THEN apache_get_audits ELSE << >>)
-----------------------------------------------------------------------------
ensure_permissions(m, p, mode) ==
  IF Exists(m, p) THEN [m EXCEPT !.mode = [q \in Paths |-> IF q \in Below(p) THEN mode ELSE @[q]]]
  ELSE m

\* The checksum of the template is saved by the comparison
templates_match(m, p) == m.templates[p] = template
SaveTemplate(m, p) == [m EXCEPT !.templates[p] = template]
contents_match(m, p) == m.sums[p] # None /\ m.sums[p] = m.content[p]
save_checksum(m, p) == [m EXCEPT !.sums[p] = m.content[p]]
run_service_actions(m, a) == [m EXCEPT !.loaded[a.loads] = m.content[a.path]]

TemplatedFile_is_compliant_ByTemplate(m, a) ==
  Exists(m, a.path) /\ templates_match(m, a.path) /\ m.mode[a.path] = a.mode

TemplatedFile_is_compliant(m, a) ==
  /\ Exists(m, a.path)
  /\ templates_match(m, a.path)
  /\ contents_match(m, a.path)
  /\ m.mode[a.path] = a.mode

Checked(m, a) == IF Exists(m, a.path) THEN SaveTemplate(m, a.path) ELSE m

render_and_write(m, a) ==
  ensure_permissions([m EXCEPT !.content[a.path] = Rendered(a.path)], a.path, a.mode)

TemplatedFile_comply(m, a, fails) ==
  LET written == render_and_write(Checked(m, a), a) IN
  save_checksum(IF a.loads \in fails THEN written ELSE run_service_actions(written, a), a.path)

\* Only directories without directories are looked at, and only those with
\* directories are set right, with all that is below them
DirectoryPermissionAudit_is_compliant(m, a) ==
  \A d \in IF a.recursive THEN LeafDirs \cap Below(a.path) ELSE {a.path} : m.mode[d] = a.mode
DirectoryPermissionAudit_comply(m, a) ==
  IF a.path \in LeafDirs THEN m ELSE ensure_permissions(m, a.path, a.mode)

FilesBelow(p) == Below(p) \ Dirs

\* find -perm -go+w finds what both may write
ReadOnly_is_compliant(m, a) == \A f \in FilesBelow(a.path) : ~({"gw", "ow"} \subseteq m.mode[f])
Without(m, ps, bits) ==
  [m EXCEPT !.mode = [q \in Paths |-> IF q \in ps THEN @[q] \ bits ELSE @[q]]]
ReadOnly_comply(m, a) == Without(m, Below(a.path), {"gw", "ow"})
NoReadWriteForOther(m, a) == Without(m, Below(a.path), {"or", "ow"})
NoReadWriteForOther_is_compliant(m, a) ==
  \A f \in FilesBelow(a.path) : m.mode[f] \cap {"or", "ow"} = {}
DeletedFile_comply(m, a) == [m EXCEPT !.content[a.path] = None]

\* A package is purged, a module of apache disabled and the server restarted
RestrictedPackages_ensure_compliance(m, a) == [m EXCEPT !.unwanted = @ \ {a.path}]
DisabledModuleAudit_ensure_compliance(m, a) ==
  IF a.path \in m.unwanted
  THEN [m EXCEPT !.unwanted = @ \ {a.path}, !.loaded["apache2"] = m.content["99-hardening.conf"]]
  ELSE m

\* One audit of a hook; the services in fails do not restart
ensure_compliance(m, a, fails) ==
  CASE a.kind = "templated" ->
         IF TemplatedFile_is_compliant(m, a) THEN m ELSE TemplatedFile_comply(m, a, fails)
    [] a.kind = "file" -> ensure_permissions(m, a.path, a.mode)
    [] a.kind = "directory" ->
         IF DirectoryPermissionAudit_is_compliant(m, a) THEN m ELSE DirectoryPermissionAudit_comply(m, a)
    [] a.kind = "readonly" -> IF ReadOnly_is_compliant(m, a) THEN m ELSE ReadOnly_comply(m, a)
    [] a.kind = "noother" ->
         IF NoReadWriteForOther_is_compliant(m, a) THEN m ELSE NoReadWriteForOther(m, a)
    [] a.kind = "suid" -> Without(m, {a.path}, {"s"})
    [] a.kind = "deleted" -> DeletedFile_comply(m, a)
    [] a.kind = "package" -> RestrictedPackages_ensure_compliance(m, a)
    [] a.kind = "module" -> DisabledModuleAudit_ensure_compliance(m, a)

Audited(audits, fails) == FoldLeft(LAMBDA m, a : ensure_compliance(m, a, fails), host, audits)
-----------------------------------------------------------------------------
\* A hook under harden, and what the hook itself writes after it
harden(fails, writes) ==
  /\ fails # {} => "restart_fails" \in hdExposed
  /\ writes # {} => "charm_writes" \in hdExposed
  /\ LET m == Audited(RunCatalog, fails) IN
     host' = [m EXCEPT !.content = [p \in Paths |-> IF p \in writes THEN [by |-> "charm"] ELSE @[p]]]
  /\ hdDone' = TRUE
  /\ UNCHANGED <<hdExposed, hdCharm, hdSettings, template, happened>>

\* It fails before or after it writes the file of audit n
Fails(n, wrote) ==
  /\ "killed" \in hdExposed
  /\ RunCatalog[n].kind = "templated"
  /\ LET m == Audited(SubSeq(RunCatalog, 1, n - 1), {})
         a == RunCatalog[n] IN
     /\ ~TemplatedFile_is_compliant(m, a)
     /\ host' = IF wrote THEN render_and_write(Checked(m, a), a) ELSE Checked(m, a)
  /\ hdDone' = FALSE
  /\ UNCHANGED <<hdExposed, hdCharm, hdSettings, template, happened>>

Happens ==
  /\ happened < MaxHappens /\ happened' = happened + 1
  /\ hdDone' = FALSE
  /\ UNCHANGED <<hdExposed, hdCharm>>

\* An administrator, or the upgrade of a package, writes a file, and who
\* loads it does so
Edit(n) ==
  /\ Happens /\ RunCatalog[n].kind = "templated"
  /\ LET a == RunCatalog[n] IN
     host' = [host EXCEPT !.content[a.path] = [by |-> "edited"], !.loaded[a.loads] = [by |-> "edited"]]
  /\ UNCHANGED <<hdSettings, template>>

Chmod(n, mode) ==
  LET p == RunCatalog[n].path IN
  /\ Happens /\ RunCatalog[n].kind \notin {"package", "module"} /\ Exists(host, p)
  /\ p \in Dirs \ LeafDirs => "nested" \in hdExposed \/ RunCatalog[n].kind = "readonly"
  /\ RunCatalog[n].kind = "directory" /\ p \in LeafDirs => "flat_dir" \in hdExposed
  /\ RunCatalog[n].kind \in {"readonly", "suid"} /\ "ow" \notin mode => "group_only" \in hdExposed
  /\ host' = [host EXCEPT !.mode = [q \in Paths |->
                IF q \in (IF RunCatalog[n].kind = "readonly" THEN FilesBelow(p) ELSE {p})
                THEN mode ELSE @[q]]]
  /\ UNCHANGED <<hdSettings, template>>

\* A package that may not be there is installed, a file or a module returns
Returns(n) ==
  /\ Happens
  /\ host' = CASE RunCatalog[n].kind \in {"package", "module"} ->
                    [host EXCEPT !.unwanted = @ \cup {RunCatalog[n].path}]
               [] RunCatalog[n].kind = "deleted" ->
                    [host EXCEPT !.content[RunCatalog[n].path] = [by |-> "edited"]]
               [] OTHER -> host
  /\ host' # host
  /\ UNCHANGED <<hdSettings, template>>

Allowed(s) ==
  /\ (s.client \cup s.server) \cap {"weak_kex", "cbc_required"} # {} => "weak" \in hdExposed
  /\ s.client \cap {"weak_hmac", "weak_kex", "cbc_required"}
       # s.server \cap {"weak_hmac", "weak_kex", "cbc_required"} => "client" \in hdExposed

\* The charm is upgraded
UpgradeCharm(s, newer) ==
  /\ Happens /\ Allowed(s)
  /\ template' = IF newer THEN template + 1 ELSE template
  /\ s # hdSettings /\ ~newer => "settings" \in hdExposed
  /\ hdSettings' = s
  /\ UNCHANGED host

HdInit ==
  /\ hdExposed \in {{}} \cup {{h} : h \in HdHazards}
  /\ hdCharm \in Charms
  /\ hdSettings \in hdCharm.settings /\ Allowed(hdSettings)
  /\ template = 1 /\ happened = 0 /\ hdDone = FALSE
  /\ \E installed \in {None, [by |-> "package"]} :
       host = [content |-> [p \in Paths |-> IF p \in Dirs \cup {"su", "rcp"} THEN [by |-> "package"] ELSE installed],
               mode |-> [p \in Paths |-> IF p = "limits.d" THEN {"or", "x"}
                                   ELSE IF p \in Dirs THEN {"x"}
                                   ELSE IF p \in {"su", "rcp"} THEN {"s", "x"} ELSE {"or"}],
               templates |-> [p \in Paths |-> 0], sums |-> [p \in Paths |-> None],
               loaded |-> [w \in {"nobody", "pam", "kernel", "ssh", "mysql", "apache2"} |-> installed],
               unwanted |-> {"telnet-server", "cgi"}]

HdNext ==
  \/ \E fails \in {{}, {"kernel"}, {"ssh", "mysql"}},
        writes \in {{}} \cup {{p} : p \in {"sshd_config", "hardening.cnf"}} : harden(fails, writes)
  \/ \E n \in DOMAIN RunCatalog :
       \/ \E wrote \in BOOLEAN : Fails(n, wrote)
       \/ Edit(n) \/ Returns(n)
       \/ \E mode \in {{"gw"}, {"gw", "ow", "or", "s"}} : Chmod(n, mode)
  \/ \E s \in hdCharm.settings, newer \in BOOLEAN : UpgradeCharm(s, newer)

HdSpec == HdInit /\ [][HdNext]_hdVars
-----------------------------------------------------------------------------
\* What an audit is for
AsAsked(a) ==
  /\ a.kind = "templated" =>
       /\ host.content[a.path] = Rendered(a.path)
       /\ a.loads \notin {"nobody", "pam"} => host.loaded[a.loads] = host.content[a.path]
  /\ a.kind \in {"templated", "file"} /\ Exists(host, a.path) => host.mode[a.path] = a.mode
  /\ a.kind = "directory" => host.mode[a.path] = a.mode
  /\ a.kind = "readonly" => \A f \in FilesBelow(a.path) : host.mode[f] \cap {"gw", "ow"} = {}
  /\ a.kind = "noother" => \A f \in FilesBelow(a.path) : host.mode[f] \cap {"or", "ow"} = {}
  /\ a.kind = "suid" => "s" \notin host.mode[a.path]
  /\ a.kind = "deleted" => ~Exists(host, a.path)
  /\ a.path \notin host.unwanted

\* After a hardened hook the machine is as every audit of the modules asks,
\* by the templates and settings of today, services have loaded their files,
\* and the audits of the ssh files find what the same settings rendered to be
\* right, whatever happened to the machine and whichever hooks failed.
HardenedAsAsked ==
  hdDone =>
    /\ Spared({"killed", "settings", "restart_fails", "charm_writes", "nested", "flat_dir", "group_only"}) =>
         \A n \in DOMAIN RunCatalog : AsAsked(RunCatalog[n])
    /\ Spared({"weak", "client", "settings", "charm_writes", "killed"}) /\ "ssh" \in hdCharm.asked =>
         /\ SSHConfigFileContentAudit(host.content["ssh_config"].context, hdSettings)
         /\ SSHDConfigFileContentAudit(host.content["sshd_config"].context, hdSettings)
====
