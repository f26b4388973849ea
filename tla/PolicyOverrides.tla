---- MODULE PolicyOverrides ----
(***************************************************************************)
(* Policy overrides (contrib/openstack/policyd.py): a zip file that the    *)
(* operator attaches holds policy files, which hooks write to the policy   *)
(* directory of a service; a success file says that they are in place, and *)
(* the unit's status whether that is so.                                   *)
(***************************************************************************)
EXTENDS Integers, FiniteSets

CONSTANTS
  Zips,        \* resources: [opens, files], files a set of [name, ext, doc]
  Docs,        \* Docs[d]: the keys of document d, {} if it is no policy
  Blacklisted, \* keys that the charm does not let be overridden
  Always,      \* POLICYD_ALWAYS_BLACKLISTED_KEYS
  Kept,        \* names of files in the directory that the charm owns
  MaxAttached  \* bound: changes by the operator

(***************************************************************************)
(* no_zip        a resource that cannot be opened, or that has no policy   *)
(*               files or two of one name, follows one that is in use      *)
(* killed        the hook is killed while it writes the files              *)
(* always        a document has keys that are always blacklisted           *)
(* needs_restart the service reads its policies when it starts             *)
(***************************************************************************)
PolicyHazards == {"no_zip", "killed", "always", "needs_restart"}

VARIABLES
  poExposed, \* the hazards of this service; never changes
  usePolicy, \* the option use-policyd-override
  resource_, \* the attached resource
  attached,  \* changes by the operator
  success,   \* whether the success file is there
  policyd,   \* the files of the directory: by name, the document
  loaded,    \* the files as the service read them last
  poHook     \* the files that the running hook has still to write

poVars == <<poExposed, usePolicy, resource_, attached, success, policyd, loaded, poHook>>

Spared(hazards) == poExposed \cap hazards = {}
NoHook == [runs |-> FALSE, files |-> {}]
Templates == {"j2", "tmpl", "tpl"}
-----------------------------------------------------------------------------
clean_policyd_dir_for == [n \in DOMAIN policyd \cap Kept |-> policyd[n]]

\* What oslo.policy makes of the directory, unless the service is restarted
Reads(files, restarts) ==
  IF restarts \/ "needs_restart" \notin poExposed THEN files ELSE loaded

_yamlfiles(zip) == {f \in zip.files : f.ext \in Templates \cup {"yaml", "yml"}}

open_and_filter_yaml_files(zip) ==
  /\ zip.opens
  /\ _yamlfiles(zip) # {}
  /\ \A f, g \in _yamlfiles(zip) : f.name = g.name => f = g

\* POLICYD_ALWAYS_BLACKLISTED_KEYS is appended to the list as one tuple: it
\* is no key that a document could have
read_and_validate_yaml(doc) == Docs[doc] # {} /\ Docs[doc] \cap Blacklisted = {}

\* The charm gives no template function
CanWrite(f) == f.name \notin Kept /\ f.ext \notin Templates /\ read_and_validate_yaml(f.doc)

policyd_status_message_prefix == IF success THEN "PO:" ELSE "PO (broken):"
-----------------------------------------------------------------------------
PoInit ==
  /\ poExposed \in {{}} \cup {{h} : h \in PolicyHazards}
  /\ usePolicy = FALSE
  /\ resource_ \in Zips
  /\ attached = 0
  /\ success = FALSE
  /\ policyd = [n \in Kept |-> "charm"]
  /\ loaded = policyd
  /\ poHook = NoHook

Usable(zip) ==
  /\ (success /\ ~open_and_filter_yaml_files(zip)) => "no_zip" \in poExposed
  /\ (\E f \in zip.files : Docs[f.doc] \cap Always # {}) => "always" \in poExposed

\* The operator sets the option or attaches a resource, each with a hook
Operate(use, zip) ==
  /\ ~poHook.runs
  /\ attached < MaxAttached /\ attached' = attached + 1
  /\ Usable(zip)
  /\ usePolicy' = use /\ resource_' = zip
  /\ UNCHANGED <<poExposed, success, policyd, loaded, poHook>>

\* The option is off: the charm's hook cleans up
Disable ==
  /\ ~poHook.runs /\ ~usePolicy
  /\ policyd' = clean_policyd_dir_for
  /\ loaded' = Reads(policyd', success)
  /\ success' = FALSE
  /\ UNCHANGED <<poExposed, usePolicy, resource_, attached, poHook>>

\* Any exception: the directory is cleaned, without a restart
Fails ==
  /\ policyd' = clean_policyd_dir_for
  /\ loaded' = Reads(policyd', FALSE)
  /\ poHook' = NoHook

maybe_do_policyd_overrides_KeepMark(config_changed) ==
  /\ ~poHook.runs /\ usePolicy
  /\ ~(config_changed /\ success)
  /\ IF open_and_filter_yaml_files(resource_)
     THEN /\ policyd' = clean_policyd_dir_for /\ loaded' = Reads(policyd', FALSE)
          /\ poHook' = [runs |-> TRUE, files |-> _yamlfiles(resource_)]
     ELSE Fails
  /\ UNCHANGED <<poExposed, usePolicy, resource_, attached, success>>

\* Hooks other than config-changed process a resource again
maybe_do_policyd_overrides(config_changed) ==
  /\ ~poHook.runs /\ usePolicy
  /\ ~(config_changed /\ success)
  /\ IF open_and_filter_yaml_files(resource_)
     THEN /\ success' = FALSE
          /\ policyd' = clean_policyd_dir_for /\ loaded' = Reads(policyd', FALSE)
          /\ poHook' = [runs |-> TRUE, files |-> _yamlfiles(resource_)]
     ELSE Fails /\ UNCHANGED success
  /\ UNCHANGED <<poExposed, usePolicy, resource_, attached>>

Written(f) == [n \in DOMAIN policyd \cup {f.name} |-> IF n = f.name THEN f.doc ELSE policyd[n]]

\* process_policy_resource_file writes one file after the other, in the
\* order of the zip file
WriteFile(f) ==
  /\ f \in poHook.files
  /\ IF CanWrite(f)
     THEN /\ policyd' = Written(f)
          /\ loaded' = Reads(policyd', FALSE)
          /\ poHook' = [runs |-> TRUE, files |-> poHook.files \ {f}]
     ELSE Fails
  /\ UNCHANGED <<poExposed, usePolicy, resource_, attached, success>>

set_policy_success_file ==
  /\ poHook.runs /\ poHook.files = {}
  /\ success' = TRUE
  /\ loaded' = Reads(policyd, TRUE)
  /\ poHook' = NoHook
  /\ UNCHANGED <<poExposed, usePolicy, resource_, attached, policyd>>

Killed ==
  /\ "killed" \in poExposed /\ poHook.runs
  /\ poHook' = NoHook
  /\ UNCHANGED <<poExposed, usePolicy, resource_, attached, success, policyd, loaded>>

PoNext ==
  \/ \E use \in BOOLEAN, zip \in Zips : Operate(use, zip)
  \/ Disable
  \/ \E config_changed \in BOOLEAN : maybe_do_policyd_overrides(config_changed)
  \/ \E f \in poHook.files : WriteFile(f)
  \/ set_policy_success_file \/ Killed

PoSpec == PoInit /\ [][PoNext]_poVars
-----------------------------------------------------------------------------
Overrides == DOMAIN policyd \ Kept

\* The policy files of this resource are in place, and no others
Whole(zip) ==
  /\ Overrides = {f.name : f \in _yamlfiles(zip)}
  /\ \A f \in _yamlfiles(zip) : policyd[f.name] = f.doc

\* Between hooks the status is true: policy files of one whole resource are
\* in place exactly when it does not call the overrides broken, none of them
\* has a key that may not be overridden, and the service follows the files.
OverridesAsTold ==
  Spared(PolicyHazards) =>
  (~poHook.runs =>
    /\ Overrides # {} <=> policyd_status_message_prefix = "PO:"
    /\ Overrides # {} => \E zip \in Zips : Whole(zip)
    /\ \A n \in Overrides : Docs[policyd[n]] \cap (Blacklisted \cup Always) = {}
    /\ loaded = policyd)
====
