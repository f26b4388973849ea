------------------------------- MODULE HookRun -------------------------------
(***************************************************************************)
(* One run of a hook after another on one unit: charmhelpers/core/hookenv  *)
(* (the Hooks dispatcher, the atstart and atexit callbacks, Config) or     *)
(* core/services ServiceManager.manage(), inside the transaction that      *)
(* core/unitdata HookData opens around it.                                 *)
(*                                                                         *)
(* Two stores outlive a hook: the file of the last configuration, which a  *)
(* callback writes, and the unit's database, which the transaction writes. *)
(* What the charm stores is one value in both; the configuration has one   *)
(* option.                                                                 *)
(***************************************************************************)
EXTENDS Naturals, Sequences, SequencesExt

CONSTANTS
  Values,       \* values of the option and of what the charm stores
  Frameworks,   \* among "Hooks" and "ServiceManager"
  Hazards,      \* see below
  MaxCallbacks  \* bound: callbacks of the charm registered in one hook

(***************************************************************************)
(* exit               the charm may leave its hook by sys.exit()           *)
(* callback_failure   a callback may raise                                 *)
(* late_config        a callback may be the first to ask for the config    *)
(* crash              the process may be killed                            *)
(***************************************************************************)
ASSUME FrameworksAssumption == Frameworks \subseteq {"Hooks", "ServiceManager"}
ASSUME HookHazardsAssumption ==
  Hazards \subseteq {"exit", "callback_failure", "late_config", "crash"}
ASSUME MaxCallbacksAssumption == MaxCallbacks \in Nat
ASSUME ValuesAssumption == 0 \notin Values

VARIABLES
  charm,        \* the charm's framework and which of the hazards it is exposed
                \* to; never changes
  option,       \* the option, as the operator has set it
  file,         \* .juju-persistent-config: {} while there is nothing to parse
  db,           \* what the charm stored in the database, committed
  phase,        \* "idle", "atstart", "body" or "atexit"
  ended,        \* how the body ended
  atexit,       \* callbacks registered in this process, in order
  todo,         \* those _run_atexit has yet to run; it takes the last first
  cfg,          \* hookenv.config() of this process
  work,         \* the database as the open transaction sees it
  seen          \* history: {the option} as the last successful hook saw it

vars == <<charm, option, file, db, phase, ended, atexit, todo, cfg, work,
          seen>>

None == 0
Saved == [option : Values, stored : Values \union {None}]
Endings == {"none", "returned", "raised", "exit_zero", "exit_nonzero"}

-----------------------------------------------------------------------------
(* Each definition whose name ends in an underscore and a remark is the one *)
(* after it with a mistake that could be made in the code; Spec uses none. *)

(* Config. *)

NoConfig == [made |-> FALSE, option |-> None, stored |-> None, prev |-> {}]

(* Config.__init__ and load_previous: options come from Juju, what else the *)
(* file has is the charm's.  An empty file or one that cannot be parsed is  *)
(* as good as none.                                                        *)
Config ==
  [made |-> TRUE, option |-> option,
   stored |-> IF file = {} THEN None ELSE (CHOOSE p \in file : TRUE).stored,
   prev |-> file]

changed_OnlyIfPrevious(c) == \E p \in c.prev : p.option # c.option

(* changed(): everything is, as long as there is no previous configuration. *)
changed(c) == c.prev = {} \/ \E p \in c.prev : p.option # c.option

-----------------------------------------------------------------------------
Init ==
  /\ charm \in [framework : Frameworks, hazards : SUBSET Hazards]
  /\ option \in Values
  /\ file = {}
  /\ db = None
  /\ phase = "idle"
  /\ ended = "none"
  /\ atexit = <<>>
  /\ todo = <<>>
  /\ cfg = NoConfig
  /\ work = None
  /\ seen = {}

(* The operator may set the option at any time. *)
SetOption ==
  /\ \E v \in Values \ {option} : option' = v
  /\ UNCHANGED <<charm, file, db, phase, ended, atexit, todo, cfg, work, seen>>

(* A new process, with the transaction opened around the framework. *)
StartHook ==
  /\ phase = "idle"
  /\ phase' = "atstart"
  /\ ended' = "none"
  /\ atexit' = <<>>
  /\ todo' = <<>>
  /\ cfg' = NoConfig
  /\ work' = db
  /\ UNCHANGED <<charm, option, file, db, seen>>

(* _run_atstart; what was registered on import may register for the end.   *)
RunAtstart ==
  /\ phase = "atstart"
  /\ phase' = "body"
  /\ atexit' \in {<<>>, <<"callback">>}
  /\ UNCHANGED <<charm, option, file, db, ended, todo, cfg, work, seen>>

-----------------------------------------------------------------------------
(* What the charm does in the body of a hook. *)

GetConfig_Unsaved ==
  /\ phase = "body"
  /\ ~cfg.made
  /\ cfg' = Config
  /\ UNCHANGED <<charm, option, file, db, phase, ended, atexit, todo, work,
                 seen>>

(* The first config() of the process makes the object, which registers its *)
(* _implicit_save.                                                         *)
GetConfig ==
  /\ phase = "body"
  /\ ~cfg.made
  /\ cfg' = Config
  /\ atexit' = Append(atexit, "_implicit_save")
  /\ UNCHANGED <<charm, option, file, db, phase, ended, todo, work, seen>>

RegisterCallback ==
  /\ phase = "body"
  /\ Len(SelectSeq(atexit, LAMBDA c : c = "callback")) < MaxCallbacks
  /\ atexit' = Append(atexit, "callback")
  /\ UNCHANGED <<charm, option, file, db, phase, ended, todo, cfg, work, seen>>

(* config()['key'] = v and kv().set('key', v). *)
Store(v) ==
  /\ phase = "body"
  /\ cfg.made
  /\ v # work
  /\ cfg' = [cfg EXCEPT !.stored = v]
  /\ work' = v
  /\ UNCHANGED <<charm, option, file, db, phase, ended, atexit, todo, seen>>

-----------------------------------------------------------------------------
(* The end of a hook. *)

(* Hooks.execute() and ServiceManager.manage() run the callbacks after a   *)
(* return or an exit with 0; manage() catches every other exit and runs    *)
(* them too.                                                               *)
RunsAtexit(how) ==
  \/ how \in {"returned", "exit_zero"}
  \/ how = "exit_nonzero" /\ charm.framework = "ServiceManager"

EndBody(how) ==
  /\ phase = "body"
  /\ how \in {"exit_zero", "exit_nonzero"} => "exit" \in charm.hazards
  /\ RunsAtexit(how)
  /\ phase' = "atexit"
  /\ ended' = how
  /\ todo' = atexit
  /\ UNCHANGED <<charm, option, file, db, atexit, cfg, work, seen>>

(* The hook fails.  Its memory goes, and what the transaction holds: the   *)
(* exception makes hook_scope() roll back.                                 *)
Abandon ==
  /\ phase' = "idle"
  /\ ended' = "none"
  /\ atexit' = <<>>
  /\ todo' = <<>>
  /\ cfg' = NoConfig
  /\ work' = db
  /\ UNCHANGED <<charm, option, db, seen>>

FailBody(how) ==
  /\ phase \in {"atstart", "body"}
  /\ how = "exit_nonzero" => "exit" \in charm.hazards
  /\ how \in {"raised", "exit_nonzero"} /\ ~RunsAtexit(how)
  /\ Abandon
  /\ UNCHANGED file

(* The callbacks' loop reaches Config._implicit_save. *)
ImplicitSave ==
  /\ phase = "atexit"
  /\ todo # <<>> /\ Last(todo) = "_implicit_save"
  /\ file' = {[option |-> cfg.option, stored |-> cfg.stored]}
  /\ todo' = Front(todo)
  /\ UNCHANGED <<charm, option, db, phase, ended, atexit, cfg, work, seen>>

(* It reaches another callback.  If that makes the Config object, whose    *)
(* registration comes too late for the loop, it may store something, too.  *)
RunCallback ==
  /\ phase = "atexit"
  /\ todo # <<>> /\ Last(todo) = "callback"
  /\ todo' = Front(todo)
  /\ \/ UNCHANGED <<atexit, cfg, work>>
     \/ /\ "late_config" \in charm.hazards
        /\ ~cfg.made
        /\ atexit' = Append(atexit, "_implicit_save")
        /\ \E v \in Values :
             /\ cfg' = [Config EXCEPT !.stored = v]
             /\ work' = v
  /\ UNCHANGED <<charm, option, file, db, phase, ended, seen>>

CallbackRaises ==
  /\ "callback_failure" \in charm.hazards
  /\ phase = "atexit"
  /\ todo # <<>> /\ Last(todo) = "callback"
  /\ Abandon
  /\ UNCHANGED file

Commits_Never == FALSE

(* hook_scope() commits when the framework returns.  Hooks.execute() raises *)
(* SystemExit again, which passes hook_scope() as neither its exception nor *)
(* its success, and the connection closes uncommitted.                     *)
Commits == ended = "returned" \/ charm.framework = "ServiceManager"

(* The callbacks are done, and the hook is a success. *)
FinishHook ==
  /\ phase = "atexit"
  /\ todo = <<>>
  /\ phase' = "idle"
  /\ ended' = "none"
  /\ atexit' = <<>>
  /\ db' = IF Commits THEN work ELSE db
  /\ work' = db'
  /\ cfg' = NoConfig
  /\ seen' = IF cfg.made /\ ended # "exit_nonzero" THEN {cfg.option} ELSE seen
  /\ UNCHANGED <<charm, option, file, todo>>

(* The process is killed; save() truncates its file before it writes it.   *)
Kill ==
  /\ "crash" \in charm.hazards
  /\ phase # "idle"
  /\ Abandon
  /\ \/ UNCHANGED file
     \/ /\ phase = "atexit"
        /\ todo # <<>> /\ Last(todo) = "_implicit_save"
        /\ file' = {}

-----------------------------------------------------------------------------
Next ==
  \/ SetOption
  \/ StartHook
  \/ RunAtstart
  \/ GetConfig
  \/ RegisterCallback
  \/ \E v \in Values : Store(v)
  \/ \E how \in Endings : EndBody(how) \/ FailBody(how)
  \/ ImplicitSave
  \/ RunCallback
  \/ CallbackRaises
  \/ FinishHook
  \/ Kill

Spec == Init /\ [][Next]_vars

-----------------------------------------------------------------------------
(* Properties.  Each is stated for the hazards it holds under.             *)

Spared(hazards) == charm.hazards \intersect hazards = {}

(* The configuration is saved by the hooks that succeed and by no other.   *)
SavesLast == Spared({"callback_failure", "late_config", "crash"})

(* A hook that exits with an error does not go on to its callbacks.        *)
ExitsSafely == charm.framework = "Hooks" \/ Spared({"exit"})

(* A change of the option is reported by Config.changed() in every hook     *)
(* that looks, until one of them has succeeded, and no longer: an option    *)
(* that is as the last successful hook saw it is not reported, even if      *)
(* failed hooks saw another value in between.                              *)
ChangeReported ==
  SavesLast /\ ExitsSafely => (cfg.made => (changed(cfg) <=> cfg.option \notin seen))

(* What the charm stored in its configuration and what it stored in the    *)
(* database are of the same hook: both stores keep a hook or neither does. *)
SameHook ==
  /\ SavesLast
  /\ charm.framework = "ServiceManager" \/ Spared({"exit"})
  /\ phase = "idle"
  => \A p \in file : p.stored = db

(* A hook that succeeds keeps what it stored: in the database, unless it       *)
(* succeeded by an exit that the framework passes on, and in the configuration *)
(* file, unless it made the configuration when it had run.                     *)
StoredOnSuccess ==
  [][FinishHook =>
       /\ charm.framework = "ServiceManager" \/ Spared({"exit"}) => db' = work
       /\ cfg.made /\ Spared({"late_config"}) => \E p \in file' : p.stored = cfg.stored]_vars
=============================================================================
