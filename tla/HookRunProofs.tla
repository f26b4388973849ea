---------------------------- MODULE HookRunProofs -----------------------------
(* Theorems about runs of hooks, for any values of the option and of what  *)
(* the charm stores, and any number of callbacks.                          *)
EXTENDS HookRun, TLAPS

-----------------------------------------------------------------------------
Callbacks == {"callback", "_implicit_save"}
Stored == Values \union {None}

(* Config._implicit_save is among the callbacks of a list. *)
Registered(list) == \E i \in DOMAIN list : list[i] = "_implicit_save"

(* What _implicit_save writes, and the options of a file. *)
Image(c) == [option |-> c.option, stored |-> c.stored]
Options(f) == {p.option : p \in f}

TypeOK ==
  /\ charm \in [framework : Frameworks, hazards : SUBSET Hazards]
  /\ option \in Values
  /\ file \in SUBSET Saved
  /\ \A p, q \in file : p = q
  /\ db \in Stored
  /\ phase \in {"idle", "atstart", "body", "atexit"}
  /\ ended \in Endings
  /\ atexit \in Seq(Callbacks)
  /\ todo \in Seq(Callbacks)
  /\ cfg \in [made : BOOLEAN, option : Stored, stored : Stored, prev : SUBSET Saved]
  /\ \A p, q \in cfg.prev : p = q
  /\ work \in Stored
  /\ seen \in SUBSET Values

(* There is a configuration if and only if its save is registered. *)
Memory ==
  /\ cfg.made <=> Registered(atexit)
  /\ Registered(todo) => cfg.made
  /\ cfg.made => cfg.option \in Values
  /\ phase \in {"idle", "atstart"} => ~cfg.made /\ work = db

(* Callbacks run after a return, or an exit that the framework catches. *)
Ended ==
  phase = "atexit" =>
    /\ ended \in {"returned", "exit_zero", "exit_nonzero"}
    /\ ended # "returned" => "exit" \in charm.hazards
    /\ ended = "exit_nonzero" => charm.framework = "ServiceManager"

(* A configuration made in the body is saved before the hook is over. *)
SavedInTime ==
  Spared({"late_config"}) /\ phase = "atexit" /\ cfg.made =>
    Registered(todo) \/ file = {Image(cfg)}

JustSaved == phase = "atexit" /\ cfg.made /\ file = {Image(cfg)}

(* The file is of the last successful hook, or of this one, at its end. *)
Reported ==
  SavesLast /\ ExitsSafely =>
    /\ cfg.made => Options(cfg.prev) = seen
    /\ Options(file) = seen \/ JustSaved

(* Both stores are of the same hook. *)
Together ==
  SavesLast /\ (charm.framework = "ServiceManager" \/ Spared({"exit"})) =>
    /\ IF cfg.made THEN cfg.stored = work ELSE work = db
    /\ \/ (file = {} => db = None) /\ \A p \in file : p.stored = db
       \/ JustSaved

IInv ==
  /\ TypeOK
  /\ Memory
  /\ Ended
  /\ SavedInTime
  /\ Reported
  /\ Together

-----------------------------------------------------------------------------
(* Lists of callbacks. *)

LEMMA RegisterSave ==
  ASSUME NEW list \in Seq(Callbacks), NEW c \in Callbacks
  PROVE  /\ Append(list, c) \in Seq(Callbacks)
         /\ Registered(Append(list, c)) <=> Registered(list) \/ c = "_implicit_save"
<1>1. /\ Append(list, c) \in Seq(Callbacks) /\ Len(Append(list, c)) = Len(list) + 1
      /\ \A i \in 1..Len(list) : Append(list, c)[i] = list[i]
      /\ Append(list, c)[Len(list) + 1] = c
      /\ DOMAIN Append(list, c) = 1..(Len(list) + 1)
      /\ DOMAIN list = 1..Len(list) /\ Len(list) \in Nat
  OBVIOUS
<1> HIDE DEF Callbacks
<1>2. ASSUME Registered(Append(list, c))
      PROVE  Registered(list) \/ c = "_implicit_save"
  BY <1>1, <1>2 DEF Registered
<1>3. ASSUME Registered(list) \/ c = "_implicit_save"
      PROVE  Registered(Append(list, c))
  BY <1>1, <1>3 DEF Registered
<1> QED  BY <1>1, <1>2, <1>3

(* The loop takes the last of the callbacks. *)
LEMMA TakeLast ==
  ASSUME NEW list \in Seq(Callbacks), list # <<>>
  PROVE  /\ Front(list) \in Seq(Callbacks)
         /\ Registered(Front(list)) => Registered(list)
         /\ Registered(list) /\ Last(list) # "_implicit_save" => Registered(Front(list))
         /\ Last(list) = "_implicit_save" => Registered(list)
<1>1. /\ Front(list) \in Seq(Callbacks) /\ Len(list) \in Nat /\ Len(list) > 0
      /\ DOMAIN Front(list) = 1..(Len(list) - 1) /\ DOMAIN list = 1..Len(list)
      /\ \A i \in 1..(Len(list) - 1) : Front(list)[i] = list[i]
      /\ Last(list) = list[Len(list)]
  BY DEF Front, Last
<1>2. \A i \in DOMAIN list : i \in DOMAIN Front(list) \/ i = Len(list)
  BY <1>1
<1>3. ASSUME Registered(list), Last(list) # "_implicit_save"
      PROVE  Registered(Front(list))
  BY <1>1, <1>2, <1>3 DEF Registered
<1>4. ASSUME Registered(Front(list))
      PROVE  Registered(list)
  BY <1>1, <1>4 DEF Registered
<1>5. ASSUME Last(list) = "_implicit_save"
      PROVE  Registered(list)
  <2>1. Len(list) \in DOMAIN list /\ list[Len(list)] = "_implicit_save"
    BY <1>1, <1>5
  <2> QED  BY <2>1 DEF Registered
<1> QED  BY <1>1, <1>3, <1>4, <1>5

LEMMA NothingRegistered ==
  /\ <<>> \in Seq(Callbacks)
  /\ ~Registered(<<>>)
BY DEF Registered

LEMMA ImageReads ==
  Image(cfg).option = cfg.option /\ Image(cfg).stored = cfg.stored
BY DEF Image

(* What config() reads of the file. *)
LEMMA ConfigRead ==
  ASSUME TypeOK
  PROVE  /\ Config \in [made : BOOLEAN, option : Stored, stored : Stored, prev : SUBSET Saved]
         /\ Config.made /\ Config.option = option /\ Config.prev = file
         /\ file = {} => Config.stored = None
         /\ \A p \in file : Config.stored = p.stored
<1>1. /\ Config.made /\ Config.option = option /\ Config.prev = file
      /\ file = {} => Config.stored = None
  BY DEF Config
<1>2. \A p \in file : Config.stored = p.stored
  <2> SUFFICES ASSUME NEW p \in file
               PROVE  Config.stored = p.stored
    OBVIOUS
  <2>1. (CHOOSE q \in file : TRUE) = p
    BY DEF TypeOK
  <2> QED  BY <2>1 DEF Config
<1>3. Config.stored \in Stored
  BY <1>1, <1>2 DEF TypeOK, Stored, Saved
<1> QED  BY <1>1, <1>2, <1>3 DEF TypeOK, Config, Stored

-----------------------------------------------------------------------------
(* The invariant is inductive. *)

LEMMA InvInit == Init => IInv
<1> SUFFICES ASSUME Init
             PROVE  IInv
  OBVIOUS
<1>1. TypeOK
  BY NothingRegistered DEF Init, TypeOK, Stored, NoConfig, Endings, Saved
<1>2. Memory
  BY NothingRegistered DEF Init, Memory, NoConfig
<1>3. Ended /\ SavedInTime /\ Reported /\ Together
  BY DEF Init, Ended, SavedInTime, Reported, Together, NoConfig, Options
<1> QED  BY <1>1, <1>2, <1>3 DEF IInv

(* Steps that leave the stores and the configuration alone.               *)
LEMMA QuietKeepsInv ==
  ASSUME IInv, TypeOK', Memory', Ended',
         UNCHANGED <<charm, file, db, cfg, work, seen>>,
         phase = "atexit" => phase' = "atexit",
         phase' = "atexit" /\ Registered(todo) => Registered(todo'),
         phase' = "atexit" /\ phase # "atexit" /\ cfg.made => Registered(todo')
  PROVE  IInv'
<1>1. SavedInTime'
  BY DEF IInv, SavedInTime, Spared, Image, Registered
<1>2. Reported' /\ Together'
  BY DEF IInv, Reported, Together, JustSaved, SavesLast, ExitsSafely, Spared, Image, Options
<1> QED  BY <1>1, <1>2 DEF IInv

(* A hook that fails takes its memory and what it stored with it.          *)
LEMMA AbandonKeepsInv ==
  ASSUME IInv, Abandon, phase # "idle",
         \/ file' = file /\ (phase = "atexit" => ~SavesLast)
         \/ file' = {} /\ ~SavesLast
  PROVE  IInv'
<1>1. /\ phase' = "idle" /\ ended' = "none" /\ atexit' = <<>> /\ todo' = <<>>
      /\ cfg' = NoConfig /\ work' = db
      /\ UNCHANGED <<charm, option, db, seen>>
  BY DEF Abandon
<1>2. TypeOK'
  BY <1>1, NothingRegistered DEF IInv, TypeOK, NoConfig, Stored, Endings
<1>3. Memory'
  BY <1>1, NothingRegistered DEF Memory, NoConfig
<1>4. Ended' /\ SavedInTime'
  BY <1>1 DEF Ended, SavedInTime
<1>5. Reported' /\ Together'
  <2>1. ~cfg'.made /\ ~JustSaved'
    BY <1>1 DEF NoConfig, JustSaved
  <2>2. CASE ~SavesLast
    BY <1>1, <2>2 DEF Reported, Together, SavesLast, Spared
  <2>3. CASE SavesLast
    <3>1. file' = file /\ ~JustSaved
      BY <2>3 DEF JustSaved
    <3> QED  BY <1>1, <2>1, <3>1 DEF IInv, Reported, Together, SavesLast, ExitsSafely,
                                     Spared, Options
  <2> QED  BY <2>2, <2>3
<1> QED  BY <1>2, <1>3, <1>4, <1>5 DEF IInv

LEMMA GetConfigKeepsInv ==
  ASSUME IInv, GetConfig
  PROVE  IInv'
<1>1. /\ phase = "body" /\ ~cfg.made /\ cfg' = Config
      /\ atexit' = Append(atexit, "_implicit_save")
      /\ UNCHANGED <<charm, option, file, db, phase, ended, todo, work, seen>>
  BY DEF GetConfig
<1>2. TypeOK /\ TypeOK'
  BY <1>1, ConfigRead, RegisterSave DEF IInv, TypeOK, Callbacks
<1>3. Memory'
  BY <1>1, <1>2, ConfigRead, RegisterSave DEF IInv, TypeOK, Memory, Callbacks, Registered
<1>4. Ended' /\ SavedInTime'
  BY <1>1 DEF Ended, SavedInTime
<1>5. ~JustSaved
  BY <1>1 DEF JustSaved
<1>6. Reported'
  BY <1>1, <1>2, <1>5, ConfigRead DEF IInv, Reported, SavesLast, ExitsSafely, Spared, Options
<1>7. Together'
  BY <1>1, <1>2, <1>5, ConfigRead DEF IInv, Together, SavesLast, Spared
<1> QED  BY <1>2, <1>3, <1>4, <1>6, <1>7 DEF IInv

LEMMA StoreKeepsInv ==
  ASSUME IInv, NEW v \in Values, Store(v)
  PROVE  IInv'
<1>1. /\ phase = "body" /\ cfg.made
      /\ cfg' = [cfg EXCEPT !.stored = v] /\ work' = v
      /\ UNCHANGED <<charm, option, file, db, phase, ended, atexit, todo, seen>>
  BY DEF Store
<1>2. TypeOK'
  BY <1>1 DEF IInv, TypeOK, Stored
<1>3. /\ cfg'.made /\ cfg'.option = cfg.option /\ cfg'.prev = cfg.prev
      /\ cfg'.stored = v
  BY <1>1 DEF IInv, TypeOK
<1>4. Memory' /\ Ended' /\ SavedInTime'
  BY <1>1, <1>3 DEF IInv, Memory, Ended, SavedInTime, Registered
<1>5. ~JustSaved
  BY <1>1 DEF JustSaved
<1>6. Reported' /\ Together'
  BY <1>1, <1>3, <1>5 DEF IInv, Reported, Together, SavesLast, ExitsSafely, Spared, Options
<1> QED  BY <1>2, <1>4, <1>6 DEF IInv

LEMMA ImplicitSaveKeepsInv ==
  ASSUME IInv, ImplicitSave
  PROVE  IInv'
<1>1. /\ phase = "atexit" /\ todo # <<>> /\ Last(todo) = "_implicit_save"
      /\ file' = {Image(cfg)} /\ todo' = Front(todo)
      /\ UNCHANGED <<charm, option, db, phase, ended, atexit, cfg, work, seen>>
  BY DEF ImplicitSave, Image
<1>2. cfg.made /\ cfg.option \in Values
  BY <1>1, TakeLast DEF IInv, TypeOK, Memory
<1>3. TypeOK'
  BY <1>1, <1>2, TakeLast DEF IInv, TypeOK, Saved, Stored, Image
<1>4. Memory' /\ Ended'
  BY <1>1, <1>2 DEF IInv, Memory, Ended, Registered
<1>5. JustSaved'
  BY <1>1, <1>2 DEF JustSaved, Image
<1>6. SavedInTime'
  BY <1>5 DEF SavedInTime, JustSaved
<1>7. Reported' /\ Together'
  BY <1>1, <1>2, <1>5 DEF IInv, Reported, Together, SavesLast, ExitsSafely, Spared
<1> QED  BY <1>3, <1>4, <1>6, <1>7 DEF IInv

LEMMA RunCallbackKeepsInv ==
  ASSUME IInv, RunCallback
  PROVE  IInv'
<1>1. /\ phase = "atexit" /\ todo # <<>> /\ Last(todo) = "callback"
      /\ todo' = Front(todo)
      /\ UNCHANGED <<charm, option, file, db, phase, ended, seen>>
  BY DEF RunCallback
<1>2. /\ todo' \in Seq(Callbacks)
      /\ Registered(todo') <=> Registered(todo)
  BY <1>1, TakeLast DEF IInv, TypeOK
<1>3. CASE UNCHANGED <<atexit, cfg, work>>
  <2>1. TypeOK' /\ Memory' /\ Ended'
    BY <1>1, <1>2, <1>3 DEF IInv, TypeOK, Memory, Ended, Registered
  <2> QED  BY <1>1, <1>2, <1>3, <2>1, QuietKeepsInv
<1>4. CASE /\ "late_config" \in charm.hazards
           /\ ~cfg.made
           /\ atexit' = Append(atexit, "_implicit_save")
           /\ \E v \in Values : cfg' = [Config EXCEPT !.stored = v] /\ work' = v
  <2>1. PICK v \in Values : cfg' = [Config EXCEPT !.stored = v] /\ work' = v
    BY <1>4
  <2>2. TypeOK /\ ~SavesLast' /\ ~Spared({"late_config"})'
    BY <1>1, <1>4 DEF IInv, SavesLast, Spared
  <2>3. cfg'.made /\ cfg'.option = option /\ cfg'.prev = file /\ cfg' \in
          [made : BOOLEAN, option : Stored, stored : Stored, prev : SUBSET Saved]
    BY <2>1, <2>2, ConfigRead DEF Stored
  <2>4. TypeOK'
    BY <1>1, <1>2, <1>4, <2>1, <2>2, <2>3, RegisterSave DEF TypeOK, Callbacks, Stored
  <2>5. Memory'
    BY <1>1, <1>4, <2>2, <2>3, RegisterSave DEF Memory, TypeOK, Callbacks
  <2>6. Ended'
    BY <1>1 DEF IInv, Ended
  <2> QED  BY <2>2, <2>4, <2>5, <2>6 DEF IInv, SavedInTime, Reported, Together
<1> QED  BY <1>3, <1>4 DEF RunCallback

LEMMA FinishKeepsInv ==
  ASSUME IInv, FinishHook
  PROVE  IInv'
<1>1. /\ phase = "atexit" /\ todo = <<>> /\ phase' = "idle" /\ ended' = "none"
      /\ atexit' = <<>> /\ cfg' = NoConfig
      /\ db' = IF Commits THEN work ELSE db
      /\ work' = db'
      /\ seen' = IF cfg.made /\ ended # "exit_nonzero" THEN {cfg.option} ELSE seen
      /\ UNCHANGED <<charm, option, file, todo>>
  BY DEF FinishHook
<1>2. cfg.made => cfg.option \in Values
  BY DEF IInv, Memory
<1>3. TypeOK'
  BY <1>1, <1>2, NothingRegistered DEF IInv, TypeOK, NoConfig, Stored, Endings
<1>4. Memory'
  BY <1>1, NothingRegistered DEF Memory, NoConfig
<1>5. Ended' /\ SavedInTime' /\ ~cfg'.made
  BY <1>1 DEF Ended, SavedInTime, NoConfig
<1>6. SavesLast /\ cfg.made => file = {Image(cfg)}
  BY <1>1, NothingRegistered DEF IInv, SavedInTime, SavesLast, Spared
<1>7. Reported'
  <2> SUFFICES ASSUME SavesLast, ExitsSafely
               PROVE  Options(file) = seen'
    BY <1>1, <1>5 DEF Reported, SavesLast, ExitsSafely, Spared, Options
  <2>1. CASE cfg.made
    <3>1. ended # "exit_nonzero"
      BY <1>1 DEF IInv, Ended, ExitsSafely, Spared
    <3>2. Options(file) = {cfg.option}
      BY <1>6, <2>1, ImageReads DEF Options
    <3> QED  BY <1>1, <2>1, <3>1, <3>2
  <2>2. CASE ~cfg.made
    BY <1>1, <2>2 DEF IInv, Reported, JustSaved
  <2> QED  BY <2>1, <2>2
<1>8. Together'
  <2> SUFFICES ASSUME SavesLast, charm.framework = "ServiceManager" \/ Spared({"exit"})
               PROVE  (file = {} => db' = None) /\ \A p \in file : p.stored = db'
    BY <1>1, <1>5 DEF Together, SavesLast, Spared
  <2>1. Commits
    BY <1>1 DEF IInv, Ended, Commits, Spared
  <2>2. db' = work
    BY <1>1, <2>1
  <2>3. CASE cfg.made
    <3>1. cfg.stored = work
      BY <2>3 DEF IInv, Together
    <3> QED  BY <1>6, <2>2, <2>3, <3>1, ImageReads
  <2>4. CASE ~cfg.made
    BY <2>2, <2>4 DEF IInv, Together, JustSaved
  <2> QED  BY <2>3, <2>4
<1> QED  BY <1>3, <1>4, <1>5, <1>7, <1>8 DEF IInv

LEMMA InvStep == IInv /\ [Next]_vars => IInv'
<1> SUFFICES ASSUME IInv, [Next]_vars
             PROVE  IInv'
  OBVIOUS
<1>1. CASE SetOption
  <2>1. TypeOK' /\ Memory' /\ Ended'
    BY <1>1 DEF SetOption, IInv, TypeOK, Memory, Ended, Registered
  <2> QED  BY <1>1, <2>1, QuietKeepsInv DEF SetOption
<1>2. CASE StartHook
  <2>1. phase = "idle" /\ phase' = "atstart" /\ ~cfg.made
    BY <1>2 DEF StartHook, IInv, Memory
  <2>2. TypeOK' /\ Memory' /\ Ended' /\ SavedInTime'
    BY <1>2, NothingRegistered
       DEF StartHook, IInv, TypeOK, Memory, Ended, SavedInTime, NoConfig, Stored, Endings
  <2>3. Reported' /\ Together'
    BY <1>2, <2>1 DEF StartHook, IInv, Reported, Together, JustSaved, NoConfig, SavesLast,
                      ExitsSafely, Spared, Options
  <2> QED  BY <2>2, <2>3 DEF IInv
<1>3. CASE RunAtstart
  <2>1. /\ phase = "atstart" /\ phase' = "body"
        /\ atexit' \in {<<>>, <<"callback">>}
        /\ UNCHANGED <<charm, option, file, db, ended, todo, cfg, work, seen>>
    BY <1>3 DEF RunAtstart
  <2>2. atexit' \in Seq(Callbacks) /\ ~Registered(atexit')
    <3>1. <<"callback">> \in Seq(Callbacks)
      BY "callback" \in Callbacks DEF Callbacks
    <3>2. DOMAIN <<"callback">> = {1} /\ <<"callback">>[1] # "_implicit_save"
      OBVIOUS
    <3>3. ~Registered(<<"callback">>)
      BY <3>2 DEF Registered
    <3> QED  BY <2>1, <3>1, <3>3, NothingRegistered
  <2>3. TypeOK' /\ Memory' /\ Ended'
    BY <2>1, <2>2 DEF IInv, TypeOK, Memory, Ended, Registered
  <2> QED  BY <2>1, <2>3, QuietKeepsInv
<1>4. CASE GetConfig
  BY <1>4, GetConfigKeepsInv
<1>5. CASE RegisterCallback
  <2>1. /\ phase = "body" /\ atexit' = Append(atexit, "callback")
        /\ UNCHANGED <<charm, option, file, db, phase, ended, todo, cfg, work, seen>>
    BY <1>5 DEF RegisterCallback
  <2>2. atexit' \in Seq(Callbacks) /\ (Registered(atexit') <=> Registered(atexit))
    BY <2>1, RegisterSave DEF IInv, TypeOK, Callbacks
  <2>3. TypeOK' /\ Memory' /\ Ended'
    BY <2>1, <2>2 DEF IInv, TypeOK, Memory, Ended, Registered
  <2> QED  BY <2>1, <2>3, QuietKeepsInv
<1>6. ASSUME NEW v \in Values, Store(v)
      PROVE  IInv'
  BY <1>6, StoreKeepsInv
<1>7. ASSUME NEW how \in Endings, EndBody(how)
      PROVE  IInv'
  <2>1. /\ phase = "body" /\ phase' = "atexit" /\ ended' = how /\ todo' = atexit
        /\ UNCHANGED <<charm, option, file, db, atexit, cfg, work, seen>>
    BY <1>7 DEF EndBody
  <2>2. TypeOK' /\ Memory'
    BY <2>1 DEF IInv, TypeOK, Memory, Registered
  <2>3. Ended'
    BY <1>7, <2>1 DEF EndBody, RunsAtexit, Ended
  <2>4. cfg.made => Registered(todo')
    BY <2>1 DEF IInv, Memory, Registered
  <2>5. SavedInTime'
    BY <2>1, <2>4 DEF SavedInTime, Registered
  <2>6. Reported' /\ Together'
    BY <2>1 DEF IInv, Reported, Together, JustSaved, SavesLast, ExitsSafely, Spared, Options
  <2> QED  BY <2>2, <2>3, <2>5, <2>6 DEF IInv
<1>8. ASSUME NEW how \in Endings, FailBody(how)
      PROVE  IInv'
  BY <1>8, AbandonKeepsInv DEF FailBody
<1>9. CASE ImplicitSave
  BY <1>9, ImplicitSaveKeepsInv
<1>10. CASE RunCallback
  BY <1>10, RunCallbackKeepsInv
<1>11. CASE CallbackRaises
  <2>1. ~SavesLast
    BY <1>11 DEF CallbackRaises, SavesLast, Spared
  <2> QED  BY <1>11, <2>1, AbandonKeepsInv DEF CallbackRaises
<1>12. CASE FinishHook
  BY <1>12, FinishKeepsInv
<1>13. CASE Kill
  <2>1. ~SavesLast
    BY <1>13 DEF Kill, SavesLast, Spared
  <2> QED  BY <1>13, <2>1, AbandonKeepsInv DEF Kill
<1>14. CASE UNCHANGED vars
  <2>1. TypeOK' /\ Memory' /\ Ended'
    BY <1>14 DEF vars, IInv, TypeOK, Memory, Ended, Registered
  <2> QED  BY <1>14, <2>1, QuietKeepsInv DEF vars
<1> QED  BY <1>1, <1>2, <1>3, <1>4, <1>5, <1>6, <1>7, <1>8, <1>9, <1>10, <1>11,
            <1>12, <1>13, <1>14 DEF Next

-----------------------------------------------------------------------------
(* The theorems. *)

(* The stores, the memory of a hook and its registered callbacks are as    *)
(* the invariant says in every run of hooks.                               *)
THEOREM Invariance == Spec => []IInv
BY InvInit, InvStep, PTL DEF Spec

(* Config.changed() reports a change of the option until a hook that looked *)
(* has succeeded, and no longer.                                           *)
THEOREM ChangesReported == Spec => []ChangeReported
<1>1. IInv => ChangeReported
  <2> SUFFICES ASSUME IInv, SavesLast, ExitsSafely, cfg.made
               PROVE  changed(cfg) <=> cfg.option \notin seen
    BY DEF ChangeReported
  <2>1. Options(cfg.prev) = seen
    BY DEF IInv, Reported
  <2>2. ASSUME NEW p \in cfg.prev
        PROVE  cfg.prev = {p}
    BY DEF IInv, TypeOK
  <2> QED  BY <2>1, <2>2 DEF changed, Options
<1> QED  BY <1>1, Invariance, PTL

(* What the charm stored in its configuration and in the database is of    *)
(* the same hook.                                                          *)
THEOREM StoresAgree == Spec => []SameHook
<1>1. IInv => SameHook
  BY DEF IInv, Together, JustSaved, SameHook
<1> QED  BY <1>1, Invariance, PTL

(* A hook that succeeds keeps what it stored. *)
THEOREM SuccessKeeps == Spec => StoredOnSuccess
<1>1. ASSUME IInv, FinishHook
      PROVE  /\ charm.framework = "ServiceManager" \/ Spared({"exit"}) => db' = work
             /\ cfg.made /\ Spared({"late_config"}) => \E p \in file' : p.stored = cfg.stored
  <2>1. /\ phase = "atexit" /\ todo = <<>> /\ file' = file
        /\ db' = IF Commits THEN work ELSE db
    BY <1>1 DEF FinishHook
  <2>2. charm.framework = "ServiceManager" \/ Spared({"exit"}) => Commits
    BY <1>1, <2>1 DEF IInv, Ended, Commits, Spared
  <2>3. cfg.made /\ Spared({"late_config"}) => file = {Image(cfg)}
    BY <1>1, <2>1, NothingRegistered DEF IInv, SavedInTime
  <2> QED  BY <2>1, <2>2, <2>3, ImageReads
<1> QED  BY <1>1, Invariance, PTL DEF StoredOnSuccess
===============================================================================
