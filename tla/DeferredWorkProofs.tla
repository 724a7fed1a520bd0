------------------------ MODULE DeferredWorkProofs -------------------------
(***************************************************************************)
(* Proofs about the modules that defer work: to timers and tasklets, for   *)
(* any number of expiries, and, from the last part on, to the workqueue.   *)
(***************************************************************************)
EXTENDS DeferredCallbacks, WorkItem, TLAPS, SequenceTheorems

AllExamples == {Timer004, Hrt005, Tasklet008, TimerTasklet010, FileTasklet011}
Examples01 == {Timer004, Hrt005, TimerTasklet010}

LEMMA Steps ==
  /\ \A a : <<a>> # <<>> /\ Head(<<a>>) = a /\ Tail(<<a>>) = <<>>
  /\ \A a, b : <<a, b>> # <<>> /\ Head(<<a, b>>) = a /\ Tail(<<a, b>>) = <<b>>
  OBVIOUS

(* The first call of a list.                                               *)
LEMMA Heads ==
  /\ Head(<<"mod_timer">>) = "mod_timer"
  /\ Head(<<"del_timer">>) = "del_timer"
  /\ Head(<<"del_timer_sync">>) = "del_timer_sync"
  /\ Head(<<"tasklet_schedule">>) = "tasklet_schedule"
  /\ Head(<<"kfree">>) = "kfree"
  /\ Head(<<"del_timer_sync", "tasklet_kill">>) = "del_timer_sync"
  /\ Head(<<"tasklet_schedule", "mod_timer">>) = "tasklet_schedule"
  /\ Head(<<"tasklet_kill">>) = "tasklet_kill"
  /\ Head(<<"tasklet_kill", "kfree">>) = "tasklet_kill"
  /\ Head(<<"tasklet_kill_end">>) = "tasklet_kill_end"
  /\ Head(<<"tasklet_kill_end", "kfree">>) = "tasklet_kill_end"
  BY Steps

(* What is left of a list of calls after its first one.                    *)
LEMMA Afters ==
  /\ After(<<"mod_timer">>) = <<>>
  /\ After(<<"del_timer">>) = <<>>
  /\ After(<<"del_timer_sync">>) = <<>>
  /\ After(<<"tasklet_schedule">>) = <<>>
  /\ After(<<"kfree">>) = <<>>
  /\ After(<<"del_timer_sync", "tasklet_kill">>) = <<"tasklet_kill">>
  /\ After(<<"tasklet_schedule", "mod_timer">>) = <<"mod_timer">>
  /\ After(<<"tasklet_kill">>) = <<"tasklet_kill_end">>
  /\ After(<<"tasklet_kill", "kfree">>) = <<"tasklet_kill_end", "kfree">>
  /\ After(<<"tasklet_kill_end">>) = <<>>
  /\ After(<<"tasklet_kill_end", "kfree">>) = <<"kfree">>
<1>1. /\ Tail(<<"tasklet_kill">>) = <<>> /\ Tail(<<"tasklet_kill_end">>) = <<>>
      /\ Tail(<<"tasklet_kill", "kfree">>) = <<"kfree">>
      /\ Tail(<<"tasklet_kill_end", "kfree">>) = <<"kfree">>
  BY Steps
<1>5. /\ <<"tasklet_kill_end">> \o <<>> = <<"tasklet_kill_end">>
      /\ <<"tasklet_kill_end">> \o <<"kfree">> = <<"tasklet_kill_end", "kfree">>
  <2> DEFINE s == <<"tasklet_kill_end">> \o <<"kfree">>
             t == <<"tasklet_kill_end", "kfree">>
  <2>1. s \in Seq({"tasklet_kill_end", "kfree"}) /\ t \in Seq({"tasklet_kill_end", "kfree"})
    OBVIOUS
  <2>2. Len(s) = Len(t) /\ \A i \in 1 .. Len(s) : s[i] = t[i]
    OBVIOUS
  <2>3. <<"tasklet_kill_end">> \o <<>> = <<"tasklet_kill_end">>
    OBVIOUS
  <2> HIDE DEF s, t
  <2> QED
    BY <2>1, <2>2, <2>3, SeqEqual DEF s, t
<1>2. /\ After(<<"tasklet_kill">>) = <<"tasklet_kill_end">>
      /\ After(<<"tasklet_kill", "kfree">>) = <<"tasklet_kill_end", "kfree">>
  BY <1>1, <1>5, Heads DEF After
<1>3. /\ After(<<"tasklet_kill_end">>) = <<>>
      /\ After(<<"tasklet_kill_end", "kfree">>) = <<"kfree">>
  BY <1>1, Heads DEF After
<1>4. /\ Tail(<<"mod_timer">>) = <<>> /\ Tail(<<"del_timer">>) = <<>>
      /\ Tail(<<"del_timer_sync">>) = <<>> /\ Tail(<<"tasklet_schedule">>) = <<>>
      /\ Tail(<<"kfree">>) = <<>>
      /\ Tail(<<"del_timer_sync", "tasklet_kill">>) = <<"tasklet_kill">>
      /\ Tail(<<"tasklet_schedule", "mod_timer">>) = <<"mod_timer">>
  BY Steps
<1> QED
  BY <1>2, <1>3, <1>4, Heads DEF After

(* The calls with which 011 names and schedules its events, in turn, until *)
(* the last event is scheduled.                                            *)
Events ==
  {s \in Seq({"snprintf", "tasklet_schedule"}) :
     /\ s # <<>> => s[Len(s)] = "tasklet_schedule"
     /\ \A i \in 1 .. Len(s) - 1 : s[i] # s[i + 1]}

(* An event has been named and is scheduled next.                          *)
Named(s) == s # <<>> /\ Head(s) = "tasklet_schedule"

LEMMA EventCalls ==
  ASSUME NEW s \in Events, s # <<>>
  PROVE  /\ Head(s) \in {"snprintf", "tasklet_schedule"} /\ After(s) \in Events
         /\ Head(s) = "snprintf" => Named(After(s))
         /\ Head(s) = "tasklet_schedule" => ~ Named(After(s))
<1> DEFINE t == Tail(s)
<1>1. /\ s \in Seq({"snprintf", "tasklet_schedule"}) /\ Len(s) \in Nat \ {0}
      /\ s[Len(s)] = "tasklet_schedule"
      /\ \A i \in 1 .. Len(s) - 1 : s[i] # s[i + 1]
  BY DEF Events
<1>2. /\ Head(s) = s[1] /\ Head(s) \in {"snprintf", "tasklet_schedule"}
      /\ t \in Seq({"snprintf", "tasklet_schedule"})
      /\ Len(t) = Len(s) - 1 /\ \A i \in 1 .. Len(t) : t[i] = s[i + 1]
  BY <1>1, HeadTailProperties
<1> HIDE DEF t
<1>3. t # <<>> => t[Len(t)] = "tasklet_schedule"
  <2>1. t # <<>> => Len(t) \in 1 .. Len(t) /\ Len(t) + 1 = Len(s)
    BY <1>1, <1>2
  <2> QED
    BY <1>1, <1>2, <2>1
<1>4. \A i \in 1 .. Len(t) - 1 : t[i] # t[i + 1]
  <2> SUFFICES ASSUME NEW i \in 1 .. Len(t) - 1 PROVE t[i] # t[i + 1]
    OBVIOUS
  <2>1. t[i] = s[i + 1] /\ t[i + 1] = s[i + 1 + 1] /\ i + 1 \in 1 .. Len(s) - 1
    BY <1>1, <1>2
  <2> QED
    BY <1>1, <2>1
<1>5. t \in Events
  BY <1>2, <1>3, <1>4 DEF Events
<1>6. t # <<>> => Head(t) = t[1] /\ t[1] = s[2] /\ s[1] # s[2]
  <2>1. t # <<>> => 1 \in 1 .. Len(t) /\ 1 \in 1 .. Len(s) - 1 /\ Head(t) = t[1]
    BY <1>1, <1>2
  <2> QED
    BY <1>1, <1>2, <2>1
<1>7. t = <<>> => Head(s) = "tasklet_schedule"
  <2>1. t = <<>> => Len(t) = 0
    OBVIOUS
  <2>2. Len(t) = 0 => Len(s) = 1
    BY <1>1, <1>2
  <2> QED
    BY <1>1, <1>2, <2>1, <2>2
<1>8. t # <<>> => Head(t) \in {"snprintf", "tasklet_schedule"}
  BY <1>2
<1>9. After(s) = t
  BY <1>2 DEF After, t
<1> QED
  BY <1>2, <1>5, <1>6, <1>7, <1>8, <1>9 DEF Named

LEMMA WholeInit ==
  /\ FileTasklet011.init # <<>> /\ Head(FileTasklet011.init) = "kzalloc"
  /\ After(FileTasklet011.init) \in Events
  /\ ~ Named(FileTasklet011.init) /\ ~ Named(After(FileTasklet011.init))
<1>1. /\ FileTasklet011.init # <<>> /\ Head(FileTasklet011.init) = "kzalloc"
      /\ Tail(FileTasklet011.init)
           = <<"snprintf", "tasklet_schedule", "snprintf", "tasklet_schedule",
               "snprintf", "tasklet_schedule">>
  BY DEF FileTasklet011
<1>2. After(FileTasklet011.init) = Tail(FileTasklet011.init)
  BY <1>1 DEF After
<1>3. <<"snprintf", "tasklet_schedule", "snprintf", "tasklet_schedule",
        "snprintf", "tasklet_schedule">> \in Events
  BY SMTT(30) DEF Events
<1>4. Head(Tail(FileTasklet011.init)) = "snprintf"
  <2>1. Head(<<"snprintf", "tasklet_schedule", "snprintf", "tasklet_schedule",
               "snprintf", "tasklet_schedule">>) = "snprintf"
    OBVIOUS
  <2> QED
    BY <1>1, <2>1, Zenon
<1>5. ~ Named(FileTasklet011.init) /\ ~ Named(After(FileTasklet011.init))
  BY <1>1, <1>2, <1>4, Zenon DEF Named
<1> QED
  BY <1>1, <1>2, <1>3, <1>5

LEMMA Distinct ==
  /\ Timer004 # Hrt005 /\ Timer004 # Tasklet008 /\ Timer004 # TimerTasklet010
  /\ Timer004 # FileTasklet011 /\ Hrt005 # Tasklet008 /\ Hrt005 # TimerTasklet010
  /\ Hrt005 # FileTasklet011 /\ Tasklet008 # TimerTasklet010
  /\ Tasklet008 # FileTasklet011 /\ TimerTasklet010 # FileTasklet011
<1>1. /\ Timer004.exit[1] = "del_timer" /\ Hrt005.exit[1] = "del_timer_sync"
      /\ Tasklet008.exit[1] = "tasklet_kill" /\ TimerTasklet010.exit[1] = "del_timer_sync"
      /\ FileTasklet011.exit[1] = "tasklet_kill"
      /\ Len(Hrt005.exit) = 1 /\ Len(TimerTasklet010.exit) = 2
      /\ Len(Tasklet008.exit) = 1 /\ Len(FileTasklet011.exit) = 2
  BY DEF Timer004, Hrt005, Tasklet008, TimerTasklet010, FileTasklet011
<1> QED
  BY <1>1

-----------------------------------------------------------------------------
(* The inductive invariant.                                                *)

(* tasklet_kill is next; or it has taken the SCHED bit, and waits for the  *)
(* run to end.                                                             *)
Kill == {<<"tasklet_kill">>, <<"tasklet_kill", "kfree">>}
Killing == {<<"tasklet_kill_end">>, <<"tasklet_kill_end", "kfree">>}

(* Where init, exit and the callback are among their calls.                *)
CallsInv ==
  /\ ex \in AllExamples
  /\ state \in {"init", "failed", "live", "exit", "gone"}
  /\ state \in {"failed", "live", "gone"} => ops = <<>>
  /\ state = "failed" => ex = FileTasklet011
  /\ state = "init" =>
       \/ ops = <<>>
       \/ ex \in Examples01 /\ ops = <<"mod_timer">>
       \/ ex = Tasklet008 /\ ops = <<"tasklet_schedule">>
       \/ ex = FileTasklet011 /\ (ops = ex.init \/ ops \in Events)
  /\ state = "exit" =>
       \/ ops = <<>>
       \/ ex = Timer004 /\ ops = <<"del_timer">>
       \/ ex = Hrt005 /\ ops = <<"del_timer_sync">>
       \/ ex = TimerTasklet010 /\ ops = <<"del_timer_sync", "tasklet_kill">>
       \/ ex \in {Tasklet008, TimerTasklet010}
          /\ ops \in {<<"tasklet_kill">>, <<"tasklet_kill_end">>}
       \/ ex = FileTasklet011
          /\ ops \in {<<"tasklet_kill", "kfree">>, <<"tasklet_kill_end", "kfree">>, <<"kfree">>}
  /\ \/ cbOps = <<>>
     \/ /\ ex = TimerTasklet010 /\ firing
        /\ cbOps \in {<<"tasklet_schedule", "mod_timer">>, <<"mod_timer">>}

(* Past del_timer_sync nothing can arm the timer: only its own callback    *)
(* would, and that has returned.                                           *)
TimerStopped == Stopped \/ (state = "exit" /\ ops \in Kill \cup Killing)

TimerInv ==
  /\ ex \in {Tasklet008, FileTasklet011} => ~ armed /\ ~ firing
  /\ TimerStopped /\ ex # Timer004 => ~ armed /\ ~ firing
  /\ Stopped => ~ armed

(* Every request is served or queued, until the timer has stopped and      *)
(* tasklet_kill owns the SCHED bit, and then there are no more requests.   *)
Unbegun == state = "failed" \/ (state = "init" /\ ops = FileTasklet011.init)

TaskletInv ==
  /\ ex \in {Timer004, Hrt005} => ~ sched /\ ~ queued /\ ~ running
  /\ queued => sched
  /\ ~ queued => served = requests
  /\ sched /\ ~ queued => state = "exit" /\ ops \in Killing
  /\ state = "exit" /\ ops \in Killing => sched /\ ~ queued
  /\ Stopped \/ Unbegun => ~ sched /\ ~ running

(* The data of 011 is there from after kzalloc to kfree.                   *)
DataInv ==
  data <=> /\ ex = FileTasklet011
           /\ \/ state = "init" /\ ops # ex.init
              \/ state = "live"
              \/ state = "exit" /\ ops # <<>>

(* As long as nobody is late, 011 names an event and schedules it before   *)
(* the tasklet is queued again, and not while it runs: what the tasklet    *)
(* serves is what was named last.                                          *)
NameInv ==
  ex = FileTasklet011 =>
    LET named == state = "init" /\ Named(ops)
    IN  /\ filename = IF named THEN requests + 1 ELSE requests
        /\ ~ late => /\ queued \/ running => ~ named
                     /\ running => ~ queued

Inv == TypeOK /\ CallsInv /\ TimerInv /\ TaskletInv /\ DataInv /\ NameInv

-----------------------------------------------------------------------------
(* Which call a step of init, exit or the callback is.                     *)

Arms ==
  /\ state = "init" /\ ex \in Examples01 /\ ops = <<"mod_timer">>
  /\ ModTimer /\ ops' = <<>>

Schedules ==
  /\ state = "init" /\ ex \in {Tasklet008, FileTasklet011} /\ ops # FileTasklet011.init
  /\ TaskletSchedule /\ ops' \in Events /\ (ex = Tasklet008 => ops' = <<>>)
  /\ Named(ops) /\ ~ Named(ops')

Names ==
  /\ state = "init" /\ ex = FileTasklet011 /\ ops # FileTasklet011.init
  /\ NameFile /\ ops' \in Events
  /\ ~ Named(ops) /\ Named(ops')

Allocates ==
  /\ state = "init" /\ ex = FileTasklet011 /\ ops = FileTasklet011.init
  /\ SetData(TRUE) /\ ops' \in Events
  /\ ~ Named(ops) /\ ~ Named(ops')

Deletes ==
  /\ state = "exit" /\ DelTimer
  /\ \/ ex = Timer004 /\ ops = <<"del_timer">> /\ ops' = <<>>
     \/ ex = Hrt005 /\ ops = <<"del_timer_sync">> /\ ~ firing /\ ops' = <<>>
     \/ /\ ex = TimerTasklet010 /\ ops = <<"del_timer_sync", "tasklet_kill">>
        /\ ~ firing /\ ops' = <<"tasklet_kill">>

KillBegins ==
  /\ state = "exit" /\ TaskletKillBegin
  /\ \/ /\ ex \in {Tasklet008, TimerTasklet010}
        /\ ops = <<"tasklet_kill">> /\ ops' = <<"tasklet_kill_end">>
     \/ /\ ex = FileTasklet011
        /\ ops = <<"tasklet_kill", "kfree">> /\ ops' = <<"tasklet_kill_end", "kfree">>

KillEnds ==
  /\ state = "exit" /\ TaskletKillEnd
  /\ \/ /\ ex \in {Tasklet008, TimerTasklet010}
        /\ ops = <<"tasklet_kill_end">> /\ ops' = <<>>
     \/ /\ ex = FileTasklet011
        /\ ops = <<"tasklet_kill_end", "kfree">> /\ ops' = <<"kfree">>

Frees ==
  /\ state = "exit" /\ ex = FileTasklet011 /\ ops = <<"kfree">>
  /\ SetData(FALSE) /\ ops' = <<>>

CallCases ==
  \/ Arms \/ Schedules \/ Names \/ Allocates
  \/ Deletes \/ KillBegins \/ KillEnds \/ Frees

LEMMA ModuleCalls ==
  ASSUME CallsInv, ModuleCall
  PROVE  CallCases /\ UNCHANGED <<ex, state, firing, cbOps, fires>>
<1>1. /\ ops # <<>> /\ ops' = After(ops) /\ Call(Head(ops))
      /\ UNCHANGED <<ex, state, firing, cbOps, fires>>
  BY DEF ModuleCall
<1>2. CASE state = "init" /\ ex \in Examples01
  <2>1. ops = <<"mod_timer">>
    BY <1>1, <1>2, Distinct DEF CallsInv, Examples01
  <2>2. ModTimer /\ ops' = <<>>
    BY <1>1, <2>1, Heads, Afters DEF Call
  <2> QED
    BY <1>1, <1>2, <2>1, <2>2 DEF CallCases, Arms, Schedules, Names, Allocates
<1>3. CASE state = "init" /\ ex = Tasklet008
  <2>1. ops = <<"tasklet_schedule">> /\ ops' = <<>>
    BY <1>1, <1>3, Afters, Distinct DEF CallsInv, Examples01
  <2>2. ops # FileTasklet011.init
    BY <2>1, WholeInit, Steps
  <2>3. TaskletSchedule /\ Named(ops) /\ ~ Named(ops')
    BY <1>1, <2>1, Heads DEF Call, Named
  <2>4. ops' \in Events
    BY <2>1 DEF Events
  <2> QED
    BY <1>1, <1>3, <2>1, <2>2, <2>3, <2>4 DEF CallCases, Arms, Schedules, Names, Allocates
<1>4. CASE state = "init" /\ ex = FileTasklet011 /\ ops = ex.init
  <2>1. SetData(TRUE) /\ ops' \in Events /\ ~ Named(ops) /\ ~ Named(ops')
    BY <1>1, <1>4, WholeInit DEF Call
  <2> QED
    BY <1>1, <1>4, <2>1 DEF CallCases, Arms, Schedules, Names, Allocates
<1>5. CASE state = "init" /\ ex = FileTasklet011 /\ ops # ex.init
  <2>1. ops \in Events
    BY <1>1, <1>5, Distinct DEF CallsInv, Examples01
  <2>2. /\ Head(ops) \in {"snprintf", "tasklet_schedule"} /\ ops' \in Events
        /\ Head(ops) = "snprintf" => Named(ops')
        /\ Head(ops) = "tasklet_schedule" => ~ Named(ops')
    BY <1>1, <2>1, EventCalls
  <2>3. Named(ops) <=> Head(ops) = "tasklet_schedule"
    BY <1>1 DEF Named
  <2> QED
    BY <1>1, <1>5, <2>2, <2>3, Distinct DEF Call, CallCases, Arms, Schedules, Names, Allocates, Deletes,
       KillBegins, KillEnds, Frees
<1>6. CASE state = "exit"
  <2>1. ASSUME ex = Timer004, ops = <<"del_timer">> PROVE CallCases
    BY <1>1, <1>6, <2>1, Heads, Afters DEF Call, CallCases, Arms, Schedules, Names, Allocates, Deletes,
       KillBegins, KillEnds, Frees
  <2>2. ASSUME ex = Hrt005, ops = <<"del_timer_sync">> PROVE CallCases
    BY <1>1, <1>6, <2>2, Heads, Afters DEF Call, CallCases, Arms, Schedules, Names, Allocates, Deletes,
       KillBegins, KillEnds, Frees
  <2>3. ASSUME ex = TimerTasklet010, ops = <<"del_timer_sync", "tasklet_kill">> PROVE CallCases
    BY <1>1, <1>6, <2>3, Heads, Afters DEF Call, CallCases, Arms, Schedules, Names, Allocates, Deletes,
       KillBegins, KillEnds, Frees
  <2>4. ASSUME ex \in {Tasklet008, TimerTasklet010}, ops = <<"tasklet_kill">> PROVE CallCases
    BY <1>1, <1>6, <2>4, Heads, Afters DEF Call, CallCases, Arms, Schedules, Names, Allocates, Deletes,
       KillBegins, KillEnds, Frees
  <2>5. ASSUME ex \in {Tasklet008, TimerTasklet010}, ops = <<"tasklet_kill_end">> PROVE CallCases
    BY <1>1, <1>6, <2>5, Heads, Afters DEF Call, CallCases, Arms, Schedules, Names, Allocates, Deletes,
       KillBegins, KillEnds, Frees
  <2>6. ASSUME ex = FileTasklet011, ops = <<"tasklet_kill", "kfree">> PROVE CallCases
    BY <1>1, <1>6, <2>6, Heads, Afters DEF Call, CallCases, Arms, Schedules, Names, Allocates, Deletes,
       KillBegins, KillEnds, Frees
  <2>7. ASSUME ex = FileTasklet011, ops = <<"tasklet_kill_end", "kfree">> PROVE CallCases
    BY <1>1, <1>6, <2>7, Heads, Afters DEF Call, CallCases, Arms, Schedules, Names, Allocates, Deletes,
       KillBegins, KillEnds, Frees
  <2>8. ASSUME ex = FileTasklet011, ops = <<"kfree">> PROVE CallCases
    BY <1>1, <1>6, <2>8, Heads, Afters DEF Call, CallCases, Arms, Schedules, Names, Allocates, Deletes,
       KillBegins, KillEnds, Frees
  <2> QED
    BY <1>1, <1>6, <2>1, <2>2, <2>3, <2>4, <2>5, <2>6, <2>7, <2>8 DEF CallsInv
<1> QED
  BY <1>1, <1>2, <1>3, <1>4, <1>5, <1>6 DEF CallsInv, AllExamples, Examples01

LEMMA CallbackCalls ==
  ASSUME CallsInv, CallbackCall
  PROVE  /\ ex = TimerTasklet010 /\ firing
         /\ \/ TaskletSchedule /\ cbOps' = <<"mod_timer">>
            \/ ModTimer /\ cbOps' = <<>>
         /\ UNCHANGED <<module, firing, fires>>
  BY Heads, Afters DEF CallsInv, CallbackCall, Call

LEMMA CallTypes ==
  ASSUME TypeOK, NEW op, Call(op)
  PROVE  /\ armed' \in BOOLEAN /\ sched' \in BOOLEAN /\ queued' \in BOOLEAN
         /\ running' \in BOOLEAN /\ requests' \in Nat /\ served' \in Nat
         /\ data' \in BOOLEAN /\ filename' \in Nat /\ late' \in BOOLEAN
<1> USE DEF TypeOK, tasklet, requested, file
<1>1. CASE ModTimer \/ DelTimer
  BY <1>1 DEF ModTimer, DelTimer
<1>2. CASE TaskletSchedule
  BY <1>2 DEF TaskletSchedule
<1>3. CASE TaskletKillBegin \/ TaskletKillEnd
  BY <1>3 DEF TaskletKillBegin, TaskletKillEnd
<1>4. CASE NameFile
  BY <1>4 DEF NameFile
<1>5. CASE SetData(TRUE) \/ SetData(FALSE)
  BY <1>5 DEF SetData
<1> QED
  BY <1>1, <1>2, <1>3, <1>4, <1>5 DEF Call

LEMMA TypeStep == TypeOK /\ [Next]_vars => TypeOK'
<1> SUFFICES ASSUME TypeOK, [Next]_vars PROVE TypeOK'
  OBVIOUS
<1>1. CASE ModuleCall
  <2>1. UNCHANGED <<state, firing, fires>>
    BY <1>1 DEF ModuleCall
  <2> QED
    BY <1>1, <2>1, CallTypes DEF ModuleCall, TypeOK
<1>2. CASE CallbackCall
  <2>1. UNCHANGED <<state, firing, fires>>
    BY <1>2 DEF CallbackCall, module
  <2> QED
    BY <1>2, <2>1, CallTypes DEF CallbackCall, TypeOK
<1>3. CASE InitFails \/ InitReturns \/ Rmmod \/ ExitReturns
  BY <1>3 DEF InitFails, InitReturns, Rmmod, ExitReturns, TypeOK, timer, tasklet, requested, file
<1>4. CASE TimerExpires \/ CallbackReturns
  <2>1. /\ armed' \in {armed, FALSE} /\ firing' \in BOOLEAN /\ fires' \in {fires, fires + 1}
        /\ UNCHANGED <<module, tasklet, requested, file>>
    BY <1>4 DEF TimerExpires, CallbackReturns
  <2>2. fires' \in Nat
    BY <2>1 DEF TypeOK
  <2> QED
    BY <2>1, <2>2, Zenon DEF TypeOK, module, tasklet, requested, file
<1>5. CASE TaskletRuns \/ TaskletReturns
  BY <1>5 DEF TaskletRuns, TaskletReturns, TypeOK, module, timer, requested, file
<1>6. CASE UNCHANGED vars
  BY <1>6 DEF vars, TypeOK, module, timer, tasklet, requested, file
<1> QED
  BY <1>1, <1>2, <1>3, <1>4, <1>5, <1>6 DEF Next

LEMMA CallsStep == CallsInv /\ [Next]_vars => CallsInv'
<1> SUFFICES ASSUME CallsInv, [Next]_vars PROVE CallsInv'
  OBVIOUS
<1>1. CASE ModuleCall
  BY <1>1, ModuleCalls DEF CallsInv, CallCases, Arms, Schedules, Names, Allocates, Deletes,
     KillBegins, KillEnds, Frees
<1>2. CASE CallbackCall
  BY <1>2, CallbackCalls DEF CallsInv, module
<1>3. CASE InitFails \/ InitReturns \/ ExitReturns
  <2>1. CASE InitFails
    <3>1. ex = FileTasklet011
      BY <2>1, Heads, EventCalls, Distinct DEF InitFails, CallsInv, Examples01
    <3> QED
      BY <2>1, <3>1 DEF InitFails, CallsInv, timer
  <2> QED
    BY <1>3, <2>1 DEF InitReturns, ExitReturns, CallsInv, timer
<1>4. CASE Rmmod
  BY <1>4 DEF Rmmod, CallsInv, timer, AllExamples,
     Timer004, Hrt005, Tasklet008, TimerTasklet010, FileTasklet011
<1>5. CASE TimerExpires
  <2>1. \/ ex.callback = <<>>
        \/ ex = TimerTasklet010 /\ ex.callback = <<"tasklet_schedule", "mod_timer">>
    BY DEF CallsInv, AllExamples, Timer004, Hrt005, Tasklet008, TimerTasklet010, FileTasklet011
  <2> QED
    BY <1>5, <2>1 DEF TimerExpires, CallsInv, module
<1>6. CASE CallbackReturns
  BY <1>6 DEF CallbackReturns, CallsInv, module
<1>7. CASE TaskletRuns \/ TaskletReturns
  BY <1>7 DEF TaskletRuns, TaskletReturns, CallsInv, module, timer
<1>8. CASE UNCHANGED vars
  BY <1>8 DEF vars, CallsInv, module, timer
<1> QED
  BY <1>1, <1>2, <1>3, <1>4, <1>5, <1>6, <1>7, <1>8 DEF Next

LEMMA TimerStep == CallsInv /\ TimerInv /\ [Next]_vars => TimerInv'
<1> SUFFICES ASSUME CallsInv, TimerInv, [Next]_vars PROVE TimerInv'
  OBVIOUS
<1> USE DEF TimerInv, TimerStopped, Stopped, Kill, Killing
<1>1. CASE ModuleCall
  <2>1. CallCases /\ UNCHANGED <<ex, state, firing>>
    BY <1>1, ModuleCalls
  <2>2. CASE Arms
    BY <2>1, <2>2, Distinct DEF Arms, ModTimer, Examples01
  <2>3. CASE Schedules \/ Names \/ Allocates
    BY <2>1, <2>3 DEF Schedules, Names, Allocates, TaskletSchedule, NameFile, SetData
  <2>4. CASE Deletes
    BY <2>1, <2>4, Steps, Distinct DEF Deletes, DelTimer
  <2>5. CASE KillBegins \/ KillEnds \/ Frees
    BY <2>1, <2>5, Steps, Distinct
       DEF KillBegins, KillEnds, Frees, TaskletKillBegin, TaskletKillEnd, SetData
  <2> QED
    BY <2>1, <2>2, <2>3, <2>4, <2>5 DEF CallCases
<1>2. CASE InitFails \/ InitReturns
  BY <1>2 DEF InitFails, InitReturns, timer
<1>3. CASE Rmmod
  <2>1. /\ Hrt005.exit = <<"del_timer_sync">> /\ Timer004.exit = <<"del_timer">>
        /\ TimerTasklet010.exit = <<"del_timer_sync", "tasklet_kill">>
    BY DEF Hrt005, Timer004, TimerTasklet010
  <2>2. ex \in {Hrt005, Timer004, TimerTasklet010} => ~ TimerStopped'
    BY <1>3, <2>1, Heads, Steps DEF Rmmod
  <2>3. ex \in {Tasklet008, FileTasklet011} => ~ armed /\ ~ firing
    OBVIOUS
  <2> QED
    BY <1>3, <2>2, <2>3 DEF Rmmod, timer, CallsInv, AllExamples
<1>4. CASE ExitReturns
  BY <1>4 DEF ExitReturns, timer
<1>5. CASE TimerExpires
  BY <1>5 DEF TimerExpires, module
<1>6. CASE CallbackCall
  <2>1. /\ ex = TimerTasklet010 /\ firing /\ UNCHANGED <<module, firing>>
    BY <1>6, CallbackCalls
  <2> QED
    BY <2>1, Distinct DEF module
<1>7. CASE CallbackReturns \/ TaskletRuns \/ TaskletReturns
  BY <1>7 DEF CallbackReturns, TaskletRuns, TaskletReturns, module, timer
<1>8. CASE UNCHANGED vars
  BY <1>8 DEF vars, module, timer
<1> QED
  BY <1>1, <1>2, <1>3, <1>4, <1>5, <1>6, <1>7, <1>8 DEF Next

LEMMA TaskletStep ==
  TypeOK /\ CallsInv /\ TimerInv /\ TaskletInv /\ [Next]_vars => TaskletInv'
<1> SUFFICES ASSUME TypeOK, CallsInv, TimerInv, TaskletInv, [Next]_vars PROVE TaskletInv'
  OBVIOUS
<1> USE DEF TaskletInv, Stopped, Unbegun, Killing
<1>1. CASE ModuleCall
  <2>1. CallCases /\ UNCHANGED <<ex, state>>
    BY <1>1, ModuleCalls
  <2>2. \A s \in Events : s # FileTasklet011.init
    <3> SUFFICES ASSUME NEW s \in Events, s = FileTasklet011.init PROVE FALSE
      OBVIOUS
    <3>1. s # <<>> /\ Head(s) = "kzalloc"
      BY WholeInit
    <3> QED
      BY <3>1, EventCalls
  <2>3. CASE Schedules
    BY <2>1, <2>2, <2>3, WholeInit, Distinct DEF Schedules, TaskletSchedule, TypeOK
  <2>4. CASE Arms \/ Names \/ Allocates
    <3>1. UNCHANGED <<sched, queued, running, requests, served>>
      BY <2>4 DEF Arms, Names, Allocates, ModTimer, NameFile, SetData, tasklet, requested
    <3>2. state = "init" /\ ops' # FileTasklet011.init
      BY <2>2, <2>4, WholeInit DEF Arms, Names, Allocates
    <3> QED
      BY <2>1, <3>1, <3>2
  <2>5. CASE Deletes
    <3>1. UNCHANGED <<sched, queued, running, requests, served>>
      BY <2>5 DEF Deletes, DelTimer, tasklet, requested
    <3>2. /\ state = "exit" /\ ops \notin Killing /\ ops' \notin Killing
          /\ ops' \in {<<>>, <<"kfree">>} => ex \in {Timer004, Hrt005}
      BY <2>5, Heads, Steps DEF Deletes
    <3> QED
      BY <2>1, <3>1, <3>2
  <2>6. CASE KillBegins
    <3>1. /\ state = "exit" /\ ops \notin Killing /\ ops' \in Killing
          /\ ops' \notin {<<>>, <<"kfree">>} /\ ex \notin {Timer004, Hrt005}
      BY <2>6, Heads, Steps, Distinct DEF KillBegins
    <3> QED
      BY <2>1, <2>6, <3>1 DEF KillBegins, TaskletKillBegin, requested
  <2>7. CASE KillEnds
    <3>1. /\ state = "exit" /\ ops \in Killing /\ ops' \notin Killing
          /\ ex \notin {Timer004, Hrt005}
      BY <2>7, Heads, Steps, Distinct DEF KillEnds
    <3> QED
      BY <2>1, <2>7, <3>1 DEF KillEnds, TaskletKillEnd, requested
  <2>8. CASE Frees
    <3>1. state = "exit" /\ ops = <<"kfree">> /\ ops' = <<>>
          /\ ops \notin Killing /\ ops' \notin Killing
      BY <2>8, Heads, Steps DEF Frees
    <3> QED
      BY <2>1, <2>8, <3>1 DEF Frees, SetData, tasklet, requested
  <2> QED
    BY <2>1, <2>3, <2>4, <2>5, <2>6, <2>7, <2>8 DEF CallCases
<1>2. CASE InitFails \/ InitReturns
  <2>1. CASE InitFails
    <3>1. ops = FileTasklet011.init
      BY <2>1, Heads, EventCalls, Distinct DEF InitFails, CallsInv, Examples01
    <3> QED
      BY <2>1, <3>1 DEF InitFails, tasklet, requested
  <2> QED
    BY <1>2, <2>1 DEF InitReturns, tasklet, requested
<1>3. CASE Rmmod
  <2>1. ex.exit # <<>> /\ Head(ex.exit) \in {"del_timer", "del_timer_sync", "tasklet_kill"}
    <3>1. /\ Timer004.exit = <<"del_timer">> /\ Hrt005.exit = <<"del_timer_sync">>
          /\ Tasklet008.exit = <<"tasklet_kill">>
          /\ TimerTasklet010.exit = <<"del_timer_sync", "tasklet_kill">>
          /\ FileTasklet011.exit = <<"tasklet_kill", "kfree">>
      BY DEF Timer004, Hrt005, Tasklet008, TimerTasklet010, FileTasklet011
    <3> QED
      BY <3>1, Steps, Heads DEF CallsInv, AllExamples
  <2>2. ex.exit \notin Killing /\ ex.exit # <<"kfree">>
    BY <2>1, Heads
  <2> QED
    BY <1>3, <2>1, <2>2 DEF Rmmod, tasklet, requested, CallsInv
<1>4. CASE ExitReturns
  BY <1>4 DEF ExitReturns, tasklet, requested
<1>5. CASE TimerExpires \/ CallbackReturns
  BY <1>5 DEF TimerExpires, CallbackReturns, module, tasklet, requested
<1>6. CASE CallbackCall
  <2>1. /\ ex = TimerTasklet010 /\ firing /\ UNCHANGED <<module, firing>>
        /\ TaskletSchedule \/ ModTimer
    BY <1>6, CallbackCalls
  <2>2. ~ Stopped /\ ~ (state = "exit" /\ ops \in Killing) /\ ~ Unbegun
    <3>1. ~ Stopped /\ ~ (state = "exit" /\ ops \in Killing)
      BY <2>1, Distinct DEF TimerInv, TimerStopped
    <3>2. state # "failed"
      BY <2>1, Distinct DEF CallsInv
    <3>3. state = "init" => ops \in {<<>>, <<"mod_timer">>}
      BY <2>1, Distinct DEF CallsInv, Examples01
    <3>4. state = "init" => ops # FileTasklet011.init
      BY <3>3, Heads, WholeInit
    <3> QED
      BY <3>1, <3>2, <3>4
  <2>3. CASE TaskletSchedule
    BY <2>1, <2>2, <2>3, Distinct DEF TaskletSchedule, module, TypeOK
  <2>4. CASE ModTimer
    BY <2>1, <2>4 DEF ModTimer, module, tasklet, requested
  <2> QED
    BY <2>1, <2>3, <2>4
<1>7. CASE TaskletRuns
  BY <1>7 DEF TaskletRuns, module
<1>8. CASE TaskletReturns
  BY <1>8 DEF TaskletReturns, module, requested
<1>9. CASE UNCHANGED vars
  BY <1>9 DEF vars, module, tasklet, requested
<1> QED
  BY <1>1, <1>2, <1>3, <1>4, <1>5, <1>6, <1>7, <1>8, <1>9 DEF Next

LEMMA DataStep == TypeOK /\ CallsInv /\ DataInv /\ [Next]_vars => DataInv'
<1> SUFFICES ASSUME TypeOK, CallsInv, DataInv, [Next]_vars PROVE DataInv'
  OBVIOUS
<1> USE DEF DataInv
<1>0. data \in BOOLEAN
  BY DEF TypeOK
<1>1. CASE ModuleCall
  <2>1. CallCases /\ UNCHANGED <<ex, state>>
    BY <1>1, ModuleCalls
  <2>2. \A s \in Events : s # FileTasklet011.init
    BY WholeInit, EventCalls
  <2>3. CASE Allocates
    BY <2>1, <2>2, <2>3 DEF Allocates, SetData
  <2>4. CASE Frees
    BY <2>1, <2>4 DEF Frees, SetData
  <2>5. CASE Arms \/ Schedules \/ Names
    <3>1. data' = data /\ state = "init"
      BY <2>5 DEF Arms, Schedules, Names, ModTimer, TaskletSchedule, NameFile, file
    <3>2. ex = FileTasklet011 => ops # FileTasklet011.init /\ ops' # FileTasklet011.init
      BY <2>2, <2>5, Distinct DEF Arms, Schedules, Names, Examples01
    <3> QED
      BY <1>0, <2>1, <3>1, <3>2
  <2>6. CASE Deletes \/ KillBegins \/ KillEnds
    <3>1. data' = data /\ state = "exit"
      BY <2>6 DEF Deletes, KillBegins, KillEnds, DelTimer, TaskletKillBegin, TaskletKillEnd, file
    <3>2. ex = FileTasklet011 => ops # <<>> /\ ops' # <<>>
      BY <2>6, Steps, Distinct DEF Deletes, KillBegins, KillEnds
    <3> QED
      BY <1>0, <2>1, <3>1, <3>2
  <2> QED
    BY <2>1, <2>3, <2>4, <2>5, <2>6 DEF CallCases
<1>2. CASE InitFails
  <2>1. ex = FileTasklet011 /\ ops = ex.init
    BY <1>2, Heads, EventCalls, Distinct DEF InitFails, CallsInv, Examples01
  <2> QED
    BY <1>2, <2>1 DEF InitFails, file
<1>3. CASE InitReturns
  BY <1>3, WholeInit DEF InitReturns, file
<1>4. CASE Rmmod
  <2>1. FileTasklet011.exit # <<>>
    BY DEF FileTasklet011
  <2> QED
    BY <1>4, <2>1 DEF Rmmod, file
<1>5. CASE ExitReturns
  BY <1>5 DEF ExitReturns, file
<1>6. CASE CallbackCall
  <2>1. UNCHANGED <<module, data>>
    BY <1>6, CallbackCalls DEF TaskletSchedule, ModTimer, file
  <2> QED
    BY <2>1 DEF module
<1>7. CASE TimerExpires \/ CallbackReturns \/ TaskletRuns \/ TaskletReturns
  BY <1>7 DEF TimerExpires, CallbackReturns, TaskletRuns, TaskletReturns, module, file
<1>8. CASE UNCHANGED vars
  BY <1>8 DEF vars, module, file
<1> QED
  BY <1>1, <1>2, <1>3, <1>4, <1>5, <1>6, <1>7, <1>8 DEF Next

LEMMA NameStep == TypeOK /\ CallsInv /\ NameInv /\ [Next]_vars => NameInv'
<1> SUFFICES ASSUME TypeOK, CallsInv, NameInv, [Next]_vars, ex' = FileTasklet011 PROVE NameInv'
  BY DEF NameInv
<1> USE DEF NameInv
<1>0. /\ ex = FileTasklet011
      /\ queued \in BOOLEAN /\ running \in BOOLEAN /\ late \in BOOLEAN
      /\ requests \in Nat /\ filename \in Nat
  BY DEF TypeOK, Next, vars, module, ModuleCall, InitFails, InitReturns, Rmmod, ExitReturns,
     TimerExpires, CallbackCall, CallbackReturns, TaskletRuns, TaskletReturns
<1>1. CASE ModuleCall
  <2>1. CallCases /\ UNCHANGED <<ex, state>>
    BY <1>1, ModuleCalls
  <2>2. CASE Schedules
    BY <1>0, <2>1, <2>2 DEF Schedules, TaskletSchedule, file
  <2>3. CASE Names
    BY <1>0, <2>1, <2>3 DEF Names, NameFile, tasklet, requested
  <2>4. CASE Allocates
    BY <1>0, <2>1, <2>4 DEF Allocates, SetData, tasklet, requested
  <2>5. CASE Arms
    BY <1>0, <2>5, Distinct DEF Arms, Examples01
  <2>6. CASE Deletes \/ KillBegins \/ KillEnds \/ Frees
    BY <1>0, <2>1, <2>6
       DEF Deletes, KillBegins, KillEnds, Frees, DelTimer, TaskletKillBegin, TaskletKillEnd, SetData,
           tasklet, requested, file
  <2> QED
    BY <2>1, <2>2, <2>3, <2>4, <2>5, <2>6 DEF CallCases
<1>2. CASE InitFails
  <2>1. ~ Named(ops)
    BY <1>2 DEF InitFails, Named
  <2> QED
    BY <1>0, <1>2, <2>1 DEF InitFails, tasklet, requested, file
<1>3. CASE InitReturns
  BY <1>0, <1>3 DEF InitReturns, tasklet, requested, file, Named
<1>4. CASE Rmmod \/ ExitReturns
  BY <1>0, <1>4 DEF Rmmod, ExitReturns, tasklet, requested, file
<1>5. CASE TimerExpires \/ CallbackReturns
  BY <1>0, <1>5 DEF TimerExpires, CallbackReturns, module, tasklet, requested, file
<1>6. CASE CallbackCall
  BY <1>0, <1>6, CallbackCalls, Distinct
<1>7. CASE TaskletRuns \/ TaskletReturns
  BY <1>0, <1>7 DEF TaskletRuns, TaskletReturns, module, requested, file
<1>8. CASE UNCHANGED vars
  BY <1>0, <1>8 DEF vars, module, tasklet, requested, file
<1> QED
  BY <1>1, <1>2, <1>3, <1>4, <1>5, <1>6, <1>7, <1>8 DEF Next

LEMMA InitInv == Examples \subseteq AllExamples /\ Init => Inv
<1> SUFFICES ASSUME Examples \subseteq AllExamples, Init PROVE Inv
  OBVIOUS
<1>1. CallsInv
  BY DEF Init, CallsInv, AllExamples, Examples01,
     Timer004, Hrt005, Tasklet008, TimerTasklet010, FileTasklet011
<1>2. TypeOK /\ TimerInv /\ TaskletInv
  BY DEF Init, TypeOK, TimerInv, TimerStopped, Stopped, TaskletInv, Unbegun
<1>3. DataInv
  BY DEF Init, DataInv
<1>4. NameInv
  BY WholeInit DEF Init, NameInv
<1> QED
  BY <1>1, <1>2, <1>3, <1>4 DEF Inv

LEMMA Invariance == Examples \subseteq AllExamples /\ Spec => []Inv
<1> SUFFICES ASSUME Examples \subseteq AllExamples PROVE Spec => []Inv
  OBVIOUS
<1>1. Init => Inv
  BY InitInv
<1>2. Inv /\ [Next]_vars => Inv'
  BY TypeStep, CallsStep, TimerStep, TaskletStep, DataStep, NameStep DEF Inv
<1> QED
  BY <1>1, <1>2, PTL DEF Spec

(* The types hold throughout, for any number of expiries.                  *)
THEOREM TypeCorrect == Examples \subseteq AllExamples /\ Spec => []TypeOK
<1>1. Inv => TypeOK
  BY DEF Inv
<1> QED
  BY <1>1, Invariance, PTL

(* When the exit function of any example but 004 has come to print its     *)
(* counters, no callback and no tasklet runs or is waiting to run, however *)
(* often the timer has expired, and no request of the tasklet is lost.     *)
THEOREM ExitIsFinal == Examples \subseteq AllExamples /\ Spec => []NothingIsPending
<1>1. Inv => NothingIsPending
  BY DEF Inv, TimerInv, TimerStopped, TaskletInv, NothingIsPending, Quiet
<1> QED
  BY <1>1, Invariance, PTL

(* The tasklet of 011 never outlives its data, and the data never outlives *)
(* the module.                                                             *)
THEOREM DataOutlivesTasklet == Examples \subseteq AllExamples /\ Spec => []TaskletHasData
<1>1. Inv => TaskletHasData
  <2> SUFFICES ASSUME Inv PROVE TaskletHasData
    OBVIOUS
  <2>1. ASSUME ex = FileTasklet011, queued \/ running PROVE data
    BY <2>1 DEF Inv, CallsInv, TaskletInv, DataInv, Stopped, Unbegun
  <2>2. state \in {"failed", "gone"} => ~ data
    BY DEF Inv, DataInv
  <2> QED
    BY <2>1, <2>2 DEF TaskletHasData
<1> QED
  BY <1>1, Invariance, PTL

(* The tasklet of 011 prints the name of the event it was scheduled for,   *)
(* for as long as it runs, unless it came so late that the next event had  *)
(* been named meanwhile.                                                   *)
THEOREM EventsKeepTheirNames == Examples \subseteq AllExamples /\ Spec => []ReportsOwnName
<1>1. Inv => ReportsOwnName
  BY DEF Inv, NameInv, TaskletInv, ReportsOwnName
<1> QED
  BY <1>1, Invariance, PTL

(* rmmod waits for nothing that will not come, the safety half of          *)
(* UnloadFinishes: a tasklet that tasklet_kill finds scheduled is queued   *)
(* and will run; once tasklet_kill has the SCHED bit, the run it waits for *)
(* is the last; and past del_timer_sync no callback arms the timer again.  *)
WaitsForWhatComes ==
  state = "exit" /\ ops # <<>> =>
    /\ Head(ops) = "tasklet_kill" /\ sched => queued
    /\ Head(ops) = "tasklet_kill_end" => sched /\ ~ queued
    /\ Head(ops) \in {"tasklet_kill", "tasklet_kill_end"} => ~ armed /\ ~ firing

THEOREM UnloadIsNotStuck == Examples \subseteq AllExamples /\ Spec => []WaitsForWhatComes
<1>1. Inv => WaitsForWhatComes
  <2> SUFFICES ASSUME Inv, state = "exit", ops # <<>> PROVE WaitsForWhatComes
    BY DEF WaitsForWhatComes
  <2>1. Head(ops) = "tasklet_kill" => ops \in Kill /\ ops \notin Killing
    BY Heads DEF Inv, CallsInv, Kill, Killing
  <2>2. Head(ops) = "tasklet_kill_end" => ops \in Killing
    BY Heads DEF Inv, CallsInv, Killing
  <2>3. ops \in Kill \cup Killing => ex # Timer004
    BY Heads, Distinct DEF Inv, CallsInv, Kill, Killing
  <2> QED
    BY <2>1, <2>2, <2>3 DEF WaitsForWhatComes, Inv, TimerInv, TimerStopped, TaskletInv
<1> QED
  BY <1>1, Invariance, PTL

-----------------------------------------------------------------------------
(* The modules that hand work to the system workqueue.                     *)

AllWorkExamples == {WaitQueue003, WorkQueue009, WorkQueue013}

(* The work is queued once, by an init that stays on the path of its       *)
(* module; the handler has come to its free only in 013.                   *)
PlaceInv ==
  /\ hpc = "none" <=> ipc \in {"alloc", "queue", "failed"}
  /\ ipc \in {"check", "prepare", "recheck", "asleep", "finish"} => user.waits
  /\ ipc = "free" => user.frees = "init"
  /\ hpc = "free" => user.frees = "handler"

HandlerInv ==
  /\ flag <=> WorkIsDone
  /\ locked <=> hpc = "unlock"

(* Whoever frees my_data has.                                              *)
Freed ==
  \/ user.frees = "init" /\ ipc \in {"return", "returned"}
  \/ user.frees = "handler" /\ hpc \in {"return", "returned"}

MemoryInv ==
  /\ mem = "freed" <=> Freed
  /\ frees = IF Freed THEN 1 ELSE 0

(* Init leaves the wait with the flag set or interrupted; and from when it *)
(* has read the flag for the last time before it sleeps it is on the queue *)
(* until the handler takes it off and wakes it.                            *)
WaitInv ==
  /\ ipc \in {"finish", "free", "return", "returned"} /\ user.waits => flag \/ interrupted
  /\ ipc = "recheck" /\ ~ flag => interrupted \/ waiting
  /\ ipc = "asleep" => woken \/ (waiting /\ hpc \in {"pending", "work", "wake"})

WorkInv == WorkTypeOK /\ PlaceInv /\ HandlerInv /\ MemoryInv /\ WaitInv

(* Who waits and who frees in each of the three.                           *)
LEMMA Shapes ==
  ASSUME WorkExamples \subseteq AllWorkExamples, NEW e \in WorkExamples
  PROVE  /\ e.waits \in BOOLEAN /\ e.frees \in {"nobody", "init", "handler"}
         /\ e.frees = "init" => e.waits /\ e = WorkQueue009
         /\ e.frees = "handler" => ~ e.waits
<1>1. CASE e = WaitQueue003
  <2>1. e.waits = TRUE /\ e.frees = "nobody"
    BY <1>1 DEF WaitQueue003
  <2>2. e.waits \in BOOLEAN
    BY <2>1
  <2> QED
    BY <2>1, <2>2
<1>2. CASE e = WorkQueue009
  <2>1. e.waits = TRUE /\ e.frees = "init"
    BY <1>2 DEF WorkQueue009
  <2>2. e.waits \in BOOLEAN
    BY <2>1
  <2> QED
    BY <1>2, <2>1, <2>2
<1>3. CASE e = WorkQueue013
  <2>1. e.waits = FALSE /\ e.frees = "handler"
    BY <1>3 DEF WorkQueue013
  <2>2. e.waits \in BOOLEAN
    BY <2>1
  <2> QED
    BY <2>1, <2>2
<1> QED
  BY <1>1, <1>2, <1>3 DEF AllWorkExamples

LEMMA WorkInitially == WorkExamples \subseteq AllWorkExamples /\ WorkInit => WorkInv
<1> SUFFICES ASSUME WorkExamples \subseteq AllWorkExamples, WorkInit PROVE WorkInv
  OBVIOUS
<1> USE DEF WorkInit
<1>1. WorkTypeOK
  <2>1. {flag, waiting, woken, locked, signalled, interrupted} \subseteq BOOLEAN
    OBVIOUS
  <2> QED
    BY <2>1 DEF WorkTypeOK
<1>2. PlaceInv /\ HandlerInv /\ WaitInv
  BY DEF PlaceInv, HandlerInv, WorkIsDone, WaitInv
<1>3. MemoryInv
  BY DEF MemoryInv, Freed
<1> QED
  BY <1>1, <1>2, <1>3 DEF WorkInv

LEMMA WorkStep == WorkExamples \subseteq AllWorkExamples /\ WorkInv /\ [WorkNext]_workVars => WorkInv'
<1> SUFFICES ASSUME WorkExamples \subseteq AllWorkExamples, WorkInv, [WorkNext]_workVars PROVE WorkInv'
  OBVIOUS
<1>0. /\ user.waits \in BOOLEAN
      /\ user.frees = "init" => user.waits
      /\ user.frees = "handler" => ~ user.waits
  <2>1. user \in WorkExamples
    BY DEF WorkInv, WorkTypeOK
  <2> QED
    BY <2>1, Shapes
<1> USE <1>0 DEF WorkInv, WorkTypeOK, PlaceInv, HandlerInv, WorkIsDone, MemoryInv, Freed, WaitInv,
        memory, waitQueue, signal
<1>1. CASE Allocate
  BY <1>1 DEF Allocate
<1>2. CASE NoMemory
  BY <1>2 DEF NoMemory
<1>3. CASE ScheduleWork
  <2>1. /\ ipc = "queue" /\ hpc = "none" /\ ~ flag /\ ~ locked
        /\ hpc' = "pending"
        /\ user.waits => ipc' = "check"
        /\ ~ user.waits => ipc' = "return"
        /\ UNCHANGED <<user, userState, flag, mem, frees>>
        /\ UNCHANGED <<waiting, woken, locked, signalled, interrupted>>
    BY <1>3 DEF ScheduleWork
  <2>2. WorkTypeOK' /\ HandlerInv'
    BY <2>1
  <2>3. ~ Freed /\ ~ Freed'
    BY <2>1
  <2>4. PlaceInv' /\ WaitInv'
    BY <2>1
  <2>5. MemoryInv'
    BY <2>1, <2>3
  <2> QED
    BY <2>2, <2>4, <2>5
<1>4. CASE CheckFlag
  BY <1>4 DEF CheckFlag, AfterWait
<1>5. CASE PrepareToWait
  BY <1>5 DEF PrepareToWait
<1>6. CASE Recheck
  BY <1>6 DEF Recheck
<1>7. CASE Awake
  BY <1>7 DEF Awake
<1>8. CASE FinishWait
  BY <1>8 DEF FinishWait, AfterWait
<1>9. CASE InitFrees
  BY <1>9 DEF InitFrees
<1>10. CASE InitSucceeds
  BY <1>10 DEF InitSucceeds
<1>11. CASE HandlerBegins
  BY <1>11 DEF HandlerBegins
<1>12. CASE HandlerSetsFlag
  BY <1>12 DEF HandlerSetsFlag
<1>13. CASE HandlerWakes
  BY <1>13 DEF HandlerWakes
<1>14. CASE HandlerUnlocks
  BY <1>14 DEF HandlerUnlocks
<1>15. CASE HandlerFrees
  BY <1>15 DEF HandlerFrees
<1>16. CASE HandlerReturns
  BY <1>16 DEF HandlerReturns
<1>17. CASE Signal
  BY <1>17 DEF Signal
<1>18. CASE Unload
  BY <1>18 DEF Unload
<1>19. CASE UNCHANGED workVars
  BY <1>19 DEF workVars
<1> QED
  BY <1>1, <1>2, <1>3, <1>4, <1>5, <1>6, <1>7, <1>8, <1>9, <1>10, <1>11, <1>12, <1>13, <1>14, <1>15, <1>16, <1>17, <1>18, <1>19 DEF WorkNext, InitStep, HandlerStep

LEMMA WorkInvariance == WorkExamples \subseteq AllWorkExamples /\ WorkSpec => []WorkInv
<1> SUFFICES ASSUME WorkExamples \subseteq AllWorkExamples PROVE WorkSpec => []WorkInv
  OBVIOUS
<1>1. WorkInit => WorkInv
  BY WorkInitially
<1>2. WorkInv /\ [WorkNext]_workVars => WorkInv'
  BY WorkStep
<1> QED
  BY <1>1, <1>2, PTL DEF WorkSpec

THEOREM WorkTypeCorrect == WorkExamples \subseteq AllWorkExamples /\ WorkSpec => []WorkTypeOK
<1>1. WorkInv => WorkTypeOK
  BY DEF WorkInv
<1> QED
  BY <1>1, WorkInvariance, PTL

(* No module but 009 frees my_data under its handler, and 009 only when    *)
(* init was interrupted or did not wait for the wake-up.                   *)
THEOREM OnlyEarlyInitFreesUnderHandler ==
  WorkExamples \subseteq AllWorkExamples /\ WorkSpec => []HandlerOwnsData
<1> SUFFICES ASSUME WorkExamples \subseteq AllWorkExamples PROVE WorkSpec => []HandlerOwnsData
  OBVIOUS
<1>1. WorkInv => HandlerOwnsData
  <2> SUFFICES ASSUME WorkInv, HandlerUsesData, mem = "freed"
               PROVE  user = WorkQueue009 /\ (interrupted \/ hpc \in {"wake", "unlock"})
    BY DEF HandlerOwnsData
  <2>1. user.frees = "init" /\ ipc \in {"return", "returned"} /\ hpc # "free"
    BY DEF WorkInv, MemoryInv, Freed, PlaceInv, HandlerUsesData
  <2>2. user = WorkQueue009 /\ user.waits
    <3>1. user \in WorkExamples
      BY DEF WorkInv, WorkTypeOK
    <3> QED
      BY <2>1, <3>1, Shapes
  <2>3. flag \/ interrupted
    BY <2>1, <2>2 DEF WorkInv, WaitInv
  <2> QED
    BY <2>1, <2>2, <2>3 DEF WorkInv, HandlerInv, WorkIsDone, HandlerUsesData
<1> QED
  BY <1>1, WorkInvariance, PTL

(* my_data is freed once and not twice.                                    *)
THEOREM DataIsFreedOnce == WorkExamples \subseteq AllWorkExamples /\ WorkSpec => []DataIsFreed
<1> SUFFICES ASSUME WorkExamples \subseteq AllWorkExamples PROVE WorkSpec => []DataIsFreed
  OBVIOUS
<1>1. WorkInv => DataIsFreed
  <2> SUFFICES ASSUME WorkInv PROVE DataIsFreed
    OBVIOUS
  <2>1. user.frees \in {"nobody", "init", "handler"}
    <3>1. user \in WorkExamples
      BY DEF WorkInv, WorkTypeOK
    <3> QED
      BY <3>1, Shapes
  <2>2. ipc = "returned" /\ hpc = "returned" /\ user.frees # "nobody" => Freed
    BY <2>1 DEF Freed
  <2> QED
    BY <2>2 DEF WorkInv, MemoryInv, DataIsFreed
<1> QED
  BY <1>1, WorkInvariance, PTL

(* Without a signal, init does not come back before the work is done.      *)
THEOREM InitWaitsForWork ==
  WorkExamples \subseteq AllWorkExamples /\ WorkSpec => []ReturnsOnlyWhenDone
<1>1. WorkInv => ReturnsOnlyWhenDone
  BY DEF WorkInv, WaitInv, HandlerInv, ReturnsOnlyWhenDone
<1> QED
  BY <1>1, WorkInvariance, PTL

(* An init that still sleeps when the handler has released the queue has   *)
(* been woken: the safety half of InitFinishes.                            *)
NoWakeUpIsLost ==
  ipc = "asleep" /\ hpc \in {"unlock", "free", "return", "returned"} => woken

THEOREM SleeperIsWoken == WorkExamples \subseteq AllWorkExamples /\ WorkSpec => []NoWakeUpIsLost
<1>1. WorkInv => NoWakeUpIsLost
  BY DEF WorkInv, WaitInv, NoWakeUpIsLost
<1> QED
  BY <1>1, WorkInvariance, PTL
=============================================================================
