---------------------------- MODULE UThreads_proofs ----------------------------
(***************************************************************************)
(* What each operation on the thread table keeps true, for every size of   *)
(* the table: the lemmas on which the proofs about the packages rest.  At  *)
(* the end the theorems about uthreads1.c, which has the table alone: it   *)
(* keeps its flows, abandons none, is fair in its order, and implements    *)
(* coroutines, for every number of threads.                                *)
(***************************************************************************)
EXTENDS UThreadRR, TLAPS

\* The states in which a slot holds no flow to come back to.
Gone == {"FREE", "ZOMBIE"}

\* The first state of the table keeps its flows.
LEMMA InitKept ==
  ASSUME TableInit, NEW CONSTANT more
  PROVE  TableTypes(more) /\ FlowsKept
<1> USE ThreadsAssumption
<1>1. TableTypes(more)
  <2>1. 0 \in Slot /\ 0 \in Flow
    BY DEF Slot, Flow
  <2>2. state \in [Slot -> {"FREE", "RUNNING", "RUNNABLE"} \cup more]
    BY DEF TableInit
  <2>3. context \in [Slot -> Flow \cup {NoFlow}]
    BY DEF TableInit
  <2> QED BY <2>1, <2>2, <2>3 DEF TableInit, TableTypes
<1>2. FlowsKept
  BY DEF TableInit, FlowsKept, Live, Parked, Slot
<1> QED BY <1>1, <1>2

\* A new flow is parked in a slot that held none.
LEMMA CreateKeeps ==
  ASSUME NEW CONSTANT more, TableTypes(more), FlowsKept, NEW s \in Slot, CreateIn(s)
  PROVE  TableTypes(more)' /\ FlowsKept'
<1> USE ThreadsAssumption
<1>0. /\ ~exited /\ created < MaxCreate /\ state[s] = "FREE" /\ created' = created + 1
      /\ state' = [state EXCEPT ![s] = "RUNNABLE"] /\ context' = [context EXCEPT ![s] = created + 1]
      /\ UNCHANGED <<current_thread, running, dead, exited>>
      /\ created \in 0 .. MaxCreate /\ running \in Flow /\ dead \subseteq 0 .. created
      /\ state \in [Slot -> {"FREE", "RUNNING", "RUNNABLE"} \cup more]
      /\ context \in [Slot -> Flow \cup {NoFlow}] /\ current_thread \in Slot /\ exited \in BOOLEAN
  BY DEF CreateIn, TableTypes, With, Flow
<1>1. TableTypes(more)'
  BY <1>0 DEF TableTypes, Flow, NoFlow
<1>2. Live' = Live \cup {created + 1} /\ created + 1 \notin Live
  BY <1>0 DEF Live
<1>3. Parked' = Parked \cup {s} /\ s \notin Parked
  <2>1. s # current_thread
    BY <1>0 DEF FlowsKept
  <2> QED BY <1>0, <2>1 DEF Parked
<1>4. FlowsKept'
  <2>1. running \in Live
    BY <1>0 DEF FlowsKept
  <2>2. running' \in Live' /\ state'[current_thread'] \in {"RUNNING", "RUNNABLE"}
    BY <1>0, <1>2, <2>1 DEF FlowsKept
  <2>3. ASSUME NEW u \in Parked'
        PROVE  context'[u] \in (Live \ {running})' /\ state'[u] # "RUNNING"
    <3>1. u \in Slot
      BY DEF Parked
    <3>2. CASE u = s
      BY <1>0, <1>2, <2>1, <3>2
    <3>3. CASE u # s
      BY <1>0, <1>2, <1>3, <3>1, <3>3 DEF FlowsKept
    <3> QED BY <3>2, <3>3
  <2>4. ASSUME NEW f \in (Live \ {running})'
        PROVE  \E u \in Parked' : context'[u] = f
    <3>1. CASE f = created + 1
      BY <1>0, <1>3, <3>1
    <3>2. CASE f # created + 1
      <4>1. PICK u \in Parked : context[u] = f
        BY <1>0, <1>2, <3>2 DEF FlowsKept
      <4>2. u # s /\ u \in Slot
        BY <1>3, <4>1 DEF Parked
      <4> QED BY <1>0, <1>3, <4>1, <4>2
    <3> QED BY <3>1, <3>2
  <2>5. ASSUME NEW s1 \in Parked', NEW s2 \in Parked', context'[s1] = context'[s2]
        PROVE  s1 = s2
    <3>1. \A u \in Parked : context'[u] = context[u] /\ context[u] \in Live
      BY <1>0, <1>3 DEF FlowsKept, Parked
    <3>2. context'[s] \notin Live
      BY <1>0, <1>2
    <3> QED BY <1>0, <1>3, <2>5, <3>1, <3>2 DEF FlowsKept
  <2> QED BY <2>2, <2>3, <2>4, <2>5 DEF FlowsKept
<1> QED BY <1>1, <1>4

\* What a caller of thread_schedule may have done to the table: it changed the
\* current thread's own state, and if that is gone the running flow has ended.
Prepared(st) ==
  /\ \A s \in Slot \ {current_thread} :
       /\ st[s] \in Gone <=> state[s] \in Gone
       /\ st[s] # "RUNNING" \/ st[s] = state[s]
  /\ st[current_thread] # "RUNNING"
  /\ dead' = IF st[current_thread] \in Gone THEN dead \cup {running} ELSE dead

\* A switch parks the running flow, unless it has ended, and unparks the next.
LEMMA SwitchKeeps ==
  ASSUME NEW CONSTANT more, TableTypes(more), FlowsKept, ~exited,
         NEW st \in [Slot -> {"FREE", "RUNNING", "RUNNABLE"} \cup more], Prepared(st),
         NEW next \in Slot, st[next] = "RUNNABLE", SwitchTo(st, next)
  PROVE  TableTypes(more)' /\ FlowsKept' /\ (Live \ {running})' \subseteq Live
<1>0. /\ state \in [Slot -> {"FREE", "RUNNING", "RUNNABLE"} \cup more]
      /\ context \in [Slot -> Flow \cup {NoFlow}] /\ current_thread \in Slot
      /\ running \in Flow /\ created \in Flow /\ dead \subseteq 0 .. created
      /\ created' = created /\ exited' = exited /\ exited = FALSE
      /\ running \in Live /\ Live \subseteq Flow
  <2>1. /\ state \in [Slot -> {"FREE", "RUNNING", "RUNNABLE"} \cup more]
        /\ context \in [Slot -> Flow \cup {NoFlow}] /\ current_thread \in Slot
        /\ running \in Flow /\ created \in Flow /\ dead \subseteq 0 .. created
        /\ exited \in BOOLEAN
    BY DEF TableTypes
  <2>2. created' = created /\ exited' = exited
    BY DEF SwitchTo
  <2>3. running \in Live
    BY DEF FlowsKept
  <2>4. Live \subseteq Flow
    BY <2>1, ThreadsAssumption DEF Live, Flow
  <2> QED BY <2>1, <2>2, <2>3, <2>4
<1>1. CASE next = current_thread
  <2>1. state' = st /\ dead' = dead /\ UNCHANGED <<current_thread, context, running>>
    BY <1>1 DEF SwitchTo, Prepared, Gone
  <2>2. TableTypes(more)'
    BY <1>0, <2>1 DEF TableTypes
  <2>3. Parked' = Parked /\ Live' = Live
    BY <1>0, <2>1 DEF Parked, Live, Prepared, Gone
  <2>4. \A s \in Parked : state'[s] # "RUNNING"
    BY <2>1 DEF Parked, Prepared, FlowsKept
  <2> QED BY <1>0, <1>1, <2>1, <2>2, <2>3, <2>4 DEF FlowsKept
<1>2. CASE next # current_thread
  <2>1. /\ state' = [st EXCEPT ![next] = "RUNNING"] /\ current_thread' = next
        /\ context' = [context EXCEPT ![current_thread] = running] /\ running' = context[next]
    BY <1>2 DEF SwitchTo
  <2>2. next \in Parked
    BY <1>2 DEF Parked, Prepared, Gone
  <2>3. context[next] \in Live \ {running}
    BY <1>0, <2>2 DEF FlowsKept
  <2>4. TableTypes(more)'
    BY <1>0, <2>1, <2>3 DEF TableTypes, Live, Prepared
  <2>5. Live' = IF st[current_thread] \in Gone THEN Live \ {running} ELSE Live
    BY <1>0 DEF Live, Prepared
  <2>6. Parked' = IF st[current_thread] \in Gone THEN Parked \ {next}
                  ELSE (Parked \ {next}) \cup {current_thread}
    BY <1>0, <1>2, <2>1 DEF Parked, Prepared, Gone
  <2>7. \A s \in Parked : s # current_thread /\ s \in Slot /\ context'[s] = context[s]
                          /\ context[s] \in Live \ {running}
    BY <1>0, <2>1 DEF Parked, FlowsKept
  <2>8. FlowsKept'
    <3>1. running' \in Live' /\ state'[current_thread'] \in {"RUNNING", "RUNNABLE"}
      BY <2>1, <2>3, <2>5
    <3>2. ASSUME NEW s \in Parked'
          PROVE  context'[s] \in (Live \ {running})' /\ state'[s] # "RUNNING"
      <4>1. CASE s = current_thread
        BY <1>0, <1>2, <2>1, <2>3, <2>5, <2>6, <2>7, <4>1 DEF Prepared
      <4>2. CASE s # current_thread
        <5>1. s \in Parked \ {next}
          BY <2>6, <4>2
        <5>2. context[s] # context[next]
          BY <1>0, <2>2, <5>1 DEF FlowsKept
        <5>3. state'[s] # "RUNNING"
          BY <1>0, <2>1, <5>1 DEF FlowsKept, Prepared, Parked
        <5> QED BY <2>1, <2>5, <2>7, <5>1, <5>2, <5>3
      <4> QED BY <4>1, <4>2
    <3>3. ASSUME NEW f \in (Live \ {running})'
          PROVE  \E s \in Parked' : context'[s] = f
      <4>1. CASE f = running
        <5>1. st[current_thread] \notin Gone
          BY <2>5, <4>1
        <5> QED BY <1>0, <2>1, <2>6, <4>1, <5>1
      <4>2. CASE f # running
        <5>1. PICK s \in Parked : context[s] = f
          BY <1>0, <2>5, <4>2 DEF FlowsKept
        <5>2. s # next
          BY <2>1, <5>1
        <5> QED BY <2>6, <2>7, <5>1, <5>2
      <4> QED BY <4>1, <4>2
    <3>4. ASSUME NEW s1 \in Parked', NEW s2 \in Parked', context'[s1] = context'[s2]
          PROVE  s1 = s2
      <4>1. context'[current_thread] = running
        BY <1>0, <2>1
      <4> QED BY <1>0, <2>6, <2>7, <3>4, <4>1 DEF FlowsKept
    <3> QED BY <3>1, <3>2, <3>3, <3>4 DEF FlowsKept
  <2> QED BY <1>0, <2>4, <2>5, <2>8
<1> QED BY <1>1, <1>2
-----------------------------------------------------------------------------
(* The steps of a package, put together from these. *)

\* A step that leaves the table alone.
LEMMA TableStands ==
  ASSUME NEW CONSTANT more, TableTypes(more), FlowsKept, UNCHANGED tableVars
  PROVE  TableTypes(more)' /\ FlowsKept' /\ Live' = Live /\ Parked' = Parked
<1>1. Live' = Live /\ Parked' = Parked
  BY DEF tableVars, Live, Parked
<1> QED BY <1>1 DEF tableVars, TableTypes, FlowsKept

\* What the table says of itself while the process lives.
LEMMA TableFacts ==
  ASSUME NEW CONSTANT more, TableTypes(more)
  PROVE  /\ state \in [Slot -> {"FREE", "RUNNING", "RUNNABLE"} \cup more]
         /\ context \in [Slot -> Flow \cup {NoFlow}]
         /\ current_thread \in Slot /\ Slot \subseteq Int /\ exited \in BOOLEAN
         /\ running \in Flow /\ created \in Nat /\ created \in Flow /\ Flow \subseteq Nat /\ dead \subseteq 0 .. created
BY ThreadsAssumption DEF TableTypes, Slot, Flow

\* The caller of thread_schedule sets its own state, and a flow that is gone has ended.
LEMMA CallerPrepares ==
  ASSUME NEW CONSTANT more, TableTypes(more), NEW x \in ({"RUNNABLE", "FREE"} \cup more) \ {"RUNNING"},
         dead' = IF x \in Gone THEN dead \cup {running} ELSE dead
  PROVE  /\ Set(x) \in [Slot -> {"FREE", "RUNNING", "RUNNABLE"} \cup more] /\ Prepared(Set(x))
         /\ Set(x)[current_thread] = x /\ \A s \in Slot \ {current_thread} : Set(x)[s] = state[s]
<1>1. /\ Set(x) \in [Slot -> {"FREE", "RUNNING", "RUNNABLE"} \cup more] /\ Set(x)[current_thread] = x
      /\ \A s \in Slot \ {current_thread} : Set(x)[s] = state[s]
  BY TableFacts DEF Set
<1> QED BY <1>1 DEF Prepared

\* The flow whose stack is in a slot, or that runs on it.
Occupant(s) == IF s = current_thread THEN running ELSE context[s]

\* A switch parks the running flow in its own slot: each slot keeps its flow.
LEMMA SwitchOccupants ==
  ASSUME NEW CONSTANT more, TableTypes(more), NEW st, NEW next \in Slot, SwitchTo(st, next)
  PROVE  \A s \in Slot : Occupant(s)' = Occupant(s)
BY TableFacts DEF SwitchTo, Occupant

\* Who is left when the process exits: each in a slot that the caller left occupied.
LEMMA ExitKeeps ==
  ASSUME NEW CONSTANT more, TableTypes(more), FlowsKept, ~exited,
         NEW st \in [Slot -> {"FREE", "RUNNING", "RUNNABLE"} \cup more], Prepared(st), ExitProcess(st)
  PROVE  /\ TableTypes(more)' /\ FlowsKept' /\ exited'
         /\ \A f \in Live' : \E s \in Slot : state'[s] \notin Gone /\ Occupant(s)' = f
<1>0. /\ state' = st /\ exited' = TRUE /\ UNCHANGED <<current_thread, context, running, created>>
      /\ running \in Live /\ current_thread \in Slot
  BY TableFacts DEF ExitProcess, FlowsKept
<1>1. TableTypes(more)'
  <2>1. dead' \subseteq 0 .. created
    BY <1>0 DEF Prepared, TableTypes, Live
  <2> QED BY <1>0, <2>1 DEF TableTypes
<1>2. ASSUME NEW f \in Live'
      PROVE  \E s \in Slot : state'[s] \notin Gone /\ Occupant(s)' = f
  <2>1. f \in Live /\ (f = running => st[current_thread] \notin Gone)
    BY <1>0 DEF Live, Prepared
  <2>2. CASE f = running
    BY <1>0, <2>1, <2>2 DEF Occupant
  <2>3. CASE f # running
    <3>1. PICK s \in Parked : context[s] = f
      BY <2>1, <2>3 DEF FlowsKept
    <3>2. s \in Slot /\ s # current_thread /\ state[s] \notin Gone
      BY DEF Parked, Gone
    <3> QED BY <1>0, <3>1, <3>2 DEF Occupant, Prepared
  <2> QED BY <2>2, <2>3
<1> QED BY <1>0, <1>1, <1>2 DEF FlowsKept

\* A call of thread_schedule, whichever of the RUNNABLE threads it chooses.
LEMMA ScheduleKeeps ==
  ASSUME NEW CONSTANT more, TableTypes(more), FlowsKept, ~exited,
         NEW st \in [Slot -> {"FREE", "RUNNING", "RUNNABLE"} \cup more], Prepared(st),
         ExitProcess(st) \/ \E next \in Ready(st) : SwitchTo(st, next)
  PROVE  TableTypes(more)' /\ FlowsKept'
<1>1. CASE ExitProcess(st)
  BY <1>1, ExitKeeps
<1>2. ASSUME NEW next \in Ready(st), SwitchTo(st, next)
      PROVE  TableTypes(more)' /\ FlowsKept'
  <2>1. next \in Slot /\ st[next] = "RUNNABLE"
    BY DEF Ready
  <2> QED BY <1>2, <2>1, SwitchKeeps
<1> QED BY <1>1, <1>2

\* The circular scan: nobody is ready, or the nearest one gets the CPU.
LEMMA RoundRobinCases ==
  ASSUME NEW st, RoundRobin(st)
  PROVE  \/ Ready(st) = {} /\ ExitProcess(st)
         \/ \E next \in Ready(st) :
              /\ \A u \in Ready(st) : Dist(current_thread, next) <= Dist(current_thread, u)
              /\ SwitchTo(st, next)
BY DEF RoundRobin
\* Whom the exit of the scheduler leaves behind: flows that another call has put aside.
PutAside(aside) == \A f \in Live : \E s \in Slot : state[s] \in aside /\ Occupant(s) = f

\* The circular scan, in a package with such calls.
LEMMA RoundRobinKeeps ==
  ASSUME NEW CONSTANT more, TableTypes(more), FlowsKept, ~exited, more \cap {"FREE", "RUNNING", "RUNNABLE"} = {},
         NEW st \in [Slot -> {"FREE", "RUNNING", "RUNNABLE"} \cup more], Prepared(st), RoundRobin(st)
  PROVE  TableTypes(more)' /\ FlowsKept' /\ (exited' => PutAside(more \ Gone)')
<1>1. TableTypes(more)' /\ FlowsKept'
  BY RoundRobinCases, ScheduleKeeps
<1>2. CASE Ready(st) = {} /\ ExitProcess(st)
  <2>1. \A f \in Live' : \E s \in Slot : state'[s] \notin Gone /\ Occupant(s)' = f
    BY <1>2, ExitKeeps
  <2>2. \A s \in Slot : st[s] # "RUNNING"
    BY TableFacts DEF Prepared, FlowsKept, Parked, Gone
  <2>3. \A s \in Slot : state'[s] \notin Gone => state'[s] \in more \ Gone
    BY <1>2, <2>2 DEF ExitProcess, Ready, Gone
  <2> QED BY <1>1, <2>1, <2>3 DEF PutAside
<1>3. CASE \E next \in Ready(st) : SwitchTo(st, next)
  BY <1>1, <1>3 DEF SwitchTo
<1> QED BY <1>2, <1>3, RoundRobinCases
-----------------------------------------------------------------------------
(* The steps as coroutines see them. *)

\* A new flow.
LEMMA RefineCreate ==
  ASSUME NEW CONSTANT more, TableTypes(more), NEW s \in Slot, CreateIn(s)
  PROVE  Coroutines!Create
<1>1. /\ ~exited /\ exited' = exited /\ created' = created + 1 /\ running' = running /\ dead' = dead
      /\ created \in Nat /\ dead \subseteq 0 .. created
  BY TableFacts DEF CreateIn
<1>2. Live' = Live \cup {created'}
  BY <1>1 DEF Live
<1> QED BY <1>1, <1>2 DEF Coroutines!Create

\* A switch is a yield or the end of a flow or, to the same thread, nothing.
LEMMA RefineSwitch ==
  ASSUME NEW CONSTANT more, TableTypes(more), FlowsKept, ~exited, NEW st, Prepared(st),
         NEW next \in Slot, st[next] = "RUNNABLE", SwitchTo(st, next)
  PROVE  Coroutines!Next \/ UNCHANGED Coroutines!coVars
<1>1. CASE next = current_thread
  BY <1>1 DEF SwitchTo, Prepared, Gone, Coroutines!coVars, Live
<1>2. CASE next # current_thread
  <2>1. next \in Parked
    BY <1>2 DEF Parked, Prepared, Gone
  <2>2. running' = context[next] /\ UNCHANGED <<created, exited>> /\ context[next] \in Live \ {running}
    BY <1>2, <2>1 DEF SwitchTo, FlowsKept
  <2>3. Live' = IF st[current_thread] \in Gone THEN Live \ {running} ELSE Live
    BY <2>2 DEF Live, Prepared
  <2>4. Coroutines!Yield \/ Coroutines!Finish
    BY <2>2, <2>3 DEF Coroutines!Yield, Coroutines!Finish
  <2> QED BY <2>4 DEF Coroutines!Next
<1> QED BY <1>1, <1>2

\* The process exits when its last flow ends.
LEMMA RefineExit ==
  ASSUME NEW CONSTANT more, TableTypes(more), FlowsKept, ~exited, NEW st, Prepared(st),
         ExitProcess(st), Live' = {}
  PROVE  Coroutines!Next
<1>1. exited' = TRUE /\ UNCHANGED <<running, created>> /\ running \in Live
  BY DEF ExitProcess, FlowsKept
<1>2. Live = {running}
  BY <1>1 DEF Live, Prepared
<1> QED BY <1>1, <1>2 DEF Coroutines!Exit, Coroutines!Next
-----------------------------------------------------------------------------
(* The packages in which a flow that has not ended can always run. *)

PlainKept == TableTypes({}) /\ FlowsKept /\ NoneAbandoned

\* Who is parked is RUNNABLE, and so is a caller that does not end.
LEMMA PlainCaller ==
  ASSUME PlainKept, ~exited, NEW x \in {"RUNNABLE", "FREE"},
         dead' = IF x = "FREE" THEN dead \cup {running} ELSE dead
  PROVE  /\ Set(x) \in [Slot -> {"FREE", "RUNNING", "RUNNABLE"} \cup {}]
         /\ Prepared(Set(x))
         /\ Set(x)[current_thread] = x /\ \A s \in Slot \ {current_thread} : Set(x)[s] = state[s]
         /\ Parked = {s \in Slot \ {current_thread} : state[s] = "RUNNABLE"}
         /\ Ready(Set(x)) = IF x = "FREE" THEN Parked ELSE Parked \cup {current_thread}
<1>1. /\ Set(x) \in [Slot -> {"FREE", "RUNNING", "RUNNABLE"} \cup {}] /\ Prepared(Set(x))
      /\ Set(x)[current_thread] = x /\ \A s \in Slot \ {current_thread} : Set(x)[s] = state[s]
  BY CallerPrepares DEF Gone, PlainKept
<1>2. Parked = {s \in Slot \ {current_thread} : state[s] = "RUNNABLE"}
  BY TableFacts DEF PlainKept, FlowsKept, Parked
<1>3. Ready(Set(x)) = IF x = "FREE" THEN Parked ELSE Parked \cup {current_thread}
  BY <1>1, <1>2, TableFacts DEF Ready, PlainKept
<1> QED BY <1>1, <1>2, <1>3

\* thread_create, for the table and for the coroutines.
LEMMA PlainCreate ==
  ASSUME PlainKept, NEW s \in Slot, CreateIn(s)
  PROVE  PlainKept' /\ Coroutines!Next
<1>1. TableTypes({})' /\ FlowsKept' /\ Coroutines!Create
  BY CreateKeeps, RefineCreate DEF PlainKept
<1> QED BY <1>1 DEF CreateIn, PlainKept, NoneAbandoned, Coroutines!Next

\* thread_schedule, whichever RUNNABLE thread it chooses, if it exits only without one.
LEMMA PlainSchedule ==
  ASSUME PlainKept, ~exited, NEW x \in {"RUNNABLE", "FREE"},
         dead' = IF x = "FREE" THEN dead \cup {running} ELSE dead,
         \/ Ready(Set(x)) = {} /\ ExitProcess(Set(x))
         \/ \E next \in Ready(Set(x)) : SwitchTo(Set(x), next)
  PROVE  PlainKept' /\ (Coroutines!Next \/ UNCHANGED Coroutines!coVars)
<1>1. TableTypes({}) /\ FlowsKept
  BY DEF PlainKept
<1>2. ASSUME NEW next \in Ready(Set(x)), SwitchTo(Set(x), next)
      PROVE  PlainKept' /\ (Coroutines!Next \/ UNCHANGED Coroutines!coVars)
  <2>1. TableTypes({})' /\ FlowsKept'
    BY <1>1, <1>2, PlainCaller, ScheduleKeeps
  <2>2. Coroutines!Next \/ UNCHANGED Coroutines!coVars
    BY <1>1, <1>2, PlainCaller, RefineSwitch DEF Ready
  <2> QED BY <1>2, <2>1, <2>2 DEF SwitchTo, PlainKept, NoneAbandoned
<1>3. CASE Ready(Set(x)) = {} /\ ExitProcess(Set(x))
  <2>1. TableTypes({})' /\ FlowsKept' /\ \A f \in Live' : \E s \in Slot : state'[s] \notin Gone
    BY <1>1, <1>3, PlainCaller, ExitKeeps
  <2>2. \A s \in Slot : state'[s] \in Gone
    <3>1. x = "FREE" /\ Parked = {}
      BY <1>3, PlainCaller
    <3>2. \A s \in Slot : Set(x)[s] \in Gone
      BY <3>1, PlainCaller DEF Parked, Gone
    <3> QED BY <1>3, <3>2 DEF ExitProcess
  <2>3. Live' = {}
    BY <2>1, <2>2
  <2> QED BY <1>1, <1>3, <2>1, <2>3, PlainCaller, RefineExit DEF PlainKept, NoneAbandoned
<1> QED BY <1>2, <1>3

\* A step that leaves the table alone, also after the end.
LEMMA PlainStands ==
  ASSUME PlainKept, UNCHANGED tableVars
  PROVE  PlainKept' /\ UNCHANGED Coroutines!coVars
BY TableStands DEF PlainKept, NoneAbandoned, tableVars, Coroutines!coVars

\* The first state.
LEMMA PlainInit ==
  ASSUME TableInit
  PROVE  PlainKept
BY InitKept DEF TableInit, PlainKept, NoneAbandoned

\* The circular scan as PlainSchedule needs it.
LEMMA PlainRoundRobin ==
  ASSUME PlainKept, ~exited, NEW x \in {"RUNNABLE", "FREE"}, RoundRobin(Set(x)),
         dead' = IF x = "FREE" THEN dead \cup {running} ELSE dead
  PROVE  PlainKept' /\ (Coroutines!Next \/ UNCHANGED Coroutines!coVars)
BY PlainSchedule, RoundRobinCases
-----------------------------------------------------------------------------
(* uthreads1.c *)

\* The invariant is that of the plain packages.
LEMMA RoundRobinPlain == IInv <=> PlainKept
BY DEF IInv, RRTypeOK, PlainKept

\* The caller of thread_schedule is alive, and so is the table.
LEMMA RoundRobinAlive ==
  ASSUME IInv
  PROVE  /\ state \in [Slot -> {"FREE", "RUNNING", "RUNNABLE"}]
         /\ context \in [Slot -> Flow \cup {NoFlow}]
         /\ current_thread \in Slot /\ Slot \subseteq Int
         /\ Parked = {s \in Slot \ {current_thread} : state[s] # "FREE"}
<1>1. state \in [Slot -> {"FREE", "RUNNING", "RUNNABLE"}]
  BY DEF IInv, RRTypeOK, TableTypes
<1> QED BY <1>1, TableFacts DEF IInv, RRTypeOK, Parked

\* Every step keeps the invariant.
LEMMA RoundRobinStep ==
  ASSUME IInv, [RRNext]_tableVars
  PROVE  IInv'
<1>0. PlainKept /\ (IInv' <=> PlainKept')
  BY DEF IInv, RRTypeOK, PlainKept
<1>1. CASE thread_create
  BY <1>0, <1>1, PlainCreate DEF thread_create
<1>2. CASE thread_yield
  BY <1>0, <1>2, PlainRoundRobin DEF thread_yield, thread_schedule
<1>3. CASE Finish
  BY <1>0, <1>3, PlainRoundRobin DEF Finish, thread_schedule
<1>4. CASE Ended \/ UNCHANGED tableVars
  BY <1>0, <1>4, PlainStands DEF Ended
<1> QED BY <1>1, <1>2, <1>3, <1>4 DEF RRNext

\* The invariant holds in every state of uthreads1.c.
THEOREM RoundRobinStands == RRSpec => []IInv
<1>1. RRInit => IInv
  BY PlainInit, RoundRobinPlain DEF RRInit
<1>2. IInv /\ [RRNext]_tableVars => IInv'
  BY RoundRobinStep
<1> QED BY <1>1, <1>2, PTL DEF RRSpec

\* The variables keep their types.
THEOREM RoundRobinTypes == RRSpec => []RRTypeOK
<1>1. IInv => RRTypeOK
  BY DEF IInv
<1> QED BY <1>1, RoundRobinStands, PTL

\* No stack is lost, shared, or run after its flow has ended.
THEOREM RoundRobinKeepsFlows == RRSpec => []FlowsKept
<1>1. IInv => FlowsKept
  BY DEF IInv
<1> QED BY <1>1, RoundRobinStands, PTL

\* exit(0) in thread_schedule abandons nobody.
THEOREM RoundRobinAbandonsNobody == RRSpec => []NoneAbandoned
<1>1. IInv => NoneAbandoned
  BY DEF IInv
<1> QED BY <1>1, RoundRobinStands, PTL
-----------------------------------------------------------------------------
\* A step that comes to thread_schedule: from a yield, or from the end of a flow.
Scheduling(x) ==
  /\ ~exited /\ x \in {"RUNNABLE", "FREE"} /\ thread_schedule(Set(x))
  /\ dead' = IF x = "FREE" THEN dead \cup {running} ELSE dead

\* The kinds of steps.
LEMMA RoundRobinSteps ==
  ASSUME RRNext
  PROVE  thread_create \/ UNCHANGED tableVars \/ \E x \in {"RUNNABLE", "FREE"} : Scheduling(x)
<1>1. thread_yield => Scheduling("RUNNABLE")
  BY DEF thread_yield, Scheduling
<1>2. Finish => Scheduling("FREE")
  BY DEF Finish, Scheduling
<1> QED BY <1>1, <1>2 DEF RRNext, Ended

\* What thread_schedule chooses: nobody, the current thread, or the nearest parked one.
LEMMA RoundRobinChooses ==
  ASSUME IInv, NEW x, Scheduling(x)
  PROVE  \/ x = "FREE" /\ Parked = {} /\ ExitProcess(Set(x))
         \/ x = "RUNNABLE" /\ Parked = {} /\ SwitchTo(Set(x), current_thread)
         \/ \E next \in Parked :
              /\ \A u \in Parked : Dist(current_thread, next) <= Dist(current_thread, u)
              /\ SwitchTo(Set(x), next)
<1>1. Ready(Set(x)) = IF x = "FREE" THEN Parked ELSE Parked \cup {current_thread}
  BY PlainCaller, RoundRobinPlain DEF Scheduling
<1>2. CASE Ready(Set(x)) = {}
  BY <1>1, <1>2 DEF Scheduling, thread_schedule, RoundRobin
<1>3. CASE Ready(Set(x)) # {}
  <2>1. PICK next \in Ready(Set(x)) :
          /\ \A u \in Ready(Set(x)) : Dist(current_thread, next) <= Dist(current_thread, u)
          /\ SwitchTo(Set(x), next)
    BY <1>3 DEF Scheduling, thread_schedule, RoundRobin
  <2>2. CASE next \in Parked
    BY <1>1, <2>1, <2>2
  <2>3. CASE next \notin Parked
    <3>1. next = current_thread /\ x = "RUNNABLE"
      BY <1>1, <2>1, <2>3 DEF Scheduling
    <3>2. \A u \in Parked : Dist(current_thread, u) < Dist(current_thread, current_thread)
      BY RoundRobinAlive, ThreadsAssumption DEF Dist, Slot
    <3>3. \A u \in Parked : Dist(current_thread, u) \in Int
      BY RoundRobinAlive, ThreadsAssumption DEF Dist, Slot
    <3>4. Parked = {}
      BY <1>1, <2>1, <3>1, <3>2, <3>3, RoundRobinAlive, ThreadsAssumption DEF Dist
    <3> QED BY <2>1, <3>1, <3>4
  <2> QED BY <2>2, <2>3
<1> QED BY <1>2, <1>3

\* A stack is not given to another flow while its own still needs it.
THEOREM RoundRobinStealsNoStack == RRSpec => NoStolenStack
<1>1. IInv /\ [RRNext]_tableVars => [\A s \in Parked : context'[s] = context[s]]_tableVars
  <2> SUFFICES ASSUME IInv, RRNext, NEW s \in Parked PROVE context'[s] = context[s] \/ UNCHANGED tableVars
    OBVIOUS
  <2>1. s \in Slot /\ s # current_thread /\ state[s] # "FREE" /\ context \in [Slot -> Flow \cup {NoFlow}]
    BY RoundRobinAlive
  <2>2. CASE thread_create
    BY <2>1, <2>2 DEF thread_create, CreateIn, With
  <2>3. ASSUME NEW x \in {"RUNNABLE", "FREE"}, Scheduling(x) PROVE context'[s] = context[s]
    BY <2>1, <2>3, RoundRobinChooses DEF SwitchTo, ExitProcess
  <2> QED BY <2>2, <2>3, RoundRobinSteps
<1> QED BY <1>1, RoundRobinStands, PTL DEF RRSpec, NoStolenStack

\* On the way from one slot to another the circle is left behind.
LEMMA Nearer ==
  ASSUME NEW c \in Slot, NEW n \in Slot, NEW s \in Slot, n # s, c # s, Dist(c, n) <= Dist(c, s)
  PROVE  Dist(n, s) < Dist(c, s)
BY ThreadsAssumption DEF Dist, Slot

\* A waiting thread is never overtaken twice.
THEOREM RoundRobinFair == RRSpec => NoOvertaking
<1> DEFINE Approach == \A s \in Slot :
             s # current_thread /\ state[s] = "RUNNABLE" /\ current_thread' \notin {current_thread, s}
               => Dist(current_thread', s) < Dist(current_thread, s)
<1>1. IInv /\ [RRNext]_tableVars => [Approach]_tableVars
  <2> SUFFICES ASSUME IInv, RRNext, NEW s \in Slot, s # current_thread, state[s] = "RUNNABLE",
                      current_thread' \notin {current_thread, s}
               PROVE  Dist(current_thread', s) < Dist(current_thread, s)
    BY DEF tableVars
  <2>1. s \in Parked
    BY RoundRobinAlive
  <2>2. CASE thread_create \/ UNCHANGED tableVars
    BY <2>2 DEF thread_create, CreateIn, tableVars
  <2>3. ASSUME NEW x \in {"RUNNABLE", "FREE"}, Scheduling(x)
        PROVE  Dist(current_thread', s) < Dist(current_thread, s)
    <3>1. PICK next \in Parked :
            /\ \A u \in Parked : Dist(current_thread, next) <= Dist(current_thread, u)
            /\ SwitchTo(Set(x), next)
      BY <2>1, <2>3, RoundRobinChooses
    <3>2. current_thread' = next /\ next \in Slot
      BY <3>1, RoundRobinAlive DEF SwitchTo
    <3> QED BY <2>1, <3>1, <3>2, RoundRobinAlive, Nearer
  <2> QED BY <2>2, <2>3, RoundRobinSteps
<1> QED BY <1>1, RoundRobinStands, PTL DEF RRSpec, NoOvertaking
-----------------------------------------------------------------------------
\* main is the only flow in the first state.
LEMMA RoundRobinRefineInit ==
  ASSUME RRInit
  PROVE  Coroutines!Init
BY DEF RRInit, TableInit, Coroutines!Init, Live

\* Round robin threads implement coroutines.
THEOREM RoundRobinImplements == RRSpec => Implements
<1>1. RRInit => Coroutines!Init
  BY RoundRobinRefineInit
<1>2. IInv /\ [RRNext]_tableVars => [Coroutines!Next]_(Coroutines!coVars)
  <2>1. CASE UNCHANGED tableVars
    BY <2>1 DEF tableVars, Coroutines!coVars, Live
  <2>2. ASSUME IInv, thread_create PROVE Coroutines!Next
    BY <2>2, PlainCreate, RoundRobinPlain DEF thread_create
  <2>3. ASSUME IInv, NEW x, Scheduling(x) PROVE Coroutines!Next \/ UNCHANGED Coroutines!coVars
    BY <2>3, PlainRoundRobin, RoundRobinPlain DEF Scheduling, thread_schedule
  <2> QED BY <2>1, <2>2, <2>3, RoundRobinSteps
<1> QED BY <1>1, <1>2, RoundRobinStands, PTL DEF RRSpec, Implements, Coroutines!Spec
=============================================================================
