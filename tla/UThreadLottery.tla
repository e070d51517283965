---------------------------- MODULE UThreadLottery ----------------------------
(***************************************************************************)
(* w5labs/uthreads6.c: each thread has tickets and the scheduler draws one.*)
(***************************************************************************)
EXTENDS UThreads

CONSTANTS Tickets,    \* how many tickets callers give a thread
          RAND        \* pseudo_rand() is below RAND: 32768 in the code

VARIABLE tickets
vars == <<tableVars, tickets>>

\* The static table is zero: main has no ticket.
Init == TableInit /\ tickets = [s \in Slot |-> 0]

thread_create ==
  \E s \in Slot, n \in Tickets : CreateIn(s) /\ tickets' = [tickets EXCEPT ![s] = n]

\* The loops over the table: the tickets of the RUNNABLE threads in the first n slots.
Count(st) ==
  LET count[n \in 0 .. MAX_THREAD] ==
        IF n = 0 THEN 0
        ELSE count[n - 1] + (IF st[n - 1] = "RUNNABLE" THEN tickets[n - 1] ELSE 0)
  IN  count
Total(st) == Count(st)[MAX_THREAD]

\* pseudo_rand() % total: the generator may be anywhere in its cycle, so every
\* remainder of a number below RAND may come out.
pseudo_rand(total) == {w \in 0 .. total - 1 : w < RAND}

\* The first RUNNABLE thread with which the count passes the ticket.
Wins(st, s, ticket) ==
  s \in Ready(st) /\ Count(st)[s] <= ticket /\ ticket < Count(st)[s + 1]

thread_schedule(st) ==
  IF Total(st) = 0 THEN ExitProcess(st)
  ELSE \E winning_ticket \in pseudo_rand(Total(st)), next \in Slot :
         Wins(st, next, winning_ticket) /\ SwitchTo(st, next)

thread_yield == ~exited /\ thread_schedule(Set("RUNNABLE")) /\ UNCHANGED <<dead, tickets>>
Finish == ~exited /\ dead' = dead \cup {running} /\ thread_schedule(Set("FREE")) /\ UNCHANGED tickets

Next == thread_create \/ thread_yield \/ Finish \/ (Ended /\ UNCHANGED tickets)
Spec == Init /\ [][Next]_vars
-----------------------------------------------------------------------------
TypeOK == TableTypes({}) /\ tickets \in [Slot -> Tickets \cup {0}]

\* Whatever ticket is drawn there is exactly one winner: next_thread is never
\* null when thread_schedule uses it.
OneWinner ==
  \A ticket \in 0 .. Total(state) - 1 :
    \E winner \in Slot : {s \in Slot : Wins(state, s, ticket)} = {winner}

\* A thread with tickets can be drawn: nobody waits behind tickets that
\* pseudo_rand() never returns.
EveryHolderCanWin ==
  \A s \in With("RUNNABLE") : tickets[s] > 0 =>
    \E ticket \in pseudo_rand(Total(state)) : Wins(state, s, ticket)

\* The process exits, and the flows it abandons have no ticket (main has none).
OnlyTicketlessAbandoned ==
  exited => \A f \in Live : \E s \in Slot : tickets[s] = 0 /\ (context[s] = f \/ (running = f /\ s = current_thread))
=============================================================================
