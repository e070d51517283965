---------------------------- MODULE Handshake_proofs ----------------------------
(***************************************************************************)
(* The ten handshakes, for every byte and number of rounds on the command  *)
(* line and any number of faults: what the processes read is what they are *)
(* promised, who exits with 0 has read all of it, and main ends last.      *)
(*                                                                         *)
(* The tables are taken apart first (PairTables, GoodCode), then the       *)
(* kernel's part of the invariant is shown, then what the four families of *)
(* programs have sent and read.                                            *)
(***************************************************************************)
EXTENDS Handshake, FiniteSetTheorems, SequenceTheorems, WellFoundedInduction, TLAPS

\* What the pipes carry, what a history is made of, and how many calls the rounds of handshake4.c are.
Bytes     == 0 .. 255
Histories == Seq(Process \X Bytes)
Count     == IF args[2] > 0 THEN 2 * args[2] ELSE 0

-----------------------------------------------------------------------------
(* The local variables. *)

\* The order of the numbers, as a relation.
LessPairs == {ss \in Nat \X Nat : ss[1] < ss[2]}

\* Every set of numbers has a least one.
LEMMA Least ==
  ASSUME NEW T, T \subseteq Nat, T # {}
  PROVE  \E n \in T : \A m \in T : n <= m
<1>1. OpToRel(<, Nat) = LessPairs
  BY DEF OpToRel, LessPairs
<1>2. IsWellFoundedOn(LessPairs, Nat)
  BY NatLessThanWellFounded, <1>1
<1>3. PICK x \in T : \A y \in T : <<y, x>> \notin LessPairs
  BY <1>2, WFMin
<1>4. ASSUME NEW m \in T
      PROVE  m \in Nat /\ x \in Nat /\ ~(m < x)
  <2>1. <<m, x>> \in Nat \X Nat
    OBVIOUS
  <2> QED BY <1>3, <2>1 DEF LessPairs
<1> QED BY <1>4

\* So have the numbers up to n, and they have a greatest one.
LEMMA Extremes ==
  ASSUME NEW n \in Nat, NEW T, T \subseteq 1 .. n, T # {}
  PROVE  Min(T) \in T /\ Max(T) \in T /\ \A m \in T : Min(T) <= m /\ m <= Max(T)
<1>0. T \subseteq Nat
  OBVIOUS
<1>1. \E l \in T : \A m \in T : l <= m
  BY <1>0, Least
<1> DEFINE U == {n - m : m \in T}
<1>2. U \subseteq Nat /\ U # {}
  <2>1. \A m \in T : n - m \in Nat
    OBVIOUS
  <2> QED BY <2>1
<1>3. PICK d \in U : \A m \in U : d <= m
  <2> HIDE DEF U
  <2> QED BY <1>2, Least
<1>4. PICK g \in T : d = n - g
  BY <1>3
<1>5. \A m \in T : g >= m
  <2>1. \A m \in T : n - g <= n - m
    BY <1>3, <1>4
  <2> QED BY <2>1, <1>4
<1>6. Min(T) \in T /\ \A m \in T : Min(T) <= m
  BY <1>1 DEF Min
<1>7. Max(T) \in T /\ \A m \in T : Max(T) >= m
  BY <1>4, <1>5 DEF Max
<1> QED BY <1>6, <1>7

\* What the reads of p in a history leave in its variables.
LEMMA Variables ==
  ASSUME NEW s \in Histories, NEW p, By(p, s) # {}
  PROVE  /\ s[Min(By(p, s))][2] \in Bytes /\ s[Max(By(p, s))][2] \in Bytes
         /\ Min(By(p, s)) \in By(p, s) /\ Max(By(p, s)) \in By(p, s)
         /\ \A i \in By(p, s) : (\A j \in By(p, s) : i <= j) => Min(By(p, s)) = i
         /\ \A i \in By(p, s) : (\A j \in By(p, s) : j <= i) => Max(By(p, s)) = i
<1> DEFINE T == By(p, s)
<1>1. Len(s) \in Nat /\ T \subseteq 1 .. Len(s) /\ \A i \in 1 .. Len(s) : s[i] \in Process \X Bytes
  BY DEF By, Histories
<1> HIDE DEF T
<1>2. Min(T) \in T /\ Max(T) \in T /\ \A m \in T : Min(T) <= m /\ m <= Max(T)
  BY <1>1, Extremes DEF T
<1>3. Min(T) \in 1 .. Len(s) /\ Max(T) \in 1 .. Len(s)
  BY <1>1, <1>2
<1>4. s[Min(T)][2] \in Bytes /\ s[Max(T)][2] \in Bytes
  BY <1>1, <1>3
<1>5. /\ \A i \in T : (\A j \in T : i <= j) => Min(T) = i
      /\ \A i \in T : (\A j \in T : j <= i) => Max(T) = i
  BY <1>1, <1>2, <1>3
<1> QED BY <1>2, <1>4, <1>5 DEF T

\* A number cast to unsigned char is a byte.
LEMMA ByteRange ==
  ASSUME NEW x \in Int
  PROVE  Byte(x) \in Bytes
BY DEF Byte, Bytes

\* A local variable is a byte.
LEMMA LocalBytes ==
  args \in Args /\ got \in Histories => b \in Bytes /\ \A p \in Process : Cur(p) \in Bytes /\ First(p) \in Bytes
<1> SUFFICES ASSUME args \in Args, got \in Histories
             PROVE  b \in Bytes /\ \A p \in Process : Cur(p) \in Bytes /\ First(p) \in Bytes
  OBVIOUS
<1>1. args[1] \in Int
  BY HandshakeAssumption
<1>2. b \in Bytes
  <2>1. \A x \in Int : x % 256 \in 0 .. 255
    OBVIOUS
  <2> QED BY <1>1, <2>1 DEF b, Byte, Bytes
<1> QED BY <1>2, Variables DEF Cur, First
-----------------------------------------------------------------------------
(* The tables. *)

\* What a program does when a call fails, the ends of the pipes, and the calls that the tables are made of.
Fails == {"exit", "ignore", "junk", "keep"}
Ends  == Pipe \X {"r", "w"}
Short == {bs \in Seq(Bytes) : Len(bs) \in {1, 2}}
Calls == {Close(ends) : ends \in SUBSET Ends} \cup {Fork(c, f) : c \in {Child1, Child2}, f \in Fails}
         \cup {Read(x, n, f) : x \in Pipe, n \in {1, 2}, f \in Fails} \cup {Write(x, bs, f) : x \in Pipe, bs \in Short, f \in Fails}
         \cup {ReadUntilEof(x) : x \in Pipe} \cup {Wait}

\* The programs in which two processes talk over p2c and c2p, in turns; handshake3.c sends two bytes.
Pairs == {1, 2, 3, 4, 5, 9, 10}
Turns == CASE program = 4 -> Count [] program = 10 -> 3 [] OTHER -> 2
Shift == IF program = 5 THEN 1 ELSE 0

\* What main and the child send, and what they do in their k-th turn.
Width       == IF program = 3 THEN 2 ELSE 1
MainSays(k) == CASE program = 3 -> <<b, Byte(args[2])>> [] program = 4 -> <<Cur(Main)>>
                 [] program = 10 -> <<IF k = 3 THEN ACK2 ELSE b>> [] OTHER -> <<b>>
ChildSays   == CASE program = 1 -> <<Cur(Child1)>>   [] program = 2 -> <<ACK>>                    [] program = 3 -> <<First(Child1)>>
                 [] program = 4 -> <<Byte(Cur(Child1) + 1)>> [] program = 5 -> <<READY>>
                 [] program = 9 -> <<Cur(Child1) % 2>>       [] OTHER -> <<ACK1>>
Down(k) == (k + Shift) % 2 = 1
MainTurn(k, c) ==
  IF Down(k) THEN \E f \in Fails : c = Write("p2c", MainSays(k), f) /\ (program = 1 => f = "exit")
  ELSE \E f \in Fails : c = Read("c2p", 1, f) /\ (program \in {1, 2, 3} => f = "exit")
ChildTurn(k, c) ==
  IF Down(k) THEN \E f \in Fails : c = Read("p2c", Width, f) /\ (program \in {1, 2, 3} => f = "exit")
  ELSE \E f \in Fails : c = Write("c2p", ChildSays, f) /\ (program \in {1, 2, 3} => f = "exit")

\* The table of main and that of the child: so many calls in turns.
PairTables ==
  /\ Code[Main] \in Seq(Calls) /\ Len(Code[Main]) = Turns + 4 /\ Code[Child1] \in Seq(Calls) /\ Len(Code[Child1]) = Turns + 2 /\ Code[Child2] = <<>>
  /\ \E f \in Fails : Code[Main][1] = Fork(Child1, f)
  /\ Code[Main][2] = Close(ChildEnds) /\ Code[Main][Turns + 3] = Close(ParentEnds) /\ Code[Main][Turns + 4] = Wait
  /\ Code[Child1][1] = Close(ParentEnds) /\ Code[Child1][Turns + 2] = Close(ChildEnds)
  /\ \A k \in 1 .. Turns : MainTurn(k, Code[Main][k + 2]) /\ ChildTurn(k, Code[Child1][k + 1])

\* Each of the six kinds of calls is one.
LEMMA CallKinds ==
  /\ \A ends \in SUBSET Ends : Close(ends) \in Calls
  /\ \A c \in {Child1, Child2}, f \in Fails : Fork(c, f) \in Calls
  /\ \A x \in Pipe, n \in {1, 2}, f \in Fails : Read(x, n, f) \in Calls
  /\ \A x \in Pipe, y \in Bytes, f \in Fails : <<y>> \in Short /\ Len(<<y>>) = 1 /\ Write(x, <<y>>, f) \in Calls
  /\ \A x \in Pipe, y, z \in Bytes, f \in Fails : <<y, z>> \in Short /\ Len(<<y, z>>) = 2 /\ Write(x, <<y, z>>, f) \in Calls
  /\ \A x \in Pipe, bs \in Short, f \in Fails : Write(x, bs, f) \in Calls
  /\ \A x \in Pipe : ReadUntilEof(x) \in Calls
  /\ Wait \in Calls
<1>1. \A y, z \in Bytes : <<y>> \in Short /\ Len(<<y>>) = 1 /\ <<y, z>> \in Short /\ Len(<<y, z>>) = 2
  BY DEF Short
<1>2. \A ends \in SUBSET Ends : Close(ends) \in Calls
  BY DEF Calls
<1>3. \A c \in {Child1, Child2}, f \in Fails : Fork(c, f) \in Calls
  BY DEF Calls
<1>4. \A x \in Pipe, n \in {1, 2}, f \in Fails : Read(x, n, f) \in Calls
  BY DEF Calls
<1>5. \A x \in Pipe, bs \in Short, f \in Fails : Write(x, bs, f) \in Calls
  BY DEF Calls
<1>6. (\A x \in Pipe : ReadUntilEof(x) \in Calls) /\ Wait \in Calls
  BY DEF Calls
<1> QED BY <1>1, <1>2, <1>3, <1>4, <1>5, <1>6

\* The ends of the two processes that talk over p2c and c2p.
LEMMA PairEnds == ParentEnds \in SUBSET Ends /\ ChildEnds \in SUBSET Ends /\ "p2c" \in Pipe /\ "c2p" \in Pipe
BY HandshakeAssumption DEF Ends, ParentEnds, ChildEnds, R, W

\* Sequences of one and of two.
LEMMA Two ==
  ASSUME NEW S, NEW x \in S, NEW y \in S
  PROVE  <<x>> \in Seq(S) /\ Len(<<x>>) = 1 /\ <<x, y>> \in Seq(S) /\ Len(<<x, y>>) = 2
OBVIOUS

\* Three sequences in a row, and where their members stand.
InRow(s, t, u) == (s \o t) \o u

IsRow(x, s, t, u) ==
  /\ x \in Seq(Calls) /\ Len(x) = Len(s) + Len(t) + Len(u)
  /\ \A k \in 1 .. Len(s) : x[k] = s[k]
  /\ \A k \in 1 .. Len(t) : x[Len(s) + k] = t[k]
  /\ \A k \in 1 .. Len(u) : x[Len(s) + Len(t) + k] = u[k]

\* Every row of three sequences of calls is one.
LEMMA Rows ==
  ASSUME NEW s \in Seq(Calls), NEW t \in Seq(Calls), NEW u \in Seq(Calls)
  PROVE  IsRow(InRow(s, t, u), s, t, u)
<1> DEFINE v == s \o t
<1>0. Len(s) \in Nat /\ Len(t) \in Nat /\ Len(u) \in Nat
  OBVIOUS
<1>1. v \in Seq(Calls) /\ Len(v) = Len(s) + Len(t) /\ \A k \in 1 .. Len(s) + Len(t) : v[k] = IF k <= Len(s) THEN s[k] ELSE t[k - Len(s)]
  BY ConcatProperties
<1> HIDE DEF v
<1> DEFINE w == v \o u
<1>2. w \in Seq(Calls) /\ Len(w) = Len(v) + Len(u) /\ \A k \in 1 .. Len(v) + Len(u) : w[k] = IF k <= Len(v) THEN v[k] ELSE u[k - Len(v)]
  <2>1. v \in Seq(Calls)
    BY <1>1
  <2> QED BY <2>1, ConcatProperties
<1> HIDE DEF w
<1>3. \A k \in 1 .. Len(s) : k \in 1 .. Len(v) + Len(u) /\ k <= Len(v) /\ k \in 1 .. Len(s) + Len(t) /\ k <= Len(s)
  BY <1>0, <1>1
<1>4. \A k \in 1 .. Len(t) : /\ Len(s) + k \in 1 .. Len(v) + Len(u) /\ Len(s) + k <= Len(v) /\ Len(s) + k \in 1 .. Len(s) + Len(t)
                              /\ ~(Len(s) + k <= Len(s)) /\ (Len(s) + k) - Len(s) = k
  BY <1>0, <1>1
<1>5. \A k \in 1 .. Len(u) : /\ Len(s) + Len(t) + k \in 1 .. Len(v) + Len(u) /\ ~(Len(s) + Len(t) + k <= Len(v))
                              /\ (Len(s) + Len(t) + k) - Len(v) = k
  BY <1>0, <1>1
<1>6. \A k \in 1 .. Len(s) : w[k] = s[k]
  BY <1>1, <1>2, <1>3
<1>7. \A k \in 1 .. Len(t) : w[Len(s) + k] = t[k]
  BY <1>1, <1>2, <1>4
<1>8. \A k \in 1 .. Len(u) : w[Len(s) + Len(t) + k] = u[k]
  BY <1>1, <1>2, <1>5
<1> QED BY <1>1, <1>2, <1>6, <1>7, <1>8 DEF v, w, InRow, IsRow

\* What Parent and Child put around the calls of a program.
LEMMA Frame ==
  ASSUME NEW f \in Fails, NEW calls \in Seq(Calls)
  PROVE  /\ Parent(f, calls) \in Seq(Calls) /\ Len(Parent(f, calls)) = Len(calls) + 4
         /\ Parent(f, calls)[1] = Fork(Child1, f) /\ Parent(f, calls)[2] = Close(ChildEnds)
         /\ Parent(f, calls)[Len(calls) + 3] = Close(ParentEnds) /\ Parent(f, calls)[Len(calls) + 4] = Wait
         /\ \A k \in 1 .. Len(calls) : Parent(f, calls)[k + 2] = calls[k]
         /\ Child(calls) \in Seq(Calls) /\ Len(Child(calls)) = Len(calls) + 2
         /\ Child(calls)[1] = Close(ParentEnds) /\ Child(calls)[Len(calls) + 2] = Close(ChildEnds)
         /\ \A k \in 1 .. Len(calls) : Child(calls)[k + 1] = calls[k]
<1> DEFINE s == <<Fork(Child1, f), Close(ChildEnds)>>
           u == <<Close(ParentEnds), Wait>>
           t == <<Close(ParentEnds)>>
           v == <<Close(ChildEnds)>>
<1>1. Len(calls) \in Nat /\ s \in Seq(Calls) /\ u \in Seq(Calls) /\ t \in Seq(Calls) /\ v \in Seq(Calls)
      /\ Len(s) = 2 /\ Len(u) = 2 /\ Len(t) = 1 /\ Len(v) = 1
  <2>1. Fork(Child1, f) \in Calls /\ Close(ChildEnds) \in Calls /\ Close(ParentEnds) \in Calls /\ Wait \in Calls
    BY CallKinds, PairEnds
  <2> QED BY <2>1, Two
<1>2. s[1] = Fork(Child1, f) /\ s[2] = Close(ChildEnds) /\ u[1] = Close(ParentEnds) /\ u[2] = Wait /\ t[1] = Close(ParentEnds) /\ v[1] = Close(ChildEnds)
  OBVIOUS
<1>3. Parent(f, calls) = InRow(s, calls, u) /\ Child(calls) = InRow(t, calls, v)
  BY DEF Parent, Child, InRow
<1> HIDE DEF s, u, t, v
<1>4. IsRow(Parent(f, calls), s, calls, u) /\ IsRow(Child(calls), t, calls, v)
  BY <1>1, <1>3, Rows
<1> QED BY <1>1, <1>2, <1>4 DEF IsRow

\* Turn by turn, the tables of two processes that talk are those of PairTables.
LEMMA PairFrom ==
  ASSUME Turns \in Nat, NEW f \in Fails, NEW calls \in Seq(Calls), NEW replies \in Seq(Calls), Len(calls) = Turns, Len(replies) = Turns,
         Code[Main] = Parent(f, calls), Code[Child1] = Child(replies), Code[Child2] = <<>>,
         \A k \in 1 .. Turns : MainTurn(k, calls[k]) /\ ChildTurn(k, replies[k])
  PROVE  PairTables
<1>1. /\ Parent(f, calls) \in Seq(Calls) /\ Len(Parent(f, calls)) = Turns + 4
      /\ Parent(f, calls)[1] = Fork(Child1, f) /\ Parent(f, calls)[2] = Close(ChildEnds)
      /\ Parent(f, calls)[Turns + 3] = Close(ParentEnds) /\ Parent(f, calls)[Turns + 4] = Wait
      /\ \A k \in 1 .. Turns : Parent(f, calls)[k + 2] = calls[k]
  <2>1. /\ Parent(f, calls) \in Seq(Calls) /\ Len(Parent(f, calls)) = Len(calls) + 4
        /\ Parent(f, calls)[1] = Fork(Child1, f) /\ Parent(f, calls)[2] = Close(ChildEnds)
        /\ Parent(f, calls)[Len(calls) + 3] = Close(ParentEnds) /\ Parent(f, calls)[Len(calls) + 4] = Wait
        /\ \A k \in 1 .. Len(calls) : Parent(f, calls)[k + 2] = calls[k]
    BY Frame
  <2> QED BY <2>1
<1>2. /\ Child(replies) \in Seq(Calls) /\ Len(Child(replies)) = Turns + 2
      /\ Child(replies)[1] = Close(ParentEnds) /\ Child(replies)[Turns + 2] = Close(ChildEnds)
      /\ \A k \in 1 .. Turns : Child(replies)[k + 1] = replies[k]
  <2>1. "exit" \in Fails
    BY DEF Fails
  <2> QED BY <2>1, Frame
<1>3. \A k \in 1 .. Turns : MainTurn(k, Code[Main][k + 2]) /\ ChildTurn(k, Code[Child1][k + 1])
  BY <1>1, <1>2
<1> QED BY <1>1, <1>2, <1>3 DEF PairTables

\* What is sent are bytes.
LEMMA Said ==
  ASSUME args \in Args, got \in Histories, program \in Pairs
  PROVE  /\ \A k : MainSays(k) \in Short /\ Len(MainSays(k)) = Width
         /\ ChildSays \in Short /\ Len(ChildSays) = 1
<1>1. args[2] \in Int /\ Byte(args[2]) \in Bytes /\ b \in Bytes /\ Cur(Main) \in Bytes /\ Cur(Child1) \in Bytes /\ First(Child1) \in Bytes
  <2>1. args[2] \in Int
    BY HandshakeAssumption
  <2>2. Main \in Process /\ Child1 \in Process
    BY HandshakeAssumption DEF Main, Child1
  <2>3. Byte(args[2]) \in Bytes
    BY <2>1, ByteRange
  <2> QED BY <2>1, <2>2, <2>3, LocalBytes
<1>2. Byte(Cur(Child1) + 1) \in Bytes /\ Cur(Child1) % 2 \in Bytes /\ {ACK, ACK1, ACK2, READY} \subseteq Bytes
  <2>1. Cur(Child1) \in Int /\ Cur(Child1) + 1 \in Int
    BY <1>1 DEF Bytes
  <2>2. Byte(Cur(Child1) + 1) \in Bytes
    BY <2>1, ByteRange
  <2> QED BY <2>1, <2>2 DEF Bytes, ACK, ACK1, ACK2, READY
<1>3. \A y, z \in Bytes : <<y>> \in Short /\ Len(<<y>>) = 1 /\ <<y, z>> \in Short /\ Len(<<y, z>>) = 2
  BY DEF Short
<1>4. ASSUME NEW k
      PROVE  MainSays(k) \in Short /\ Len(MainSays(k)) = Width
  <2>1. CASE program = 3
    <3>1. MainSays(k) = <<b, Byte(args[2])>> /\ Width = 2
      BY <2>1 DEF MainSays, Width
    <3> QED BY <1>1, <1>3, <3>1
  <2>2. CASE program = 10
    <3>1. (k = 3 /\ MainSays(k) = <<ACK2>>) \/ MainSays(k) = <<b>>
      BY <2>2 DEF MainSays
    <3>2. Width = 1
      BY <2>2 DEF Width
    <3> QED BY <1>1, <1>2, <1>3, <3>1, <3>2
  <2>3. CASE program \notin {3, 10}
    BY <1>1, <1>3, <2>3 DEF MainSays, Width
  <2> QED BY <2>1, <2>2, <2>3
<1>5. ChildSays \in Short /\ Len(ChildSays) = 1
  BY <1>1, <1>2, <1>3 DEF ChildSays, Pairs
<1> QED BY <1>4, <1>5

\* What is done in a turn is a call.
LEMMA SaidCalls ==
  ASSUME args \in Args, got \in Histories, program \in Pairs, NEW k, NEW c, MainTurn(k, c) \/ ChildTurn(k, c)
  PROVE  c \in Calls
<1>1. Width \in {1, 2}
  BY DEF Width
<1>2. \A f \in Fails : /\ Write("p2c", MainSays(k), f) \in Calls /\ Write("c2p", ChildSays, f) \in Calls
                        /\ Read("p2c", Width, f) \in Calls /\ Read("c2p", 1, f) \in Calls
  BY <1>1, Said, CallKinds, PairEnds
<1> QED BY <1>2 DEF MainTurn, ChildTurn

\* The tables of a program with two turns.
LEMMA PairOfTwo ==
  ASSUME args \in Args, got \in Histories, program \in {1, 2, 3, 5, 9}, NEW f \in Fails, NEW x, NEW y, NEW v, NEW w,
         MainTurn(1, x), MainTurn(2, y), ChildTurn(1, v), ChildTurn(2, w),
         Code[Main] = Parent(f, <<x, y>>), Code[Child1] = Child(<<v, w>>), Code[Child2] = <<>>
  PROVE  PairTables
<1>1. Turns = 2 /\ program \in Pairs
  BY DEF Turns, Pairs
<1>2. x \in Calls /\ y \in Calls /\ v \in Calls /\ w \in Calls
  BY <1>1, SaidCalls
<1>3. <<x, y>> \in Seq(Calls) /\ <<v, w>> \in Seq(Calls) /\ Len(<<x, y>>) = 2 /\ Len(<<v, w>>) = 2
  BY <1>2, Two
<1>4. \A k \in 1 .. Turns : MainTurn(k, <<x, y>>[k]) /\ ChildTurn(k, <<v, w>>[k])
  BY <1>1
<1> QED BY <1>1, <1>3, <1>4, PairFrom

\* handshake1.c, handshake2.c, handshake3.c, handshake5.c and handshake9.c have two turns.
LEMMA TwoTurns == args \in Args /\ got \in Histories /\ program \in {1, 2, 3, 5, 9} => PairTables
<1> SUFFICES ASSUME args \in Args, got \in Histories, program \in {1, 2, 3, 5, 9}
             PROVE  PairTables
  OBVIOUS
<1>0. {"exit", "ignore", "junk", "keep"} = Fails
  BY DEF Fails
<1>1. CASE program = 1
  <2>1. /\ Code[Main] = Parent("exit", <<Write("p2c", <<b>>, "exit"), Read("c2p", 1, "exit")>>)
        /\ Code[Child1] = Child(<<Read("p2c", 1, "exit"), Write("c2p", <<Cur(Child1)>>, "exit")>>) /\ Code[Child2] = <<>>
    BY <1>1 DEF Code, hs_basic, Main, Child1, Child2
  <2>2. /\ MainTurn(1, Write("p2c", <<b>>, "exit")) /\ MainTurn(2, Read("c2p", 1, "exit"))
        /\ ChildTurn(1, Read("p2c", 1, "exit")) /\ ChildTurn(2, Write("c2p", <<Cur(Child1)>>, "exit"))
    BY <1>0, <1>1 DEF MainTurn, ChildTurn, MainSays, ChildSays, Down, Shift, Width
  <2> QED BY <1>0, <2>1, <2>2, PairOfTwo
<1>2. CASE program = 2
  <2>1. /\ Code[Main] = Parent("ignore", <<Write("p2c", <<b>>, "ignore"), Read("c2p", 1, "exit")>>)
        /\ Code[Child1] = Child(<<Read("p2c", 1, "exit"), Write("c2p", <<ACK>>, "exit")>>) /\ Code[Child2] = <<>>
    BY <1>2 DEF Code, hs_ack, Main, Child1, Child2
  <2>2. /\ MainTurn(1, Write("p2c", <<b>>, "ignore")) /\ MainTurn(2, Read("c2p", 1, "exit"))
        /\ ChildTurn(1, Read("p2c", 1, "exit")) /\ ChildTurn(2, Write("c2p", <<ACK>>, "exit"))
    BY <1>0, <1>2 DEF MainTurn, ChildTurn, MainSays, ChildSays, Down, Shift, Width
  <2> QED BY <1>0, <2>1, <2>2, PairOfTwo
<1>3. CASE program = 3
  <2>1. /\ Code[Main] = Parent("ignore", <<Write("p2c", <<b, Byte(args[2])>>, "ignore"), Read("c2p", 1, "exit")>>)
        /\ Code[Child1] = Child(<<Read("p2c", 2, "exit"), Write("c2p", <<First(Child1)>>, "exit")>>) /\ Code[Child2] = <<>>
    BY <1>3 DEF Code, hs_packet2, Main, Child1, Child2
  <2>2. /\ MainTurn(1, Write("p2c", <<b, Byte(args[2])>>, "ignore")) /\ MainTurn(2, Read("c2p", 1, "exit"))
        /\ ChildTurn(1, Read("p2c", 2, "exit")) /\ ChildTurn(2, Write("c2p", <<First(Child1)>>, "exit"))
    BY <1>0, <1>3 DEF MainTurn, ChildTurn, MainSays, ChildSays, Down, Shift, Width
  <2> QED BY <1>0, <2>1, <2>2, PairOfTwo
<1>4. CASE program = 5
  <2>1. /\ Code[Main] = Parent("ignore", <<Read("c2p", 1, "junk"), Write("p2c", <<b>>, "ignore")>>)
        /\ Code[Child1] = Child(<<Write("c2p", <<READY>>, "ignore"), Read("p2c", 1, "junk")>>) /\ Code[Child2] = <<>>
    BY <1>4 DEF Code, hs_ready_first, Main, Child1, Child2
  <2>2. /\ MainTurn(1, Read("c2p", 1, "junk")) /\ MainTurn(2, Write("p2c", <<b>>, "ignore"))
        /\ ChildTurn(1, Write("c2p", <<READY>>, "ignore")) /\ ChildTurn(2, Read("p2c", 1, "junk"))
    BY <1>0, <1>4 DEF MainTurn, ChildTurn, MainSays, ChildSays, Down, Shift, Width
  <2> QED BY <1>0, <2>1, <2>2, PairOfTwo
<1>5. CASE program = 9
  <2>1. /\ Code[Main] = Parent("ignore", <<Write("p2c", <<b>>, "ignore"), Read("c2p", 1, "junk")>>)
        /\ Code[Child1] = Child(<<Read("p2c", 1, "junk"), Write("c2p", <<Cur(Child1) % 2>>, "ignore")>>) /\ Code[Child2] = <<>>
    BY <1>5 DEF Code, hs_status, Main, Child1, Child2
  <2>2. /\ MainTurn(1, Write("p2c", <<b>>, "ignore")) /\ MainTurn(2, Read("c2p", 1, "junk"))
        /\ ChildTurn(1, Read("p2c", 1, "junk")) /\ ChildTurn(2, Write("c2p", <<Cur(Child1) % 2>>, "ignore"))
    BY <1>0, <1>5 DEF MainTurn, ChildTurn, MainSays, ChildSays, Down, Shift, Width
  <2> QED BY <1>0, <2>1, <2>2, PairOfTwo
<1> QED BY <1>1, <1>2, <1>3, <1>4, <1>5

\* handshake10.c has three turns.
LEMMA ThreeTurns == args \in Args /\ got \in Histories /\ program = 10 => PairTables
<1> SUFFICES ASSUME args \in Args, got \in Histories, program = 10
             PROVE  PairTables
  OBVIOUS
<1>0. {"exit", "ignore", "junk", "keep"} = Fails
  BY DEF Fails
<1> DEFINE x == Write("p2c", <<b>>, "ignore")
           y == Read("c2p", 1, "junk")
           z == Write("p2c", <<ACK2>>, "ignore")
           u == Read("p2c", 1, "junk")
           v == Write("c2p", <<ACK1>>, "ignore")
<1>1. Code[Main] = Parent("ignore", <<x, y, z>>) /\ Code[Child1] = Child(<<u, v, u>>) /\ Code[Child2] = <<>>
  BY DEF Code, hs_two_phase, Main, Child1, Child2
<1>2. MainTurn(1, x) /\ MainTurn(2, y) /\ MainTurn(3, z) /\ ChildTurn(1, u) /\ ChildTurn(2, v) /\ ChildTurn(3, u)
  BY <1>0 DEF MainTurn, ChildTurn, MainSays, ChildSays, Down, Shift, Width
<1>3. Turns = 3 /\ program \in Pairs
  BY DEF Turns, Pairs
<1> HIDE DEF x, y, z, u, v
<1>4. x \in Calls /\ y \in Calls /\ z \in Calls /\ u \in Calls /\ v \in Calls
  BY <1>2, <1>3, SaidCalls
<1>5. <<x, y, z>> \in Seq(Calls) /\ <<u, v, u>> \in Seq(Calls) /\ Len(<<x, y, z>>) = 3 /\ Len(<<u, v, u>>) = 3
  BY <1>4
<1>6. \A k \in 1 .. Turns : MainTurn(k, <<x, y, z>>[k]) /\ ChildTurn(k, <<u, v, u>>[k])
  BY <1>2, <1>3
<1> QED BY <1>0, <1>1, <1>3, <1>5, <1>6, PairFrom

\* handshake4.c has two turns for each of its rounds, however many.
LEMMA ManyTurns == args \in Args /\ got \in Histories /\ program = 4 => PairTables
<1> SUFFICES ASSUME args \in Args, got \in Histories, program = 4
             PROVE  PairTables
  OBVIOUS
<1>0. {"exit", "ignore", "junk", "keep"} = Fails
  BY DEF Fails
<1> DEFINE x == Write("p2c", <<Cur(Main)>>, "ignore")
           y == Read("c2p", 1, "keep")
           u == Read("p2c", 1, "exit")
           v == Write("c2p", <<Byte(Cur(Child1) + 1)>>, "exit")
<1>1. Code[Main] = Parent("ignore", Rounds(<<x, y>>)) /\ Code[Child1] = Child(Rounds(<<u, v>>)) /\ Code[Child2] = <<>>
  BY DEF Code, hs_pingpong, Main, Child1, Child2
<1>2. \A k \in Nat : IF Down(k) THEN MainTurn(k, x) /\ ChildTurn(k, u) ELSE MainTurn(k, y) /\ ChildTurn(k, v)
  BY <1>0 DEF MainTurn, ChildTurn, MainSays, ChildSays, Width
<1>3. Turns = Count /\ Count \in Nat /\ program \in Pairs /\ 1 .. 2 * args[2] = 1 .. Count
  <2>1. args[2] \in Int
    BY HandshakeAssumption
  <2> QED BY <2>1 DEF Turns, Pairs, Count
<1> HIDE DEF x, y, u, v
<1>4. x \in Calls /\ y \in Calls /\ u \in Calls /\ v \in Calls
  <2>1. 1 \in Nat /\ 2 \in Nat /\ Down(1) /\ ~Down(2)
    BY DEF Down, Shift
  <2>2. MainTurn(1, x) /\ ChildTurn(1, u) /\ MainTurn(2, y) /\ ChildTurn(2, v)
    BY <1>2, <2>1
  <2> QED BY <2>2, <1>3, SaidCalls
<1>5. \A k \in 1 .. Count : 1 + ((k - 1) % 2) = IF Down(k) THEN 1 ELSE 2
  BY <1>3 DEF Down, Shift
<1>6. ASSUME NEW c \in Calls, NEW d \in Calls
      PROVE  Rounds(<<c, d>>) = [k \in 1 .. Count |-> IF Down(k) THEN c ELSE d]
  <2>1. \A k \in 1 .. Count : <<c, d>>[1 + ((k - 1) % 2)] = IF Down(k) THEN c ELSE d
    BY <1>5
  <2> QED BY <1>3, <2>1 DEF Rounds
<1>7. ASSUME NEW c \in Calls, NEW d \in Calls
      PROVE  /\ Rounds(<<c, d>>) \in Seq(Calls) /\ Len(Rounds(<<c, d>>)) = Count
             /\ \A k \in 1 .. Count : Rounds(<<c, d>>)[k] = IF Down(k) THEN c ELSE d
  <2> DEFINE r == [k \in 1 .. Count |-> IF Down(k) THEN c ELSE d]
  <2>1. r \in [1 .. Count -> Calls] /\ \A k \in 1 .. Count : r[k] = IF Down(k) THEN c ELSE d
    OBVIOUS
  <2> HIDE DEF r
  <2>2. r \in Seq(Calls) /\ Len(r) = Count
    BY <1>3, <2>1
  <2> QED BY <1>6, <2>1, <2>2 DEF r
<1> DEFINE mine == Rounds(<<x, y>>)
           its  == Rounds(<<u, v>>)
<1>8. /\ mine \in Seq(Calls) /\ Len(mine) = Turns /\ its \in Seq(Calls) /\ Len(its) = Turns
      /\ \A k \in 1 .. Turns : mine[k] = (IF Down(k) THEN x ELSE y) /\ its[k] = (IF Down(k) THEN u ELSE v)
  BY <1>3, <1>4, <1>7
<1> HIDE DEF mine, its
<1>9. \A k \in 1 .. Turns : MainTurn(k, mine[k]) /\ ChildTurn(k, its[k])
  <2>1. \A k \in 1 .. Turns : k \in Nat
    BY <1>3
  <2> QED BY <1>2, <1>8, <2>1
<1>10. Code[Main] = Parent("ignore", mine) /\ Code[Child1] = Child(its)
  BY <1>1 DEF mine, its
<1> QED BY <1>0, <1>1, <1>3, <1>8, <1>9, <1>10, PairFrom

\* The tables of seven of the programs.
LEMMA PairCode == args \in Args /\ got \in Histories /\ program \in Pairs => PairTables /\ Turns \in Nat
<1>1. args \in Args => Turns \in Nat
  <2>1. args \in Args => args[2] \in Int
    BY HandshakeAssumption
  <2> QED BY <2>1 DEF Turns, Count
<1> QED BY <1>1, TwoTurns, ThreeTurns, ManyTurns DEF Pairs

\* The table of handshake6.c, call by call.
LEMMA ChildrenCode ==
  ASSUME program = 6
  PROVE  /\ Code[Main] = <<Fork(Child1, "ignore"), Fork(Child2, "ignore"), Close({R("p2c"), W("c2p"), R("p2c2"), W("c2p2")}),
                           Write("p2c", <<b>>, "ignore"), Write("p2c2", <<b>>, "ignore"), Read("c2p", 1, "junk"), Read("c2p2", 1, "junk"),
                           Close({W("p2c"), R("c2p"), W("p2c2"), R("c2p2")}), Wait, Wait>>
         /\ Code[Child1] = <<Close({W("p2c"), R("c2p")}), Read("p2c", 1, "exit"), Write("c2p", <<Cur(Child1)>>, "exit"), Close({R("p2c"), W("c2p")})>>
         /\ Code[Child2] = <<Close({W("p2c2"), R("c2p2")}), Read("p2c2", 1, "exit"), Write("c2p2", <<Cur(Child2)>>, "exit"), Close({R("p2c2"), W("c2p2")})>>
BY DEF Code, hs_two_children, spawn_child, Main, Child1, Child2

\* The table of handshake7.c, call by call.
LEMMA RingCode ==
  ASSUME program = 7
  PROVE  /\ Code[Main] = <<Fork(Child1, "ignore"), Fork(Child2, "ignore"), Close({R("p_c1"), R("c1_c2"), W("c1_c2"), W("c2_p")}),
                           Write("p_c1", <<b>>, "ignore"), Read("c2_p", 1, "junk"), Close({W("p_c1"), R("c2_p")}), Wait, Wait>>
         /\ Code[Child1] = <<Close({W("p_c1"), R("c1_c2"), R("c2_p"), W("c2_p")}), Read("p_c1", 1, "junk"),
                             Write("c1_c2", <<Byte(Cur(Child1) + 10)>>, "ignore"), Close({R("p_c1"), W("c1_c2")})>>
         /\ Code[Child2] = <<Close({W("c1_c2"), R("c2_p"), R("p_c1"), W("p_c1")}), Read("c1_c2", 1, "junk"),
                             Write("c2_p", <<Byte(Cur(Child2) + 20)>>, "ignore"), Close({R("c1_c2"), W("c2_p")})>>
BY DEF Code, hs_ring3, Main, Child1, Child2

\* The table of handshake8.c, call by call.
LEMMA EofCode ==
  ASSUME program = 8
  PROVE  /\ Code[Main] \in Seq(Calls) /\ Len(Code[Main]) = 7
         /\ Code[Main][1] = Fork(Child1, "ignore") /\ Code[Main][2] = Close({R("p2c")})
         /\ \A k \in 1 .. 3 : Code[Main][2 + k] = Write("p2c", <<k>>, "ignore")
         /\ Code[Main][6] = Close({W("p2c")}) /\ Code[Main][7] = Wait
         /\ Code[Child1] = <<Close({W("p2c")}), ReadUntilEof("p2c"), Close({R("p2c")})>> /\ Code[Child2] = <<>>
<1> DEFINE s == <<Fork(Child1, "ignore"), Close({R("p2c")})>>
           u == <<Close({W("p2c")}), Wait>>
<1>1. Code[Main] = InRow(s, Three, u)
  BY DEF Code, handshake8, Main, InRow
<1>2. Code[Child1] = <<Close({W("p2c")}), ReadUntilEof("p2c"), Close({R("p2c")})>> /\ Code[Child2] = <<>>
  BY DEF Code, handshake8, Receiver, Child1, Child2
<1>3. Fork(Child1, "ignore") \in Calls /\ Close({R("p2c")}) \in Calls /\ Close({W("p2c")}) \in Calls /\ Wait \in Calls
  <2>1. "ignore" \in Fails /\ {R("p2c")} \in SUBSET Ends /\ {W("p2c")} \in SUBSET Ends
    BY HandshakeAssumption DEF Fails, Ends, R, W
  <2> QED BY <2>1, CallKinds
<1>4. s \in Seq(Calls) /\ u \in Seq(Calls) /\ Len(s) = 2 /\ Len(u) = 2
  BY <1>3, Two
<1>5. s[1] = Fork(Child1, "ignore") /\ s[2] = Close({R("p2c")}) /\ u[1] = Close({W("p2c")}) /\ u[2] = Wait
  OBVIOUS
<1>6. Three \in Seq(Calls) /\ Len(Three) = 3 /\ \A k \in 1 .. 3 : Three[k] = Write("p2c", <<k>>, "ignore")
  <2>1. \A k \in 1 .. 3 : Write("p2c", <<k>>, "ignore") \in Calls
    <3>1. "ignore" \in Fails /\ \A k \in 1 .. 3 : k \in Bytes
      BY DEF Fails, Bytes
    <3>2. \A k \in Bytes : Write("p2c", <<k>>, "ignore") \in Calls
      BY <3>1, CallKinds, PairEnds
    <3> QED BY <3>1, <3>2
  <2> QED BY <2>1 DEF Three
<1> HIDE DEF s, u
<1>7. IsRow(InRow(s, Three, u), s, Three, u)
  BY <1>4, <1>6, Rows
<1> QED BY <1>1, <1>2, <1>4, <1>5, <1>6, <1>7 DEF IsRow

\* What the fields of a call hold.
LEMMA Fields ==
  /\ \A ends : Close(ends).op = "close" /\ Close(ends).ends = ends
  /\ \A c, f : Fork(c, f).op = "fork" /\ Fork(c, f).child = c /\ Fork(c, f).fail = f
  /\ \A x, n, f : Read(x, n, f).op = "read" /\ Read(x, n, f).pipe = x /\ Read(x, n, f).n = n /\ Read(x, n, f).fail = f
  /\ \A x, bs, f : Write(x, bs, f).op = "write" /\ Write(x, bs, f).pipe = x /\ Write(x, bs, f).bytes = bs /\ Write(x, bs, f).fail = f
  /\ \A x : ReadUntilEof(x).op = "drain" /\ ReadUntilEof(x).pipe = x /\ ReadUntilEof(x).n = 1 /\ ReadUntilEof(x).fail = "ignore"
  /\ Wait.op = "wait"
BY DEF Close, Fork, Read, Write, ReadUntilEof, Wait

\* What the fields of a call range over.
LEMMA CallTypes ==
  ASSUME NEW c \in Calls
  PROVE  /\ c.op \in {"close", "fork", "read", "write", "drain", "wait"}
         /\ c.op = "close" => c.ends \in SUBSET Ends
         /\ c.op = "fork" => c.child \in {Child1, Child2} /\ c.fail \in Fails
         /\ c.op = "read" => c.pipe \in Pipe /\ c.n \in {1, 2} /\ c.fail \in Fails
         /\ c.op = "drain" => c.pipe \in Pipe /\ c.n = 1 /\ c.fail = "ignore"
         /\ c.op = "write" => c.pipe \in Pipe /\ c.bytes \in Short /\ c.fail \in Fails
BY Fields DEF Calls

\* How many children main forks, how long the tables are, and which ends a process uses.
Forks     == IF program \in {6, 7} THEN 2 ELSE 1
Length(p) ==
  IF program \in Pairs THEN (IF p = Main THEN Turns + 4 ELSE IF p = Child1 THEN Turns + 2 ELSE 0)
  ELSE IF program = 8 THEN (IF p = Main THEN 7 ELSE IF p = Child1 THEN 3 ELSE 0)
  ELSE IF p = Main THEN (IF program = 6 THEN 10 ELSE 8) ELSE 4
\* The place at which a process closes the ends it uses.
Closing(p) == IF p = Main THEN Length(p) - Forks ELSE Length(p)
\* The ends that a process uses.
Mine(p) ==
  CASE program \in Pairs -> IF p = Main THEN ParentEnds ELSE IF p = Child1 THEN ChildEnds ELSE {}
    [] program = 6 -> IF p = Main THEN {W("p2c"), R("c2p"), W("p2c2"), R("c2p2")}
                      ELSE IF p = Child1 THEN {R("p2c"), W("c2p")} ELSE {R("p2c2"), W("c2p2")}
    [] program = 7 -> IF p = Main THEN {W("p_c1"), R("c2_p")} ELSE IF p = Child1 THEN {R("p_c1"), W("c1_c2")} ELSE {R("c1_c2"), W("c2_p")}
    [] program = 8 -> IF p = Main THEN {W("p2c")} ELSE IF p = Child1 THEN {R("p2c")} ELSE {}

\* A call where it belongs: main forks first and waits last, and nobody closes an end that it uses later on.
GoodCall(p, a, c) ==
  /\ c.op = "fork" => p = Main /\ a <= Forks /\ c.child = a + 1
  /\ p = Main /\ a <= Forks => c.op = "fork"
  /\ c.op = "wait" => p = Main
  /\ p = Main /\ a > Length(p) - Forks => c.op = "wait"
  /\ c.op = "close" => (a = Closing(p) \/ c.ends \cap Mine(p) = {}) /\ (p = Main => a > Forks)
  /\ c.op \in {"read", "drain"} => R(c.pipe) \in Mine(p) /\ a < Closing(p)
  /\ c.op = "write" => W(c.pipe) \in Mine(p) /\ a < Closing(p)
  /\ c.op = "read" /\ c.n # 1 => program = 3 /\ p = Child1 /\ a = 2
  /\ c.op = "write" /\ Len(c.bytes) # 1 => program = 3 /\ p = Main /\ a = 3
\* A table of good calls.
GoodCode(p) == /\ Code[p] \in Seq(Calls) /\ Len(Code[p]) = Length(p) /\ (p = Main => Length(p) >= 2 * Forks + 2)
               /\ \A a \in 1 .. Length(p) : GoodCall(p, a, Code[p][a])

\* Distinct ends.
LEMMA EndsDiffer == \A x, y : (R(x) = R(y) <=> x = y) /\ (W(x) = W(y) <=> x = y) /\ R(x) # W(y)
BY DEF R, W

\* The tables of handshake7.c are good ones.
LEMMA RingGood ==
  ASSUME args \in Args, got \in Histories, program = 7
  PROVE  GoodCode(Main) /\ GoodCode(Child1) /\ GoodCode(Child2)
<1>1. /\ Forks = 2 /\ Length(Main) = 8 /\ Length(Child1) = 4 /\ Length(Child2) = 4 /\ Closing(Main) = 6 /\ Closing(Child1) = 4 /\ Closing(Child2) = 4
      /\ Mine(Main) = {W("p_c1"), R("c2_p")} /\ Mine(Child1) = {R("p_c1"), W("c1_c2")} /\ Mine(Child2) = {R("c1_c2"), W("c2_p")}
  BY DEF Forks, Length, Closing, Mine, Pairs, Main, Child1, Child2
<1>2. "ignore" \in Fails /\ "junk" \in Fails /\ {"p_c1", "c1_c2", "c2_p"} \subseteq Pipe
  BY HandshakeAssumption DEF Fails
<1>3. \A x \in Pipe : R(x) \in Ends /\ W(x) \in Ends
  BY DEF R, W, Ends
<1>4. b \in Bytes /\ Byte(Cur(Child1) + 10) \in Bytes /\ Byte(Cur(Child2) + 20) \in Bytes
  <2>1. b \in Bytes /\ Cur(Child1) \in Bytes /\ Cur(Child2) \in Bytes
    BY LocalBytes, HandshakeAssumption DEF Child1, Child2
  <2>2. Cur(Child1) + 10 \in Int /\ Cur(Child2) + 20 \in Int
    BY <2>1 DEF Bytes
  <2> QED BY <2>1, <2>2, ByteRange
<1>5. GoodCode(Main)
  <2> DEFINE c1 == Fork(Child1, "ignore")  c2 == Fork(Child2, "ignore")
             c3 == Close({R("p_c1"), R("c1_c2"), W("c1_c2"), W("c2_p")})
             c4 == Write("p_c1", <<b>>, "ignore")  c5 == Read("c2_p", 1, "junk")  c6 == Close({W("p_c1"), R("c2_p")})
  <2>1. Code[Main] = <<c1, c2, c3, c4, c5, c6, Wait, Wait>>
    BY RingCode
  <2>2. c1 \in Calls /\ c2 \in Calls /\ c3 \in Calls /\ c4 \in Calls /\ c5 \in Calls /\ c6 \in Calls /\ Wait \in Calls
    BY <1>2, <1>3, <1>4, CallKinds
  <2>3. /\ GoodCall(Main, 1, c1) /\ GoodCall(Main, 2, c2) /\ GoodCall(Main, 3, c3) /\ GoodCall(Main, 4, c4)
        /\ GoodCall(Main, 5, c5) /\ GoodCall(Main, 6, c6) /\ GoodCall(Main, 7, Wait) /\ GoodCall(Main, 8, Wait)
    BY <1>1, <1>2, <1>4, Fields, EndsDiffer, CallKinds DEF GoodCall, Main, Child1, Child2
  <2> HIDE DEF c1, c2, c3, c4, c5, c6
  <2> QED BY <1>1, <2>1, <2>2, <2>3 DEF GoodCode
<1>6. GoodCode(Child1)
  <2> DEFINE c1 == Close({W("p_c1"), R("c1_c2"), R("c2_p"), W("c2_p")})  c2 == Read("p_c1", 1, "junk")
             c3 == Write("c1_c2", <<Byte(Cur(Child1) + 10)>>, "ignore")  c4 == Close({R("p_c1"), W("c1_c2")})
  <2>1. Code[Child1] = <<c1, c2, c3, c4>>
    BY RingCode
  <2>2. c1 \in Calls /\ c2 \in Calls /\ c3 \in Calls /\ c4 \in Calls
    BY <1>2, <1>3, <1>4, CallKinds
  <2>3. GoodCall(Child1, 1, c1) /\ GoodCall(Child1, 2, c2) /\ GoodCall(Child1, 3, c3) /\ GoodCall(Child1, 4, c4)
    BY <1>1, <1>2, <1>4, Fields, EndsDiffer, CallKinds DEF GoodCall, Main, Child1
  <2> HIDE DEF c1, c2, c3, c4
  <2> QED BY <1>1, <2>1, <2>2, <2>3 DEF GoodCode, Main, Child1
<1>7. GoodCode(Child2)
  <2> DEFINE c1 == Close({W("c1_c2"), R("c2_p"), R("p_c1"), W("p_c1")})  c2 == Read("c1_c2", 1, "junk")
             c3 == Write("c2_p", <<Byte(Cur(Child2) + 20)>>, "ignore")  c4 == Close({R("c1_c2"), W("c2_p")})
  <2>1. Code[Child2] = <<c1, c2, c3, c4>>
    BY RingCode
  <2>2. c1 \in Calls /\ c2 \in Calls /\ c3 \in Calls /\ c4 \in Calls
    BY <1>2, <1>3, <1>4, CallKinds
  <2>3. GoodCall(Child2, 1, c1) /\ GoodCall(Child2, 2, c2) /\ GoodCall(Child2, 3, c3) /\ GoodCall(Child2, 4, c4)
    BY <1>1, <1>2, <1>4, Fields, EndsDiffer, CallKinds DEF GoodCall, Main, Child1, Child2
  <2> HIDE DEF c1, c2, c3, c4
  <2> QED BY <1>1, <2>1, <2>2, <2>3 DEF GoodCode, Main, Child2
<1> QED BY <1>5, <1>6, <1>7

\* The tables of handshake6.c are good ones.
LEMMA ChildrenGood ==
  ASSUME args \in Args, got \in Histories, program = 6
  PROVE  GoodCode(Main) /\ GoodCode(Child1) /\ GoodCode(Child2)
<1>1. /\ Forks = 2 /\ Length(Main) = 10 /\ Length(Child1) = 4 /\ Length(Child2) = 4 /\ Closing(Main) = 8 /\ Closing(Child1) = 4 /\ Closing(Child2) = 4
      /\ Mine(Main) = {W("p2c"), R("c2p"), W("p2c2"), R("c2p2")} /\ Mine(Child1) = {R("p2c"), W("c2p")} /\ Mine(Child2) = {R("p2c2"), W("c2p2")}
  BY DEF Forks, Length, Closing, Mine, Pairs, Main, Child1, Child2
<1>2. "ignore" \in Fails /\ "junk" \in Fails /\ "exit" \in Fails /\ {"p2c", "c2p", "p2c2", "c2p2"} \subseteq Pipe
  BY HandshakeAssumption DEF Fails
<1>3. \A x \in Pipe : R(x) \in Ends /\ W(x) \in Ends
  BY DEF R, W, Ends
<1>4. b \in Bytes /\ Cur(Child1) \in Bytes /\ Cur(Child2) \in Bytes
  BY LocalBytes, HandshakeAssumption DEF Child1, Child2
<1>5. GoodCode(Main)
  <2> DEFINE c1 == Fork(Child1, "ignore")  c2 == Fork(Child2, "ignore")
             c3 == Close({R("p2c"), W("c2p"), R("p2c2"), W("c2p2")})
             c4 == Write("p2c", <<b>>, "ignore")  c5 == Write("p2c2", <<b>>, "ignore")
             c6 == Read("c2p", 1, "junk")  c7 == Read("c2p2", 1, "junk")
             c8 == Close({W("p2c"), R("c2p"), W("p2c2"), R("c2p2")})
  <2>1. Code[Main] = <<c1, c2, c3, c4, c5, c6, c7, c8, Wait, Wait>>
    BY ChildrenCode
  <2>2. /\ c1 \in Calls /\ c2 \in Calls /\ c3 \in Calls /\ c4 \in Calls /\ c5 \in Calls /\ c6 \in Calls /\ c7 \in Calls /\ c8 \in Calls
        /\ Wait \in Calls
    BY <1>2, <1>3, <1>4, CallKinds
  <2>3. GoodCall(Main, 1, c1) /\ GoodCall(Main, 2, c2) /\ GoodCall(Main, 9, Wait) /\ GoodCall(Main, 10, Wait)
    BY <1>1, Fields DEF GoodCall, Main, Child1, Child2
  <2>4. GoodCall(Main, 3, c3) /\ GoodCall(Main, 8, c8)
    BY <1>1, Fields, EndsDiffer DEF GoodCall, Main, Child1, Child2
  <2>5. GoodCall(Main, 4, c4) /\ GoodCall(Main, 5, c5) /\ GoodCall(Main, 6, c6) /\ GoodCall(Main, 7, c7)
    <3>1. Len(<<b>>) = 1
      OBVIOUS
    <3> QED BY <1>1, <3>1, Fields DEF GoodCall, Main, Child1, Child2
  <2> HIDE DEF c1, c2, c3, c4, c5, c6, c7, c8
  <2> QED BY <1>1, <2>1, <2>2, <2>3, <2>4, <2>5 DEF GoodCode
<1>6. GoodCode(Child1)
  <2> DEFINE c1 == Close({W("p2c"), R("c2p")})  c2 == Read("p2c", 1, "exit")
             c3 == Write("c2p", <<Cur(Child1)>>, "exit")  c4 == Close({R("p2c"), W("c2p")})
  <2>1. Code[Child1] = <<c1, c2, c3, c4>>
    BY ChildrenCode
  <2>2. c1 \in Calls /\ c2 \in Calls /\ c3 \in Calls /\ c4 \in Calls
    BY <1>2, <1>3, <1>4, CallKinds
  <2>3. GoodCall(Child1, 1, c1) /\ GoodCall(Child1, 2, c2) /\ GoodCall(Child1, 3, c3) /\ GoodCall(Child1, 4, c4)
    BY <1>1, <1>2, <1>4, Fields, EndsDiffer, CallKinds DEF GoodCall, Main, Child1
  <2> HIDE DEF c1, c2, c3, c4
  <2> QED BY <1>1, <2>1, <2>2, <2>3 DEF GoodCode, Main, Child1
<1>7. GoodCode(Child2)
  <2> DEFINE c1 == Close({W("p2c2"), R("c2p2")})  c2 == Read("p2c2", 1, "exit")
             c3 == Write("c2p2", <<Cur(Child2)>>, "exit")  c4 == Close({R("p2c2"), W("c2p2")})
  <2>1. Code[Child2] = <<c1, c2, c3, c4>>
    BY ChildrenCode
  <2>2. c1 \in Calls /\ c2 \in Calls /\ c3 \in Calls /\ c4 \in Calls
    BY <1>2, <1>3, <1>4, CallKinds
  <2>3. GoodCall(Child2, 1, c1) /\ GoodCall(Child2, 2, c2) /\ GoodCall(Child2, 3, c3) /\ GoodCall(Child2, 4, c4)
    BY <1>1, <1>2, <1>4, Fields, EndsDiffer, CallKinds DEF GoodCall, Main, Child1, Child2
  <2> HIDE DEF c1, c2, c3, c4
  <2> QED BY <1>1, <2>1, <2>2, <2>3 DEF GoodCode, Main, Child2
<1> QED BY <1>5, <1>6, <1>7

\* The tables of handshake8.c are good ones.
LEMMA EofGood ==
  ASSUME args \in Args, got \in Histories, program = 8
  PROVE  GoodCode(Main) /\ GoodCode(Child1) /\ GoodCode(Child2)
<1>1. /\ Forks = 1 /\ Length(Main) = 7 /\ Length(Child1) = 3 /\ Length(Child2) = 0 /\ Closing(Main) = 6 /\ Closing(Child1) = 3
      /\ Mine(Main) = {W("p2c")} /\ Mine(Child1) = {R("p2c")}
  BY DEF Forks, Length, Closing, Mine, Pairs, Main, Child1, Child2
<1>2. "ignore" \in Fails /\ "p2c" \in Pipe
  BY HandshakeAssumption DEF Fails
<1>3. R("p2c") \in Ends /\ W("p2c") \in Ends
  BY <1>2 DEF R, W, Ends
<1>4. GoodCode(Main)
  <2>1. /\ GoodCall(Main, 1, Fork(Child1, "ignore")) /\ GoodCall(Main, 2, Close({R("p2c")}))
        /\ GoodCall(Main, 6, Close({W("p2c")})) /\ GoodCall(Main, 7, Wait)
    BY <1>1, <1>2, Fields, EndsDiffer DEF GoodCall, Main, Child1, Child2
  <2>2. \A k : Len(<<k>>) = 1
    OBVIOUS
  <2>3. \A k \in 1 .. 3 : GoodCall(Main, 2 + k, Write("p2c", <<k>>, "ignore"))
    BY <1>1, <1>2, <2>2, Fields, EndsDiffer DEF GoodCall, Main, Child1, Child2
  <2>4. \A a \in 1 .. 7 : a = 1 \/ a = 2 \/ (a - 2 \in 1 .. 3 /\ a = 2 + (a - 2)) \/ a = 6 \/ a = 7
    OBVIOUS
  <2> QED BY <1>1, <2>1, <2>3, <2>4, EofCode DEF GoodCode
<1>5. GoodCode(Child1)
  <2> DEFINE c1 == Close({W("p2c")})  c2 == ReadUntilEof("p2c")  c3 == Close({R("p2c")})
  <2>1. Code[Child1] = <<c1, c2, c3>>
    BY EofCode
  <2>2. c1 \in Calls /\ c2 \in Calls /\ c3 \in Calls
    BY <1>2, <1>3, CallKinds
  <2>3. GoodCall(Child1, 1, c1) /\ GoodCall(Child1, 2, c2) /\ GoodCall(Child1, 3, c3)
    BY <1>1, <1>2, Fields, EndsDiffer DEF GoodCall, Main, Child1
  <2> HIDE DEF c1, c2, c3
  <2> QED BY <1>1, <2>1, <2>2, <2>3 DEF GoodCode, Main, Child1
<1>6. GoodCode(Child2)
  <2>1. Code[Child2] = <<>> /\ <<>> \in Seq(Calls) /\ Len(<<>>) = 0 /\ 1 .. 0 = {} /\ Child2 # Main
    BY EofCode DEF Main, Child2
  <2> QED BY <1>1, <2>1 DEF GoodCode
<1> QED BY <1>4, <1>5, <1>6

\* The tables of the seven programs of two processes that talk are good ones.
LEMMA PairGood ==
  ASSUME args \in Args, got \in Histories, program \in Pairs
  PROVE  GoodCode(Main) /\ GoodCode(Child1) /\ GoodCode(Child2)
<1>1. PairTables /\ Turns \in Nat
  BY PairCode
<1>2. /\ Forks = 1 /\ Length(Main) = Turns + 4 /\ Length(Child1) = Turns + 2 /\ Length(Child2) = 0
      /\ Closing(Main) = Turns + 3 /\ Closing(Child1) = Turns + 2
      /\ Mine(Main) = ParentEnds /\ Mine(Child1) = ChildEnds
  BY <1>1 DEF Forks, Length, Closing, Mine, Pairs, Main, Child1, Child2
<1>3. ParentEnds \cap ChildEnds = {} /\ W("p2c") \in ParentEnds /\ R("c2p") \in ParentEnds /\ R("p2c") \in ChildEnds /\ W("c2p") \in ChildEnds
  BY EndsDiffer DEF ParentEnds, ChildEnds
<1>4. \A f : /\ GoodCall(Main, 1, Fork(Child1, f)) /\ GoodCall(Main, 2, Close(ChildEnds))
             /\ GoodCall(Main, Turns + 3, Close(ParentEnds)) /\ GoodCall(Main, Turns + 4, Wait)
             /\ GoodCall(Child1, 1, Close(ParentEnds)) /\ GoodCall(Child1, Turns + 2, Close(ChildEnds))
  BY <1>1, <1>2, <1>3, Fields DEF GoodCall, Main, Child1, Child2
<1>5. ASSUME NEW k \in 1 .. Turns
      PROVE  GoodCall(Main, k + 2, Code[Main][k + 2]) /\ GoodCall(Child1, k + 1, Code[Child1][k + 1])
  <2>1. MainTurn(k, Code[Main][k + 2]) /\ ChildTurn(k, Code[Child1][k + 1])
    BY <1>1 DEF PairTables
  <2>2. Len(MainSays(k)) = Width /\ Len(ChildSays) = 1 /\ Width = (IF program = 3 THEN 2 ELSE 1)
    BY Said DEF Width
  <2>3. program = 3 /\ Down(k) => k = 1
    <3>1. program = 3 => Turns = 2 /\ Shift = 0
      BY DEF Turns, Shift
    <3> QED BY <3>1 DEF Down
  <2>4. GoodCall(Main, k + 2, Code[Main][k + 2])
    <3>1. CASE Down(k)
      <4>1. PICK f : Code[Main][k + 2] = Write("p2c", MainSays(k), f)
        BY <2>1, <3>1 DEF MainTurn
      <4> QED BY <1>1, <1>2, <1>3, <2>2, <2>3, <3>1, <4>1, Fields DEF GoodCall, Main, Child1
    <3>2. CASE ~Down(k)
      <4>1. PICK f : Code[Main][k + 2] = Read("c2p", 1, f)
        BY <2>1, <3>2 DEF MainTurn
      <4> QED BY <1>1, <1>2, <1>3, <4>1, Fields DEF GoodCall, Main, Child1
    <3> QED BY <3>1, <3>2
  <2>5. GoodCall(Child1, k + 1, Code[Child1][k + 1])
    <3>1. CASE Down(k)
      <4>1. PICK f : Code[Child1][k + 1] = Read("p2c", Width, f)
        BY <2>1, <3>1 DEF ChildTurn
      <4> QED BY <1>1, <1>2, <1>3, <2>2, <2>3, <3>1, <4>1, Fields DEF GoodCall, Main, Child1
    <3>2. CASE ~Down(k)
      <4>1. PICK f : Code[Child1][k + 1] = Write("c2p", ChildSays, f)
        BY <2>1, <3>2 DEF ChildTurn
      <4> QED BY <1>1, <1>2, <1>3, <2>2, <4>1, Fields DEF GoodCall, Main, Child1
    <3> QED BY <3>1, <3>2
  <2> QED BY <2>4, <2>5
<1>6. GoodCode(Main)
  <2>1. \A a \in 1 .. Turns + 4 : a = 1 \/ a = 2 \/ (a - 2 \in 1 .. Turns /\ a = (a - 2) + 2) \/ a = Turns + 3 \/ a = Turns + 4
    BY <1>1
  <2>2. \A a \in 1 .. Turns + 4 : GoodCall(Main, a, Code[Main][a])
    BY <1>1, <1>4, <1>5, <2>1 DEF PairTables
  <2> QED BY <1>1, <1>2, <2>2 DEF GoodCode, PairTables
<1>7. GoodCode(Child1)
  <2>1. \A a \in 1 .. Turns + 2 : a = 1 \/ (a - 1 \in 1 .. Turns /\ a = (a - 1) + 1) \/ a = Turns + 2
    BY <1>1
  <2>2. \A a \in 1 .. Turns + 2 : GoodCall(Child1, a, Code[Child1][a])
    BY <1>1, <1>4, <1>5, <2>1 DEF PairTables
  <2> QED BY <1>1, <1>2, <2>2 DEF GoodCode, PairTables, Main, Child1
<1>8. GoodCode(Child2)
  BY <1>1, <1>2 DEF GoodCode, PairTables, Main, Child2
<1> QED BY <1>6, <1>7, <1>8

\* All tables are good ones.
LEMMA AllGood == args \in Args /\ got \in Histories /\ program \in 1 .. 10 => \A p \in Process : GoodCode(p)
BY PairGood, ChildrenGood, RingGood, EofGood, HandshakeAssumption DEF Pairs, Main, Child1, Child2
\* The kernel's state and the places of the processes have their types; one byte of two is moved in handshake3.c only.
Names == {"none", "runs", "exit0", "exit1", "killed"}
Kernel ==
  /\ program \in 1 .. 10 /\ args \in Args /\ faults \in 0 .. MaxFaults
  /\ got \in Histories /\ pipe \in [Pipe -> Seq(Bytes)] /\ open \subseteq Process \X Ends
  /\ status \in [Process -> Names] /\ reaped \subseteq {p \in Process : HasEnded(p)}
  /\ pc \in [Process -> Nat] /\ \A p \in Process : pc[p] \in 1 .. Length(p) + 1
  /\ moved \in [Process -> {0, 1}] /\ \A p \in Process : moved[p] = 1 => program = 3 /\ <<p, pc[p]>> \in {<<Main, 3>>, <<Child1, 2>>}

\* The children that main has still to wait for. Nobody ends well before the end of its table, and main is not there before it has waited for all.
Left == {c \in Process \ {Main} : status[c] # "none"} \ reaped
Life ==
  /\ status[Main] # "none"
  /\ \A c \in {Child1, Child2} : status[c] # "none" => c <= Forks + 1 /\ c <= pc[Main]
  /\ \A p \in Process : status[p] = "exit0" => pc[p] = Length(p) + 1
  /\ pc[Main] = Length(Main) => Left # {Child1, Child2}
  /\ pc[Main] = Length(Main) + 1 => Left = {}
\* When nothing fails, every child that main has come past is made, and nobody is killed.
Born == faults = 0 => (\A c \in {Child1, Child2} : c <= Forks + 1 /\ c <= pc[Main] => status[c] # "none") /\ \A p \in Process : status[p] # "killed"

\* A running process that has not closed yet holds the ends it uses, and main those of the children that it has not forked yet.
Holding ==
  /\ \A p \in Process : Running(p) /\ pc[p] <= Closing(p) => \A e \in Mine(p) : <<p, e>> \in open
  /\ Running(Main) /\ pc[Main] <= Forks => \A q \in Process : \A e \in Mine(q) : <<Main, e>> \in open

\* Nobody has ended but well.
Whole == \A p \in Process : status[p] \in {"none", "runs", "exit0"}

\* handshake1.c to handshake3.c: the bytes that main sends, the answer, and how much of the former the child has read and main has written.
Requests == {1, 2, 3}
Data   == MainSays(1)
Answer == IF program = 2 THEN ACK ELSE b
Eaten  == IF pc[Child1] <= 1 THEN 0 ELSE IF pc[Child1] = 2 THEN moved[Child1] ELSE Width
Passed  == Eaten + Len(pipe["p2c"])
\* The child reads what main has written, in its order; the answer is in the pipe from the child's write to main's read; main has passed its read only after the child's write.
RequestInv ==
  /\ Passed <= Width /\ \A i \in 1 .. Len(pipe["p2c"]) : pipe["p2c"][i] = Data[Eaten + i]
  /\ pc[Main] <= 2 => Passed = 0
  /\ pc[Main] = 3 => Passed = moved[Main]
  /\ pc[Main] >= 5 => pc[Child1] >= 4
  /\ pipe["c2p"] = IF pc[Child1] >= 4 /\ pc[Main] <= 4 THEN <<Answer>> ELSE <<>>
  /\ Len(got) = Eaten + (IF pc[Main] >= 5 THEN 1 ELSE 0)
  /\ \A i \in 1 .. Eaten : got[i] = <<Child1, Data[i]>>
  /\ pc[Main] >= 5 => got[Width + 1] = <<Main, Answer>>

\* handshake8.c: what main has written so far, read or in the pipe, and what its place says.
Sum == Len(got) + Len(pipe["p2c"])
Due == IF pc[Main] <= 3 THEN 0 ELSE IF pc[Main] <= 6 THEN pc[Main] - 3 ELSE 3
\* The bytes are 1, 2, 3; one is missing only when the child, the only reader, is gone, and none is when nothing fails.
EofInv ==
  /\ \A i \in 1 .. Len(got) : got[i] = <<Child1, i>>
  /\ \A i \in 1 .. Len(pipe["p2c"]) : pipe["p2c"][i] = Len(got) + i
  /\ Sum = Due \/ (Sum < Due /\ ~Readable("p2c"))
  /\ faults = 0 => Sum = Due /\ (pc[Child1] >= 3 => Len(got) = 3) /\ Whole

\* handshake6.c: who writes and who reads a pipe, at which of its places, and whether it has done so.
Channels == {"p2c", "p2c2", "c2p", "c2p2"}
Giver(x)  == CASE x = "c2p" -> Child1 [] x = "c2p2" -> Child2 [] OTHER -> Main
Taker(x)  == CASE x = "p2c" -> Child1 [] x = "p2c2" -> Child2 [] OTHER -> Main
GiveAt(x) == CASE x = "p2c" -> 4 [] x = "p2c2" -> 5 [] OTHER -> 3
TakeAt(x) == CASE x = "c2p" -> 6 [] x = "c2p2" -> 7 [] OTHER -> 2
Given(x)  == pc[Giver(x)] > GiveAt(x)
Taken(x)  == pc[Taker(x)] > TakeAt(x)
\* The histories there can be when the children have read (read1, read2) and main has heard from them (heard1, heard2).
Story(read1, read2, heard1, heard2) ==
  LET x == <<Child1, b>>  y == <<Child2, b>>  z == <<Main, b>>
  IN  IF ~read1 THEN IF ~read2 THEN {<<>>} ELSE {<<y>>}
      ELSE IF ~read2 THEN IF ~heard1 THEN {<<x>>} ELSE {<<x, z>>}
      ELSE IF ~heard1 THEN {<<x, y>>, <<y, x>>}
      ELSE IF ~heard2 THEN {<<x, y, z>>, <<y, x, z>>, <<x, z, y>>}
      ELSE {<<x, y, z, z>>, <<y, x, z, z>>, <<x, z, y, z>>}
\* A pipe holds its byte between its write and its read, and the reads have come in an order that the places allow.
ChildrenInv ==
  /\ \A x \in Channels : (Taken(x) => Given(x)) /\ pipe[x] = IF Given(x) /\ ~Taken(x) THEN <<b>> ELSE <<>>
  /\ got \in Story(Taken("p2c"), Taken("p2c2"), Taken("c2p"), Taken("c2p2"))
  /\ Whole

\* The programs in which one byte is passed from hop to hop: who passes it to whom in the k-th hop, through which pipe, at which places, and what it then is.
Relays == {4, 5, 7, 9, 10}
Hops == IF program = 7 THEN 3 ELSE Turns
From(k) == IF program = 7 THEN k ELSE IF Down(k) THEN Main ELSE Child1
To(k)   == IF program = 7 THEN (IF k = 3 THEN Main ELSE k + 1) ELSE IF Down(k) THEN Child1 ELSE Main
Via(k)  == IF program = 7 THEN (CASE k = 1 -> "p_c1" [] k = 2 -> "c1_c2" [] OTHER -> "c2_p") ELSE IF Down(k) THEN "p2c" ELSE "c2p"
OutAt(k)  == IF program = 7 THEN (IF k = 1 THEN 4 ELSE 3) ELSE IF Down(k) THEN k + 2 ELSE k + 1
InAt(k)   == IF program = 7 THEN (IF k = 3 THEN 5 ELSE 2) ELSE IF Down(k) THEN k + 1 ELSE k + 2
Value(k) ==
  CASE program = 4 -> Byte(b + (k \div 2))
    [] program = 5 -> IF k = 1 THEN READY ELSE b
    [] program = 7 -> Byte(b + (IF k = 1 THEN 0 ELSE IF k = 2 THEN 10 ELSE 30))
    [] program = 9 -> IF k = 1 THEN b ELSE b % 2
    [] program = 10 -> IF k = 1 THEN b ELSE IF k = 2 THEN ACK1 ELSE ACK2
\* Whether the k-th hop is written, whether it is read, and the pipe that the next one has been written into.
Out(k) == pc[From(k)] > OutAt(k)
In(k) == pc[To(k)] > InAt(k)
OnTheWay(x) == Len(got) < Hops /\ Out(Len(got) + 1) /\ x = Via(Len(got) + 1)
\* The hops are written and read one after the other: the reads are those of the first hops, at most one byte is on its way, and the pipes are otherwise empty.
RelayInv ==
  /\ Len(got) <= Hops /\ \A i \in 1 .. Len(got) : got[i] = <<To(i), Value(i)>>
  /\ \A k \in 1 .. Hops : (In(k) <=> k <= Len(got)) /\ (k <= Len(got) => Out(k)) /\ (Out(k) => k <= Len(got) + 1)
  /\ \A x \in Pipe : pipe[x] = IF OnTheWay(x) THEN <<Value(Len(got) + 1)>> ELSE <<>>
  /\ Whole

\* The inductive invariant: the four families of programs, the first two whatever fails.
IInv == /\ Kernel /\ Life /\ Born /\ Holding
        /\ program \in Requests => RequestInv
        /\ program = 8 => EofInv
        /\ program = 6 /\ faults = 0 => ChildrenInv
        /\ program \in Relays /\ faults = 0 => RelayInv
-----------------------------------------------------------------------------
(* The calls of a state. *)

\* The call of a running process is a good one.
LEMMA Calling ==
  ASSUME Kernel, NEW p \in Process
  PROVE  /\ Len(Code[p]) = Length(p) /\ Length(p) \in Nat
         /\ pc[p] <= Length(p) => pc[p] \in 1 .. Length(p) /\ Call(p) \in Calls /\ GoodCall(p, pc[p], Call(p))
<1>1. GoodCode(p)
  BY AllGood DEF Kernel
<1>2. Len(Code[p]) = Length(p) /\ Length(p) \in Nat
  BY <1>1 DEF GoodCode
<1>3. pc[p] \in Nat /\ pc[p] >= 1
  BY <1>2 DEF Kernel
<1>4. ASSUME pc[p] <= Length(p)
      PROVE  pc[p] \in 1 .. Length(p) /\ Call(p) \in Calls /\ GoodCall(p, pc[p], Call(p))
  <2>1. pc[p] \in 1 .. Length(p)
    BY <1>2, <1>3, <1>4
  <2>2. Code[p][pc[p]] \in Calls
    BY <1>1, <2>1 DEF GoodCode
  <2> QED BY <1>1, <2>1, <2>2 DEF GoodCode, Call
<1> QED BY <1>2, <1>4

\* What there is to count.
LEMMA Counting ==
  ASSUME Kernel
  PROVE  /\ Forks \in {1, 2} /\ Turns \in Nat
         /\ \A p \in Process : Closing(p) \in Int /\ Closing(p) <= Length(p) /\ Mine(p) \subseteq Ends
         /\ Length(Main) >= 2 * Forks + 2 /\ Closing(Main) = Length(Main) - Forks
<1>1. Forks \in {1, 2}
  BY DEF Forks
<1>2. Turns \in Nat
  BY HandshakeAssumption DEF Turns, Count, Kernel
<1>3. \A p \in Process : Length(p) \in Nat
  BY Calling
<1>4. \A p \in Process : Closing(p) \in Int /\ Closing(p) <= Length(p)
  BY <1>1, <1>3 DEF Closing
<1>5. Length(Main) >= 2 * Forks + 2
  BY <1>2 DEF Length, Forks, Pairs, Main
<1>6. \A p \in Process : Mine(p) \subseteq Ends
  <2>1. \A x \in Pipe : R(x) \in Ends /\ W(x) \in Ends
    BY DEF R, W, Ends
  <2>2. CASE program \in Pairs
    BY <2>1, <2>2, HandshakeAssumption DEF Mine, ParentEnds, ChildEnds
  <2>3. CASE program = 6
    BY <2>1, <2>3, HandshakeAssumption DEF Mine, Pairs
  <2>4. CASE program = 7
    BY <2>1, <2>4, HandshakeAssumption DEF Mine, Pairs
  <2>5. CASE program = 8
    BY <2>1, <2>5, HandshakeAssumption DEF Mine, Pairs
  <2> QED BY <2>2, <2>3, <2>4, <2>5 DEF Kernel, Pairs
<1> QED BY <1>1, <1>2, <1>4, <1>5, <1>6 DEF Closing

\* A step leaves the tables' shape alone.
LEMMA Same ==
  ASSUME UNCHANGED <<program, args>>
  PROVE  /\ Forks' = Forks /\ Turns' = Turns /\ b' = b /\ Count' = Count /\ Shift' = Shift /\ Width' = Width
         /\ \A p : Length(p)' = Length(p) /\ Closing(p)' = Closing(p) /\ Mine(p)' = Mine(p)
<1>1. b' = b /\ Count' = Count /\ Shift' = Shift /\ Width' = Width /\ Forks' = Forks
  BY DEF b, Count, Shift, Width, Forks
<1>2. Turns' = Turns
  BY <1>1 DEF Turns
<1>3. \A p : Length(p)' = Length(p)
  BY <1>2 DEF Length
<1>4. \A p : Closing(p)' = Closing(p)
  BY <1>1, <1>3 DEF Closing
<1>5. \A p : Mine(p)' = Mine(p)
  BY DEF Mine
<1> QED BY <1>1, <1>2, <1>3, <1>4, <1>5

\* What a process does in a step: it closes, forks or waits, or goes on without a child.
Quiet(p) ==
  /\ Running(p) /\ pc[p] <= Length(p) /\ Return(p) /\ UNCHANGED <<pipe, got>>
  /\ \/ Call(p).op = "close" /\ close(p, Call(p).ends) /\ UNCHANGED faults
     \/ Call(p).op = "fork" /\ fork(p, Call(p).child) /\ UNCHANGED faults
     \/ Call(p).op = "fork" /\ UNCHANGED kernelVars /\ faults < MaxFaults /\ faults' = faults + 1
     \/ Call(p).op = "wait" /\ wait(p) /\ UNCHANGED faults
\* A process ends: by itself, killed, or because a fork fails.
Stops(p) ==
  /\ Running(p) /\ UNCHANGED <<pc, moved, got>>
  /\ \/ pc[p] = Length(p) + 1 /\ exit(p, "exit0") /\ UNCHANGED faults
     \/ exit(p, "killed") /\ faults < MaxFaults /\ faults' = faults + 1
     \/ pc[p] <= Length(p) /\ Call(p).op = "fork" /\ exit(p, "exit1") /\ faults < MaxFaults /\ faults' = faults + 1
\* It reads n bytes, all that it asks for or a part.
TakeSome(p, n) ==
  /\ Running(p) /\ pc[p] <= Length(p) /\ Call(p).op \in {"read", "drain"} /\ n \in Nat /\ n >= 1 /\ moved[p] + n <= Call(p).n
  /\ read(Call(p).pipe, n) /\ got' = got \o [k \in 1 .. n |-> <<p, pipe[Call(p).pipe][k]>>]
  /\ IF Call(p).op = "drain" THEN UNCHANGED <<pc, moved>>
     ELSE IF moved[p] + n = Call(p).n THEN Return(p)
     ELSE moved' = [moved EXCEPT ![p] = @ + n] /\ UNCHANGED pc
  /\ UNCHANGED faults
\* It writes n bytes, all that it has or a part.
PutSome(p, n) ==
  /\ Running(p) /\ pc[p] <= Length(p) /\ Call(p).op = "write" /\ n \in Nat /\ n >= 1 /\ moved[p] + n <= Len(Call(p).bytes)
  /\ write(Call(p).pipe, SubSeq(Call(p).bytes, moved[p] + 1, moved[p] + n))
  /\ IF moved[p] + n = Len(Call(p).bytes) THEN Return(p) ELSE moved' = [moved EXCEPT ![p] = @ + n] /\ UNCHANGED pc
  /\ UNCHANGED <<got, faults>>
\* It reads at the end of the file.
AtEof(p) ==
  /\ Running(p) /\ pc[p] <= Length(p) /\ Call(p).op \in {"read", "drain"} /\ Eof(Call(p).pipe) /\ Fail(p)
  /\ CASE Call(p).fail = "junk" -> \E x \in Bytes : got' = Append(got, <<p, x>>)
       [] Call(p).fail = "keep" -> got' = Append(got, <<p, Cur(p)>>)
       [] OTHER -> UNCHANGED got
  /\ UNCHANGED faults
\* It writes into a pipe that nobody reads.
AtBroken(p) ==
  /\ Running(p) /\ pc[p] <= Length(p) /\ Call(p).op = "write" /\ Broken(Call(p).pipe) /\ Fail(p)
  /\ UNCHANGED <<got, faults>>
\* It does one of these.
Moves(p) == Quiet(p) \/ Stops(p) \/ (\E n : TakeSome(p, n)) \/ (\E n : PutSome(p, n)) \/ AtEof(p) \/ AtBroken(p)

\* Every step is one of these, and of one process.
LEMMA Steps ==
  ASSUME Kernel, Next
  PROVE  UNCHANGED <<program, args>> /\ \E p \in Process : Moves(p)
<1>1. PICK p \in Process : Step(p) \/ Kill(p)
  BY DEF Next
<1>2. /\ Len(Code[p]) = Length(p) /\ pc[p] \in Int /\ pc[p] <= Length(p) + 1 /\ Length(p) \in Nat /\ moved[p] \in {0, 1}
      /\ pc[p] <= Length(p) => Call(p) \in Calls
  BY Calling DEF Kernel
<1>3. UNCHANGED <<program, args>>
  BY <1>1 DEF Step, Kill, DoClose, DoFork, ForkFails, ReadSome, ReadEof, WriteSome, WriteFails, DoWait, Exit, Keep
<1> SUFFICES Moves(p)
  BY <1>3
<1>4. \A op : At(p, op) => Running(p) /\ pc[p] <= Length(p) /\ Call(p).op = op
  BY <1>2 DEF At
<1>5. CASE DoClose(p)
  BY <1>4, <1>5 DEF DoClose, Quiet, Moves, close
<1>6. CASE DoFork(p)
  BY <1>4, <1>6 DEF DoFork, Quiet, Moves, fork
<1>7. CASE ForkFails(p)
  BY <1>4, <1>7 DEF ForkFails, Fail, Quiet, Stops, Moves, kernelVars
<1>8. CASE DoWait(p)
  BY <1>4, <1>8 DEF DoWait, Quiet, Moves, wait
<1>9. CASE Exit(p)
  <2>1. pc[p] = Length(p) + 1
    BY <1>2, <1>9 DEF Exit
  <2> QED BY <1>9, <2>1 DEF Exit, Stops, Moves
<1>10. CASE Kill(p)
  BY <1>10 DEF Kill, Stops, Moves
<1>11. CASE ReadSome(p)
  <2>1. PICK n \in 1 .. Call(p).n - moved[p] :
          /\ read(Call(p).pipe, n) /\ got' = got \o [k \in 1 .. n |-> <<p, pipe[Call(p).pipe][k]>>]
          /\ IF At(p, "drain") THEN UNCHANGED <<pc, moved>>
             ELSE IF moved[p] + n = Call(p).n THEN Return(p)
             ELSE moved' = [moved EXCEPT ![p] = @ + n] /\ UNCHANGED pc
    BY <1>11 DEF ReadSome
  <2>2. Running(p) /\ pc[p] <= Length(p) /\ Call(p).op \in {"read", "drain"} /\ (At(p, "drain") <=> Call(p).op = "drain")
    BY <1>2, <1>4, <1>11 DEF ReadSome, At
  <2>3. Call(p).n \in {1, 2}
    BY <1>2, <2>2, CallTypes
  <2>4. n \in Nat /\ n >= 1 /\ moved[p] + n <= Call(p).n
    BY <1>2, <2>3
  <2> QED BY <1>11, <2>1, <2>2, <2>4 DEF ReadSome, TakeSome, Moves
<1>12. CASE ReadEof(p)
  <2>1. Running(p) /\ pc[p] <= Length(p) /\ Call(p).op \in {"read", "drain"}
    BY <1>4, <1>12 DEF ReadEof
  <2>2. Junk \subseteq Bytes
    BY HandshakeAssumption DEF Bytes
  <2> QED BY <1>12, <2>1, <2>2 DEF ReadEof, AtEof, Moves
<1>13. CASE WriteSome(p)
  <2>1. PICK n \in 1 .. Len(Call(p).bytes) - moved[p] :
          /\ write(Call(p).pipe, SubSeq(Call(p).bytes, moved[p] + 1, moved[p] + n))
          /\ IF moved[p] + n = Len(Call(p).bytes) THEN Return(p)
             ELSE moved' = [moved EXCEPT ![p] = @ + n] /\ UNCHANGED pc
    BY <1>13 DEF WriteSome
  <2>2. Running(p) /\ pc[p] <= Length(p) /\ Call(p).op = "write"
    BY <1>4, <1>13 DEF WriteSome
  <2>3. Len(Call(p).bytes) \in {1, 2}
    BY <1>2, <2>2, CallTypes DEF Short
  <2>4. n \in Nat /\ n >= 1 /\ moved[p] + n <= Len(Call(p).bytes)
    BY <1>2, <2>3
  <2> QED BY <1>13, <2>1, <2>2, <2>4 DEF WriteSome, PutSome, Moves
<1>14. CASE WriteFails(p)
  BY <1>4, <1>14 DEF WriteFails, AtBroken, Moves
<1> QED BY <1>1, <1>3, <1>5, <1>6, <1>7, <1>8, <1>9, <1>10, <1>11, <1>12, <1>13, <1>14 DEF Step
-----------------------------------------------------------------------------
(* What reading and writing leave in the pipe and in the history. *)

\* One sequence behind another.
LEMMA Behind ==
  ASSUME NEW S, NEW s \in Seq(S), NEW t \in Seq(S), NEW n, n = Len(t), NEW v, v = s \o t
  PROVE  /\ v \in Seq(S) /\ Len(v) = Len(s) + n
         /\ \A i \in 1 .. Len(s) : v[i] = s[i]
         /\ \A k \in 1 .. n : v[Len(s) + k] = t[k]
<1>0. Len(s) \in Nat /\ Len(t) \in Nat
  OBVIOUS
<1>1. v \in Seq(S) /\ Len(v) = Len(s) + Len(t) /\ \A k \in 1 .. Len(s) + Len(t) : v[k] = IF k <= Len(s) THEN s[k] ELSE t[k - Len(s)]
  BY ConcatProperties
<1>2. \A k \in 1 .. Len(t) : Len(s) + k \in 1 .. Len(s) + Len(t) /\ ~(Len(s) + k <= Len(s)) /\ (Len(s) + k) - Len(s) = k
  BY <1>0
<1>3. \A k \in 1 .. Len(s) : k \in 1 .. Len(s) + Len(t) /\ k <= Len(s)
  BY <1>0
<1> QED BY <1>1, <1>2, <1>3

\* A part of a sequence.
LEMMA Part ==
  ASSUME NEW S, NEW s \in Seq(S), NEW m \in Nat, NEW n \in Nat, m <= n, n <= Len(s)
  PROVE  /\ SubSeq(s, m + 1, n) \in Seq(S) /\ Len(SubSeq(s, m + 1, n)) = n - m
         /\ \A i \in 1 .. n - m : SubSeq(s, m + 1, n)[i] = s[m + i]
<1> DEFINE v == SubSeq(s, m + 1, n)
<1>0. Len(s) \in Nat
  OBVIOUS
<1>1. v = [i \in 1 .. n - m |-> s[m + i]]
  <2>1. v = [i \in 1 .. (1 + n - (m + 1)) |-> s[(m + 1) + i - 1]]
    OBVIOUS
  <2>2. 1 + n - (m + 1) = n - m /\ \A i \in 1 .. n - m : (m + 1) + i - 1 = m + i
    OBVIOUS
  <2> QED BY <2>1, <2>2
<1>2. \A i \in 1 .. n - m : s[m + i] \in S
  <2>1. \A i \in 1 .. n - m : m + i \in 1 .. Len(s)
    BY <1>0
  <2> QED BY <2>1
<1> HIDE DEF v
<1>3. n - m \in Nat /\ v \in [1 .. n - m -> S] /\ \A i \in 1 .. n - m : v[i] = s[m + i]
  BY <1>1, <1>2
<1>4. v \in Seq(S) /\ Len(v) = n - m
  BY <1>3
<1> QED BY <1>3, <1>4 DEF v

\* Reading n bytes of x.
Took(p, n, x) ==
  /\ x \in Pipe /\ n \in {1, 2} /\ n <= Len(pipe[x])
  /\ pipe' \in [Pipe -> Seq(Bytes)] /\ Len(pipe'[x]) = Len(pipe[x]) - n
  /\ \A i \in 1 .. Len(pipe[x]) - n : pipe'[x][i] = pipe[x][n + i]
  /\ \A y \in Pipe \ {x} : pipe'[y] = pipe[y]
  /\ got' \in Histories /\ Len(got') = Len(got) + n
  /\ \A i \in 1 .. Len(got) : got'[i] = got[i]
  /\ \A k \in 1 .. n : got'[Len(got) + k] = <<p, pipe[x][k]>>
\* Such is a read.
LEMMA Takes ==
  ASSUME Kernel, NEW p \in Process, NEW n, TakeSome(p, n), NEW x, x = Call(p).pipe
  PROVE  Took(p, n, x)
<1>1. Call(p) \in Calls /\ moved[p] \in {0, 1}
  BY Calling DEF TakeSome, Kernel
<1>2. x \in Pipe /\ Call(p).n \in {1, 2}
  BY <1>1, CallTypes DEF TakeSome
<1>3. n \in Nat /\ n \in {1, 2} /\ n <= Len(pipe[x])
  BY <1>1, <1>2 DEF TakeSome, read
<1>4. pipe \in [Pipe -> Seq(Bytes)] /\ pipe[x] \in Seq(Bytes) /\ Len(pipe[x]) \in Nat
  BY <1>2 DEF Kernel
<1> DEFINE t == SubSeq(pipe[x], n + 1, Len(pipe[x]))
           u == [k \in 1 .. n |-> <<p, pipe[x][k]>>]
<1>5. t \in Seq(Bytes) /\ Len(t) = Len(pipe[x]) - n /\ \A i \in 1 .. Len(pipe[x]) - n : t[i] = pipe[x][n + i]
  BY <1>3, <1>4, Part
<1>6. pipe' = [pipe EXCEPT ![x] = t]
  BY DEF TakeSome, read
<1>7. u \in Seq(Process \X Bytes) /\ Len(u) = n /\ \A k \in 1 .. n : u[k] = <<p, pipe[x][k]>>
  <2>1. \A k \in 1 .. n : pipe[x][k] \in Bytes
    BY <1>3, <1>4
  <2>2. u \in [1 .. n -> Process \X Bytes] /\ \A k \in 1 .. n : u[k] = <<p, pipe[x][k]>>
    BY <2>1
  <2> HIDE DEF u
  <2> QED BY <1>3, <2>2
<1>8. got' = got \o u /\ got \in Seq(Process \X Bytes)
  BY DEF TakeSome, Kernel, Histories
<1> HIDE DEF t, u
<1>9. pipe' \in [Pipe -> Seq(Bytes)] /\ pipe'[x] = t /\ \A y \in Pipe \ {x} : pipe'[y] = pipe[y]
  BY <1>2, <1>4, <1>5, <1>6
<1>10. /\ got' \in Histories /\ Len(got') = Len(got) + n
       /\ \A i \in 1 .. Len(got) : got'[i] = got[i]
       /\ \A k \in 1 .. n : got'[Len(got) + k] = u[k]
  <2> DEFINE P == Process \X Bytes  h == got'
  <2>1. n = Len(u) /\ u \in Seq(P) /\ got \in Seq(P) /\ h = got \o u /\ Histories = Seq(P)
    BY <1>7, <1>8 DEF Histories
  <2> HIDE DEF P, h
  <2>2. /\ h \in Seq(P) /\ Len(h) = Len(got) + n
        /\ \A i \in 1 .. Len(got) : h[i] = got[i]
        /\ \A k \in 1 .. n : h[Len(got) + k] = u[k]
    BY <2>1, Behind
  <2> QED BY <2>1, <2>2 DEF h
<1> QED BY <1>2, <1>3, <1>5, <1>7, <1>9, <1>10 DEF Took

\* Writing n bytes into x.
Placed(p, n, x) ==
  /\ x \in Pipe /\ n \in {1, 2} /\ Readable(x) /\ Len(Call(p).bytes) \in {1, 2}
  /\ pipe' \in [Pipe -> Seq(Bytes)] /\ Len(pipe'[x]) = Len(pipe[x]) + n
  /\ \A i \in 1 .. Len(pipe[x]) : pipe'[x][i] = pipe[x][i]
  /\ \A k \in 1 .. n : pipe'[x][Len(pipe[x]) + k] = Call(p).bytes[moved[p] + k]
  /\ \A y \in Pipe \ {x} : pipe'[y] = pipe[y]
\* Such is a write.
LEMMA Puts ==
  ASSUME Kernel, NEW p \in Process, NEW n, PutSome(p, n), NEW x, x = Call(p).pipe
  PROVE  Placed(p, n, x)
<1> DEFINE bs == Call(p).bytes
<1>1. Call(p) \in Calls /\ moved[p] \in {0, 1} /\ moved[p] \in Nat
  BY Calling DEF PutSome, Kernel
<1>2. x \in Pipe /\ bs \in Short
  BY <1>1, CallTypes DEF PutSome
<1> HIDE DEF bs
<1>3. bs \in Seq(Bytes) /\ Len(bs) \in {1, 2} /\ Len(bs) \in Nat
  BY <1>2 DEF Short
<1>4. n \in Nat /\ n >= 1 /\ moved[p] + n <= Len(bs) /\ Readable(x)
  BY DEF PutSome, write, bs
<1>5. pipe \in [Pipe -> Seq(Bytes)] /\ pipe[x] \in Seq(Bytes) /\ Len(pipe[x]) \in Nat
  BY <1>2 DEF Kernel
<1> DEFINE m == moved[p] + n
           t == SubSeq(bs, moved[p] + 1, m)
<1>6. t \in Seq(Bytes) /\ Len(t) = n /\ \A i \in 1 .. n : t[i] = bs[moved[p] + i]
  <2>1. m \in Nat /\ moved[p] <= m /\ m <= Len(bs) /\ m - moved[p] = n
    BY <1>1, <1>3, <1>4
  <2> HIDE DEF m
  <2> QED BY <1>1, <1>3, <2>1, Part
<1>7. pipe' = [pipe EXCEPT ![x] = pipe[x] \o t]
  BY <1>2, <1>5 DEF PutSome, write, bs
<1> HIDE DEF t, m
<1> DEFINE v == pipe[x] \o t
<1>8. /\ v \in Seq(Bytes) /\ Len(v) = Len(pipe[x]) + n
      /\ \A i \in 1 .. Len(pipe[x]) : v[i] = pipe[x][i]
      /\ \A k \in 1 .. n : v[Len(pipe[x]) + k] = t[k]
  <2>1. n = Len(t) /\ t \in Seq(Bytes) /\ pipe[x] \in Seq(Bytes) /\ v = pipe[x] \o t
    BY <1>5, <1>6
  <2> HIDE DEF v
  <2> QED BY <2>1, Behind
<1> HIDE DEF v
<1>9. pipe' \in [Pipe -> Seq(Bytes)] /\ pipe'[x] = v /\ \A y \in Pipe \ {x} : pipe'[y] = pipe[y]
  BY <1>2, <1>5, <1>7, <1>8 DEF v
<1>10. n \in {1, 2}
  <2>1. \A l, y : l \in {1, 2} /\ y \in {0, 1} /\ y + n <= l => n \in {1, 2}
    BY <1>4
  <2> QED BY <1>1, <1>3, <1>4, <2>1
<1> QED BY <1>2, <1>3, <1>4, <1>6, <1>8, <1>9, <1>10 DEF bs, Placed
-----------------------------------------------------------------------------
(* The kernel's part of the invariant. *)

\* A step moves one process by one call at most.
LEMMA Places ==
  ASSUME Kernel, NEW p \in Process, Moves(p)
  PROVE  /\ pc' = pc \/ (pc' = [pc EXCEPT ![p] = @ + 1] /\ pc[p] <= Length(p))
         /\ faults' = faults \/ (faults' = faults + 1 /\ faults < MaxFaults)
         /\ moved' = moved \/ moved' = [moved EXCEPT ![p] = 0]
            \/ (pc' = pc /\ moved' = [moved EXCEPT ![p] = 1] /\ program = 3 /\ <<p, pc[p]>> \in {<<Main, 3>>, <<Child1, 2>>})
         /\ pc' # pc => moved' = [moved EXCEPT ![p] = 0]
         /\ Running(p)
<1>1. CASE Quiet(p)
  BY <1>1 DEF Quiet, Return
<1>2. CASE Stops(p)
  BY <1>2 DEF Stops
<1>3. CASE AtEof(p) \/ AtBroken(p)
  BY <1>3 DEF AtEof, AtBroken, Fail, Return
<1>4. CASE \E n : TakeSome(p, n)
  <2>1. PICK n : TakeSome(p, n)
    BY <1>4
  <2>2. Running(p) /\ faults' = faults /\ pc[p] <= Length(p)
    BY <2>1 DEF TakeSome
  <2>3. Call(p).op = "drain" \/ moved[p] + n = Call(p).n => UNCHANGED <<pc, moved>> \/ Return(p)
    BY <2>1 DEF TakeSome
  <2>4. ASSUME Call(p).op # "drain", moved[p] + n # Call(p).n
        PROVE  pc' = pc /\ moved' = [moved EXCEPT ![p] = 1] /\ program = 3 /\ <<p, pc[p]>> = <<Child1, 2>>
    <3>1. Call(p) \in Calls /\ GoodCall(p, pc[p], Call(p)) /\ Call(p).op = "read" /\ moved[p] \in {0, 1}
      BY <2>1, <2>2, <2>4, Calling DEF TakeSome, Kernel
    <3>2. Call(p).n \in {1, 2} /\ n \in {1, 2} /\ moved[p] + n <= Call(p).n
      <4>1. Took(p, n, Call(p).pipe)
        BY <2>1, Takes
      <4> QED BY <2>1, <3>1, <4>1, CallTypes DEF TakeSome, Took
    <3>3. \A l, m : l \in {1, 2} /\ m \in {0, 1} /\ n \in {1, 2} /\ m + n <= l /\ m + n # l => l = 2 /\ m + n = 1
      OBVIOUS
    <3>4. Call(p).n # 1 /\ moved[p] + n = 1
      BY <2>4, <3>1, <3>2, <3>3
    <3> QED BY <2>1, <2>4, <3>1, <3>4 DEF TakeSome, GoodCall
  <2> QED BY <2>2, <2>3, <2>4 DEF Return
<1>5. CASE \E n : PutSome(p, n)
  <2>1. PICK n : PutSome(p, n)
    BY <1>5
  <2>2. Running(p) /\ faults' = faults /\ pc[p] <= Length(p)
    BY <2>1 DEF PutSome
  <2>3. moved[p] + n = Len(Call(p).bytes) => Return(p)
    BY <2>1 DEF PutSome
  <2>4. ASSUME moved[p] + n # Len(Call(p).bytes)
        PROVE  pc' = pc /\ moved' = [moved EXCEPT ![p] = 1] /\ program = 3 /\ <<p, pc[p]>> = <<Main, 3>>
    <3>1. Call(p) \in Calls /\ GoodCall(p, pc[p], Call(p)) /\ Call(p).op = "write" /\ moved[p] \in {0, 1}
      BY <2>1, <2>2, Calling DEF PutSome, Kernel
    <3>2. Len(Call(p).bytes) \in {1, 2} /\ n \in {1, 2} /\ moved[p] + n <= Len(Call(p).bytes)
      <4>1. Placed(p, n, Call(p).pipe)
        BY <2>1, Puts
      <4> QED BY <2>1, <4>1 DEF PutSome, Placed
    <3>3. \A l, m : l \in {1, 2} /\ m \in {0, 1} /\ n \in {1, 2} /\ m + n <= l /\ m + n # l => l = 2 /\ m + n = 1
      OBVIOUS
    <3>4. Len(Call(p).bytes) # 1 /\ moved[p] + n = 1
      BY <2>4, <3>1, <3>2, <3>3
    <3> QED BY <2>1, <2>4, <3>1, <3>4 DEF PutSome, GoodCall
  <2> QED BY <2>2, <2>3, <2>4 DEF Return
<1> QED BY <1>1, <1>2, <1>3, <1>4, <1>5 DEF Moves

\* A fork is main's, and makes a child that has not run before.
LEMMA Forking ==
  ASSUME Kernel, Life, NEW p \in Process, Running(p), pc[p] <= Length(p), Call(p).op = "fork"
  PROVE  p = Main /\ pc[Main] <= Forks /\ Call(p).child = pc[Main] + 1 /\ Call(p).child \in {Child1, Child2} /\ status[Call(p).child] = "none"
<1>1. Call(p) \in Calls /\ GoodCall(p, pc[p], Call(p))
  BY Calling
<1>2. p = Main /\ pc[Main] <= Forks /\ Call(p).child = pc[Main] + 1 /\ Call(p).child \in {Child1, Child2}
  BY <1>1, CallTypes DEF GoodCall
<1>3. pc[Main] \in Nat
  BY <1>2 DEF Kernel
<1> QED BY <1>2, <1>3 DEF Life

\* The types hold at first.
LEMMA KernelAtFirst == Init => Kernel
<1> SUFFICES ASSUME Init
             PROVE  Kernel
  OBVIOUS
<1>1. program \in 1 .. 10 /\ args \in Args /\ got = <<>> /\ got \in Histories /\ faults = 0 /\ 0 \in 0 .. MaxFaults
  BY HandshakeAssumption DEF Init, Histories
<1>2. PipesOf \subseteq Pipe
  <2>1. TwoPipes \cup {"p2c2", "c2p2"} \subseteq Pipe /\ {"p_c1", "c1_c2", "c2_p"} \subseteq Pipe /\ {"p2c"} \subseteq Pipe /\ TwoPipes \subseteq Pipe
    BY HandshakeAssumption DEF TwoPipes
  <2> QED BY <2>1 DEF PipesOf
<1>3. open \subseteq Process \X Ends
  <2>1. \A x \in Pipe : R(x) \in Ends /\ W(x) \in Ends
    BY DEF R, W, Ends
  <2>2. Main \in Process
    BY HandshakeAssumption DEF Main
  <2> QED BY <1>2, <2>1, <2>2 DEF Init, KernelInit
<1>4. pipe \in [Pipe -> Seq(Bytes)] /\ status \in [Process -> Names] /\ reaped = {}
  BY DEF Init, KernelInit, Names
<1>5. pc \in [Process -> Nat] /\ moved \in [Process -> {0, 1}] /\ \A p \in Process : pc[p] = 1 /\ moved[p] = 0
  BY DEF Init
<1>6. \A p \in Process : Length(p) \in Nat
  <2>1. \A p \in Process : GoodCode(p)
    BY <1>1, AllGood
  <2> QED BY <2>1 DEF GoodCode
<1>7. \A p \in Process : pc[p] \in 1 .. Length(p) + 1
  BY <1>5, <1>6
<1> QED BY <1>1, <1>3, <1>4, <1>5, <1>7 DEF Kernel

\* A step keeps the types.
LEMMA KernelStep ==
  ASSUME Kernel, Life, Next
  PROVE  Kernel'
<1>1. UNCHANGED <<program, args>>
  BY Steps
<1>2. PICK p \in Process : Moves(p)
  BY Steps
<1>3. \A q : Length(q)' = Length(q)
  BY <1>1, Same
<1>4. pc' \in [Process -> Nat] /\ \A q \in Process : pc'[q] \in 1 .. Length(q) + 1
  <2>1. pc \in [Process -> Nat] /\ \A q \in Process : pc[q] \in 1 .. Length(q) + 1 /\ Length(q) \in Nat
    BY Calling DEF Kernel
  <2>2. CASE pc' = pc
    BY <2>1, <2>2
  <2>3. CASE pc' = [pc EXCEPT ![p] = @ + 1] /\ pc[p] <= Length(p)
    BY <2>1, <2>3
  <2> QED BY <1>2, <2>2, <2>3, Places
<1>5. /\ moved' \in [Process -> {0, 1}]
      /\ \A q \in Process : moved'[q] = 1 => program' = 3 /\ <<q, pc'[q]>> \in {<<Main, 3>>, <<Child1, 2>>}
  <2>1. moved \in [Process -> {0, 1}] /\ pc \in [Process -> Nat] /\ \A q \in Process : moved[q] = 1 => program = 3 /\ <<q, pc[q]>> \in {<<Main, 3>>, <<Child1, 2>>}
    BY DEF Kernel
  <2>2. CASE pc' = pc
    BY <1>1, <1>2, <2>1, <2>2, Places
  <2>3. CASE pc' # pc
    <3>1. moved' = [moved EXCEPT ![p] = 0] /\ pc' = [pc EXCEPT ![p] = @ + 1]
      BY <1>2, <2>3, Places
    <3> QED BY <1>1, <2>1, <3>1
  <2> QED BY <2>2, <2>3
<1>6. faults' \in 0 .. MaxFaults
  BY <1>2, Places, HandshakeAssumption DEF Kernel
<1>7. got' \in Histories
  <2>1. CASE \E n : TakeSome(p, n)
    BY <2>1, Takes DEF Took
  <2>2. CASE AtEof(p)
    <3>1. \A x \in Bytes : Append(got, <<p, x>>) \in Histories
      BY DEF Kernel, Histories
    <3>2. Cur(p) \in Bytes
      BY LocalBytes DEF Kernel
    <3> QED BY <2>2, <3>1, <3>2 DEF AtEof, Kernel
  <2>3. CASE Quiet(p) \/ Stops(p) \/ (\E n : PutSome(p, n)) \/ AtBroken(p)
    BY <2>3 DEF Quiet, Stops, PutSome, AtBroken, Kernel
  <2> QED BY <1>2, <2>1, <2>2, <2>3 DEF Moves
<1>8. pipe' \in [Pipe -> Seq(Bytes)]
  <2>1. CASE \E n : TakeSome(p, n)
    BY <2>1, Takes DEF Took
  <2>2. CASE \E n : PutSome(p, n)
    BY <2>2, Puts DEF Placed
  <2>3. CASE Quiet(p) \/ Stops(p) \/ AtEof(p) \/ AtBroken(p)
    <3>1. pipe' = pipe
      BY <2>3 DEF Quiet, Stops, AtEof, AtBroken, Fail, exit, kernelVars
    <3> QED BY <3>1 DEF Kernel
  <2> QED BY <1>2, <2>1, <2>2, <2>3 DEF Moves
<1>9. /\ open' \subseteq Process \X Ends /\ status' \in [Process -> Names]
      /\ reaped' \subseteq {q \in Process : status'[q] \in {"exit0", "exit1", "killed"}}
  <2>0. open \subseteq Process \X Ends /\ status \in [Process -> Names] /\ reaped \subseteq {q \in Process : status[q] \in {"exit0", "exit1", "killed"}}
    BY DEF Kernel, HasEnded
  <2>1. CASE UNCHANGED <<open, status, reaped>>
    BY <2>0, <2>1
  <2>2. ASSUME NEW how \in {"exit0", "exit1", "killed"}, exit(p, how)
        PROVE  <1>9!:
    BY <2>0, <2>2 DEF exit, Names
  <2>3. CASE Quiet(p) /\ Call(p).op = "fork" /\ fork(p, Call(p).child)
    <3>1. Call(p).child \in {Child1, Child2} /\ status[Call(p).child] = "none"
      BY <2>3, Forking DEF Quiet
    <3>2. Call(p).child \in Process /\ Call(p).child \notin reaped
      BY <2>0, <3>1, HandshakeAssumption DEF Child1, Child2
    <3>3. status' = [status EXCEPT ![Call(p).child] = "runs"] /\ open' = open \cup {<<Call(p).child, o[2]>> : o \in {x \in open : x[1] = p}} /\ reaped' = reaped
      BY <2>3 DEF fork
    <3>4. open' \subseteq Process \X Ends
      BY <2>0, <3>2, <3>3
    <3>5. status' \in [Process -> Names] /\ \A q \in Process \ {Call(p).child} : status'[q] = status[q]
      BY <2>0, <3>2, <3>3 DEF Names
    <3> QED BY <2>0, <3>2, <3>3, <3>4, <3>5
  <2>4. CASE Quiet(p) /\ wait(p)
    BY <2>0, <2>4 DEF wait, HasEnded
  <2>5. CASE Quiet(p) /\ close(p, Call(p).ends)
    BY <2>0, <2>5 DEF close
  <2>6. Quiet(p) => UNCHANGED <<open, status, reaped>> \/ (Call(p).op = "fork" /\ fork(p, Call(p).child)) \/ wait(p) \/ close(p, Call(p).ends)
    BY DEF Quiet, kernelVars
  <2>7. Stops(p) => \E how \in {"exit0", "exit1", "killed"} : exit(p, how)
    BY DEF Stops
  <2>8. AtEof(p) \/ AtBroken(p) => exit(p, "exit1") \/ UNCHANGED <<open, status, reaped>>
    BY DEF AtEof, AtBroken, Fail, kernelVars
  <2>9. (\E n : TakeSome(p, n)) \/ (\E n : PutSome(p, n)) => UNCHANGED <<open, status, reaped>>
    BY DEF TakeSome, PutSome, read, write
  <2> QED BY <1>2, <2>1, <2>2, <2>3, <2>4, <2>5, <2>6, <2>7, <2>8, <2>9 DEF Moves
<1> QED BY <1>1, <1>3, <1>4, <1>5, <1>6, <1>7, <1>8, <1>9 DEF Kernel, HasEnded
-----------------------------------------------------------------------------
(* Who runs, who has ended, and who is left to be waited for. *)

\* What a step does to the statuses.
LEMMA Statuses ==
  ASSUME Kernel, Life, NEW p \in Process, Moves(p)
  PROVE  \/ UNCHANGED <<status, open, reaped>>
         \/ /\ status' = [status EXCEPT ![pc[Main] + 1] = "runs"] /\ status[pc[Main] + 1] = "none" /\ pc[Main] + 1 \in {Child1, Child2}
            /\ p = Main /\ pc[Main] <= Forks /\ pc' = [pc EXCEPT ![Main] = @ + 1] /\ faults' = faults
            /\ open' = open \cup {<<pc[Main] + 1, o[2]>> : o \in {x \in open : x[1] = Main}} /\ UNCHANGED <<reaped, pipe, got>>
         \/ /\ p = Main /\ pc[Main] <= Length(Main) /\ wait(Main) /\ UNCHANGED <<status, open>> /\ pc' = [pc EXCEPT ![Main] = @ + 1]
         \/ /\ pc[p] <= Length(p) /\ Call(p).op = "close" /\ close(p, Call(p).ends) /\ pc' = [pc EXCEPT ![p] = @ + 1] /\ UNCHANGED <<status, reaped>>
         \/ /\ \E how \in {"exit0", "exit1", "killed"} : /\ exit(p, how) /\ (how = "exit0" => pc[p] = Length(p) + 1)
                                                         /\ (how = "killed" => faults' = faults + 1)
            /\ UNCHANGED <<pc, reaped>>
<1>0. Running(p)
  BY Places
<1>1. CASE Quiet(p)
  <2>1. CASE Call(p).op = "fork" /\ fork(p, Call(p).child) /\ UNCHANGED faults
    <3>1. p = Main /\ pc[Main] <= Forks /\ Call(p).child = pc[Main] + 1 /\ Call(p).child \in {Child1, Child2} /\ status[Call(p).child] = "none"
      BY <1>1, <2>1, Forking DEF Quiet
    <3> QED BY <1>1, <2>1, <3>1 DEF fork, Quiet, Return
  <2>2. CASE Call(p).op = "wait" /\ wait(p)
    <3>1. p = Main
      <4>1. GoodCall(p, pc[p], Call(p))
        BY <1>1, Calling DEF Quiet
      <4> QED BY <2>2, <4>1 DEF GoodCall
    <3> QED BY <1>1, <2>2, <3>1 DEF wait, Quiet, Return
  <2>3. CASE Call(p).op = "close" /\ close(p, Call(p).ends)
    BY <1>1, <2>3 DEF Quiet, Return, close
  <2> QED BY <1>1, <2>1, <2>2, <2>3 DEF Quiet, kernelVars
<1>2. CASE Stops(p)
  BY <1>2 DEF Stops, exit
<1>3. CASE AtEof(p) \/ AtBroken(p)
  BY <1>3 DEF AtEof, AtBroken, Fail, exit, kernelVars
<1>4. CASE (\E n : TakeSome(p, n)) \/ (\E n : PutSome(p, n))
  BY <1>4 DEF TakeSome, PutSome, read, write
<1> QED BY <1>1, <1>2, <1>3, <1>4 DEF Moves

\* What a step does to the children that are left: the last calls of main are waits.
LEMMA LeftStep ==
  ASSUME Kernel, Life, NEW p \in Process, Moves(p), pc[Main] > Forks
  PROVE  /\ pc'[Main] = pc[Main] => Left' = Left
         /\ Left' \subseteq Left
         /\ pc'[Main] # pc[Main] /\ pc[Main] > Length(Main) - Forks => Left = {} \/ \E c \in Left : Left' = Left \ {c}
<1>0. Running(p) /\ status \in [Process -> Names] /\ pc[Main] \in Nat /\ Forks \in Nat /\ pc \in [Process -> Nat] /\ Main \in Process
  <2>1. Main \in Process
    BY HandshakeAssumption DEF Main
  <2>2. Forks \in Nat
    BY DEF Forks
  <2> QED BY <2>1, <2>2, Places DEF Kernel
<1>1. ASSUME UNCHANGED <<status, open, reaped>> \/ close(p, Call(p).ends)
      PROVE  Left' = Left
  <2>1. status' = status /\ reaped' = reaped
    BY <1>1 DEF close
  <2>2. Left' = Left
    BY <2>1 DEF Left
  <2> QED BY <2>2
<1>2. CASE p = Main /\ pc[Main] <= Length(Main) /\ wait(Main) /\ UNCHANGED <<status, open>> /\ pc' = [pc EXCEPT ![Main] = @ + 1]
  BY <1>0, <1>2 DEF Left, wait
<1>3. ASSUME NEW how \in {"exit0", "exit1", "killed"}, exit(p, how), UNCHANGED reaped
      PROVE  Left' = Left
  <2>1. \A c \in Process : status'[c] # "none" <=> status[c] # "none"
    BY <1>0, <1>3 DEF exit, Running
  <2> QED BY <1>3, <2>1 DEF Left
<1>4. Left' \subseteq Left /\ (pc'[Main] = pc[Main] => Left' = Left)
  BY <1>0, <1>1, <1>2, <1>3, Statuses
<1>5. ASSUME pc'[Main] # pc[Main], pc[Main] > Length(Main) - Forks
      PROVE  Left = {} \/ \E c \in Left : Left' = Left \ {c}
  <2>1. p = Main /\ pc[p] <= Length(p)
    BY <1>0, <1>5, Places
  <2>2. Call(p).op = "wait"
    <3>1. GoodCall(p, pc[p], Call(p))
      BY <2>1, Calling
    <3> QED BY <1>5, <2>1, <3>1 DEF GoodCall
  <2>3. Quiet(p)
    BY <1>5, <2>2 DEF Moves, Stops, TakeSome, PutSome, AtEof, AtBroken
  <2>4. wait(p)
    BY <2>2, <2>3 DEF Quiet
  <2> QED BY <2>4 DEF wait, Left
<1> QED BY <1>4, <1>5

\* At first there is main only.
LEMMA LifeInit == Init => Life
<1> SUFFICES ASSUME Init
             PROVE  Life
  OBVIOUS
<1>1. Kernel
  BY KernelAtFirst
<1>2. pc[Main] = 1 /\ status = [p \in Process |-> IF p = Main THEN "runs" ELSE "none"] /\ Main \in Process
  BY HandshakeAssumption DEF Init, KernelInit, Main
<1>3. Length(Main) >= 4 /\ Length(Main) \in Nat
  BY <1>1, <1>2, Counting, Calling
<1>4. \A c \in {Child1, Child2} : status[c] = "none"
  BY <1>2, HandshakeAssumption DEF Child1, Child2, Main
<1>5. \A p \in Process : status[p] # "exit0"
  BY <1>2
<1>6. pc[Main] # Length(Main) /\ pc[Main] # Length(Main) + 1
  BY <1>2, <1>3
<1> QED BY <1>2, <1>4, <1>5, <1>6 DEF Life

\* A step preserves who may have ended, and who is left to be waited for.
LEMMA LifeStep ==
  ASSUME Kernel, Life, Next
  PROVE  Life'
<1>1. UNCHANGED <<program, args>> /\ Kernel'
  BY Steps, KernelStep
<1>2. PICK p \in Process : Moves(p)
  BY Steps
<1>3. Forks' = Forks /\ \A q : Length(q)' = Length(q)
  BY <1>1, Same
<1>4. /\ Main \in Process /\ Child1 \in Process /\ Child2 \in Process /\ Main = 1 /\ Child1 = 2 /\ Child2 = 3 /\ Process = {Main, Child1, Child2}
      /\ status \in [Process -> Names] /\ pc \in [Process -> Nat] /\ Forks \in {1, 2} /\ Length(Main) \in Nat /\ Length(Main) >= 2 * Forks + 2
      /\ Left \subseteq {Child1, Child2} /\ Running(p) /\ pc[Main] <= Length(Main) + 1
  <2>1. Main \in Process /\ Child1 \in Process /\ Child2 \in Process /\ Main = 1 /\ Child1 = 2 /\ Child2 = 3 /\ Process = {Main, Child1, Child2}
    BY HandshakeAssumption DEF Main, Child1, Child2
  <2>2. status \in [Process -> Names] /\ pc \in [Process -> Nat]
    BY DEF Kernel
  <2>3. Forks \in {1, 2} /\ Length(Main) \in Nat /\ Length(Main) >= 2 * Forks + 2 /\ pc[Main] <= Length(Main) + 1
    BY <2>1, Counting, Calling DEF Kernel
  <2> QED BY <1>2, <2>1, <2>2, <2>3, Places DEF Left
<1>5. pc'[Main] = pc[Main] \/ (p = Main /\ pc'[Main] = pc[Main] + 1 /\ pc[Main] <= Length(Main))
  BY <1>2, <1>4, Places
<1>6. \A q \in Process \ {p} : pc'[q] = pc[q]
  BY <1>2, <1>4, Places
<1>7. status'[Main] # "none"
  BY <1>2, <1>4, Statuses DEF Life, close, wait, exit
<1>8. ASSUME NEW c \in {Child1, Child2}, status'[c] # "none"
      PROVE  c <= Forks + 1 /\ c <= pc'[Main]
  <2>1. CASE status[c] # "none"
    BY <1>4, <1>5, <2>1 DEF Life
  <2>2. CASE status[c] = "none"
    <3>1. c # p
      BY <1>4, <2>2 DEF Running
    <3>2. /\ status' = [status EXCEPT ![pc[Main] + 1] = "runs"]
          /\ pc[Main] <= Forks /\ pc' = [pc EXCEPT ![Main] = @ + 1]
      BY <1>2, <1>4, <1>8, <2>2, <3>1, Statuses DEF close, wait, exit
    <3>3. c = pc[Main] + 1 /\ pc'[Main] = pc[Main] + 1
      BY <1>4, <1>8, <2>2, <3>2
    <3> QED BY <1>4, <3>2, <3>3
  <2> QED BY <2>1, <2>2
<1>9. ASSUME NEW q \in Process, status'[q] = "exit0"
      PROVE  pc'[q] = Length(q) + 1
  <2>1. CASE status[q] = "exit0"
    <3>1. q # p
      BY <1>4, <2>1 DEF Running
    <3> QED BY <1>6, <2>1, <3>1 DEF Life
  <2>2. CASE status[q] # "exit0"
    <3>1. /\ \E how \in {"exit0", "exit1", "killed"} : exit(p, how) /\ (how = "exit0" => pc[p] = Length(p) + 1)
          /\ UNCHANGED pc
      BY <1>2, <1>4, <1>9, <2>2, Statuses DEF close, wait
    <3>2. q = p /\ pc[p] = Length(p) + 1
      BY <1>4, <1>9, <2>2, <3>1 DEF exit
    <3> QED BY <3>1, <3>2
  <2> QED BY <2>1, <2>2
<1>10. (pc'[Main] = Length(Main) => Left' # {Child1, Child2}) /\ (pc'[Main] = Length(Main) + 1 => Left' = {})
  <2>1. CASE pc[Main] <= Forks
    BY <1>4, <1>5, <2>1
  <2>2. CASE pc[Main] > Forks /\ pc'[Main] = pc[Main]
    BY <1>2, <2>2, LeftStep DEF Life
  <2>3. CASE pc[Main] > Forks /\ pc'[Main] = pc[Main] + 1 /\ pc[Main] <= Length(Main)
    <3>1. Left' \subseteq Left
      BY <1>2, <2>3, LeftStep
    <3>2. pc[Main] > Length(Main) - Forks => Left = {} \/ \E c \in Left : Left' = Left \ {c}
      BY <1>2, <1>4, <2>3, LeftStep
    <3>3. CASE Forks = 1
      <4>1. Left \subseteq {Child1}
        BY <1>4, <3>3 DEF Life, Left
      <4>2. pc'[Main] = Length(Main) + 1 => Left' = {}
        BY <1>4, <2>3, <3>1, <3>2, <3>3, <4>1
      <4> QED BY <1>4, <3>1, <4>1, <4>2
    <3>4. CASE Forks = 2
      <4>1. pc'[Main] = Length(Main) => Left' # {Child1, Child2}
        BY <1>4, <2>3, <3>1, <3>2, <3>4
      <4>2. pc'[Main] = Length(Main) + 1 => Left' = {}
        <5>1. pc'[Main] = Length(Main) + 1 => Left # {Child1, Child2}
          BY <1>4, <2>3 DEF Life
        <5>2. ASSUME NEW c \in Left, Left # {Child1, Child2}
              PROVE  Left \ {c} = {}
          BY <1>4, <5>2
        <5> QED BY <1>4, <2>3, <3>1, <3>2, <3>4, <5>1, <5>2
      <4> QED BY <4>1, <4>2
    <3> QED BY <1>4, <3>3, <3>4
  <2> QED BY <1>4, <1>5, <2>1, <2>2, <2>3
<1> QED BY <1>1, <1>3, <1>7, <1>8, <1>9, <1>10 DEF Life
-----------------------------------------------------------------------------
(* Which ends are open. *)

\* The processes.
LEMMA TheThree ==
  ASSUME Kernel
  PROVE  /\ Main \in Process /\ Child1 \in Process /\ Child2 \in Process /\ Main = 1 /\ Child1 = 2 /\ Child2 = 3 /\ Process = {Main, Child1, Child2}
         /\ status \in [Process -> Names] /\ pc \in [Process -> Nat] /\ moved \in [Process -> {0, 1}] /\ faults \in Nat
<1>1. Main \in Process /\ Child1 \in Process /\ Child2 \in Process /\ Main = 1 /\ Child1 = 2 /\ Child2 = 3 /\ Process = {Main, Child1, Child2}
  BY HandshakeAssumption DEF Main, Child1, Child2
<1>2. faults \in Nat
  BY HandshakeAssumption DEF Kernel
<1> QED BY <1>1, <1>2 DEF Kernel

\* At first nobody is killed.
LEMMA BornInit == Init => Born
<1> SUFFICES ASSUME Init
             PROVE  Born
  OBVIOUS
<1>1. Kernel
  BY KernelAtFirst
<1>2. pc[Main] = 1 /\ status = [p \in Process |-> IF p = Main THEN "runs" ELSE "none"] /\ Main \in Process
  BY HandshakeAssumption DEF Init, KernelInit, Main
<1> QED BY <1>1, <1>2, TheThree DEF Born

\* A step without a fault makes the child of its fork and kills nobody.
LEMMA BornStep ==
  ASSUME Kernel, Life, Born, Next
  PROVE  Born'
<1>1. UNCHANGED <<program, args>>
  BY Steps
<1>2. PICK p \in Process : Moves(p)
  BY Steps
<1>3. Forks' = Forks /\ Forks \in {1, 2}
  BY <1>1, Same, Counting
<1> SUFFICES ASSUME faults' = 0
             PROVE  /\ \A c \in {Child1, Child2} : c <= Forks + 1 /\ c <= pc'[Main] => status'[c] # "none"
                    /\ \A q \in Process : status'[q] # "killed"
  BY <1>3 DEF Born
<1>4. faults' = faults /\ faults = 0
  BY <1>2, Places, TheThree
<1>5. ASSUME NEW q \in Process
      PROVE  status'[q] # "killed"
  BY <1>2, <1>4, Statuses, TheThree DEF Born, close, wait, exit
<1>6. ASSUME NEW c \in {Child1, Child2}, c <= Forks + 1, c <= pc'[Main]
      PROVE  status'[c] # "none"
  <2>1. CASE c <= pc[Main]
    <3>1. status[c] # "none"
      BY <1>4, <1>6, <2>1 DEF Born
    <3> QED BY <1>2, <3>1, Statuses, TheThree DEF close, wait, exit
  <2>2. CASE ~(c <= pc[Main])
    <3>1. p = Main /\ pc'[Main] = pc[Main] + 1 /\ pc[Main] <= Length(Main) /\ pc' # pc
      BY <1>2, <1>6, <2>2, Places, TheThree
    <3>2. pc[Main] <= Forks /\ c = pc[Main] + 1
      BY <1>3, <1>6, <2>2, <3>1, TheThree
    <3>3. Call(Main).op = "fork" /\ Call(Main).child = pc[Main] + 1
      <4>1. GoodCall(Main, pc[Main], Call(Main))
        BY <3>1, Calling, TheThree
      <4> QED BY <3>2, <4>1 DEF GoodCall
    <3>4. Quiet(Main)
      BY <1>2, <3>1, <3>3 DEF Moves, Stops, TakeSome, PutSome, AtEof, AtBroken
    <3>5. fork(Main, c)
      BY <1>4, <3>2, <3>3, <3>4 DEF Quiet
    <3> QED BY <1>6, <3>5, TheThree DEF fork
  <2> QED BY <2>1, <2>2
<1> QED BY <1>5, <1>6

\* Once the children are made, nobody gets an end any more.
LEMMA NoNewEnds ==
  ASSUME Kernel, Life, NEW p \in Process, Moves(p), pc[Main] > Forks
  PROVE  /\ open' \subseteq open
         /\ \A x : Readable(x)' => Readable(x)
         /\ \A x : Writable(x)' => Writable(x)
<1>1. pc[Main] \in Nat /\ Forks \in {1, 2}
  BY TheThree, Counting
<1>2. open' \subseteq open
  BY <1>1, Statuses DEF close, wait, exit
<1> QED BY <1>2 DEF Readable, Writable

\* At first main holds every end of the program.
LEMMA HoldingInit == Init => Holding
<1> SUFFICES ASSUME Init
             PROVE  Holding
  OBVIOUS
<1>1. Kernel
  BY KernelAtFirst
<1>2. status = [p \in Process |-> IF p = Main THEN "runs" ELSE "none"] /\ open = {Main} \X ({R(x) : x \in PipesOf} \cup {W(x) : x \in PipesOf})
  BY DEF Init, KernelInit
<1>3. ASSUME NEW q \in Process
      PROVE  Mine(q) \subseteq {R(x) : x \in PipesOf} \cup {W(x) : x \in PipesOf}
  <2>1. CASE program \in Pairs
    <3>1. PipesOf = TwoPipes
      BY <2>1 DEF PipesOf, Pairs
    <3>2. Mine(q) \subseteq {W("p2c"), R("c2p"), R("p2c"), W("c2p")}
      BY <2>1 DEF Mine, ParentEnds, ChildEnds, Pairs
    <3> QED BY <3>1, <3>2 DEF TwoPipes
  <2>2. CASE program = 6
    <3>1. PipesOf = TwoPipes \cup {"p2c2", "c2p2"}
      BY <2>2 DEF PipesOf
    <3> QED BY <2>2, <3>1 DEF Mine, TwoPipes, Pairs
  <2>3. CASE program = 7
    <3>1. PipesOf = {"p_c1", "c1_c2", "c2_p"}
      BY <2>3 DEF PipesOf
    <3> QED BY <2>3, <3>1 DEF Mine, Pairs
  <2>4. CASE program = 8
    <3>1. PipesOf = {"p2c"}
      BY <2>4 DEF PipesOf
    <3> QED BY <2>4, <3>1 DEF Mine, Pairs
  <2> QED BY <1>1, <2>1, <2>2, <2>3, <2>4 DEF Kernel, Pairs
<1>4. \A q \in Process : \A e \in Mine(q) : <<Main, e>> \in open
  BY <1>2, <1>3
<1>5. \A q \in Process : Running(q) => q = Main
  BY <1>2 DEF Running
<1> QED BY <1>4, <1>5 DEF Holding

\* A step closes no end that its process uses later on, and a fork hands all ends down.
LEMMA HoldingStep ==
  ASSUME Kernel, Life, Holding, Next
  PROVE  Holding'
<1>1. UNCHANGED <<program, args>>
  BY Steps
<1>2. PICK p \in Process : Moves(p)
  BY Steps
<1>3. Forks' = Forks /\ Forks \in {1, 2} /\ \A q : Closing(q)' = Closing(q) /\ Mine(q)' = Mine(q)
  BY <1>1, Same, Counting
<1>4. Running(p) /\ \A q \in Process : Closing(q) \in Int /\ pc[q] \in Nat /\ pc'[q] \in Nat /\ pc[q] <= pc'[q]
  BY <1>2, Places, Counting, TheThree
<1>5. ASSUME NEW q \in Process, status'[q] = "runs", pc'[q] <= Closing(q), NEW e \in Mine(q)
      PROVE  <<q, e>> \in open'
  <2>1. CASE Running(q)
    <3>1. <<q, e>> \in open
      BY <1>4, <1>5, <2>1 DEF Holding
    <3>2. ASSUME pc[p] <= Length(p), Call(p).op = "close", close(p, Call(p).ends), pc' = [pc EXCEPT ![p] = @ + 1]
          PROVE  <<q, e>> \in open'
      <4>1. CASE p = q
        <5>1. pc[p] # Closing(p)
          BY <1>4, <1>5, <3>2, <4>1, TheThree
        <5>2. GoodCall(p, pc[p], Call(p))
          BY <3>2, Calling
        <5>3. e \notin Call(p).ends
          BY <1>5, <3>2, <4>1, <5>1, <5>2 DEF GoodCall
        <5> QED BY <3>1, <3>2, <5>3 DEF close
      <4>2. CASE p # q
        BY <3>1, <3>2, <4>2 DEF close
      <4> QED BY <4>1, <4>2
    <3>3. ASSUME NEW how \in {"exit0", "exit1", "killed"}, exit(p, how)
          PROVE  <<q, e>> \in open'
      <4>1. p # q
        BY <1>5, <3>3, TheThree DEF exit
      <4> QED BY <3>1, <3>3, <4>1 DEF exit
    <3> QED BY <1>2, <3>1, <3>2, <3>3, Statuses
  <2>2. CASE ~Running(q)
    <3>1. /\ q = pc[Main] + 1 /\ p = Main /\ pc[Main] <= Forks
          /\ open' = open \cup {<<pc[Main] + 1, o[2]>> : o \in {x \in open : x[1] = Main}}
      BY <1>2, <1>5, <2>2, Statuses, TheThree DEF Running, close, wait, exit
    <3>2. <<Main, e>> \in open
      BY <1>4, <1>5, <3>1 DEF Holding
    <3> QED BY <3>1, <3>2
  <2> QED BY <2>1, <2>2
<1>6. ASSUME status'[Main] = "runs", pc'[Main] <= Forks, NEW q \in Process, NEW e \in Mine(q)
      PROVE  <<Main, e>> \in open'
  <2>1. pc[Main] <= Forks
    BY <1>3, <1>4, <1>6, TheThree
  <2>2. Running(Main)
    BY <1>2, <1>6, Statuses, TheThree DEF Running, close, wait, exit
  <2>3. <<Main, e>> \in open
    BY <2>1, <2>2 DEF Holding
  <2>4. ASSUME pc[p] <= Length(p), Call(p).op = "close", close(p, Call(p).ends)
        PROVE  <<Main, e>> \in open'
    <3>1. GoodCall(p, pc[p], Call(p))
      BY <2>4, Calling
    <3>2. p # Main
      BY <1>3, <1>4, <2>1, <2>4, <3>1, TheThree DEF GoodCall
    <3> QED BY <2>3, <2>4, <3>2 DEF close
  <2>5. ASSUME NEW how \in {"exit0", "exit1", "killed"}, exit(p, how)
        PROVE  <<Main, e>> \in open'
    <3>1. p # Main
      BY <1>6, <2>5, TheThree DEF exit
    <3> QED BY <2>3, <2>5, <3>1 DEF exit
  <2> QED BY <1>2, <2>3, <2>4, <2>5, Statuses
<1> QED BY <1>3, <1>5, <1>6 DEF Holding, Running
-----------------------------------------------------------------------------
(* The programs that pass a byte on, from hop to hop, when nothing fails. *)

\* Parity of the turns.
LEMMA Parity ==
  ASSUME NEW k \in Nat
  PROVE  (Down(k + 1) <=> ~Down(k)) /\ Down(k) \in BOOLEAN
BY DEF Down, Shift

\* The places of a hop lie before the closing of its two processes, which use its pipe.
LEMMA Routes ==
  ASSUME Kernel, program \in Relays, NEW k \in 1 .. Hops
  PROVE  /\ Hops \in Nat /\ From(k) \in Process /\ To(k) \in Process /\ From(k) # To(k) /\ Via(k) \in Pipe /\ k \in Nat
         /\ OutAt(k) \in Nat /\ OutAt(k) >= 1 /\ OutAt(k) < Closing(From(k)) /\ (From(k) = Main => OutAt(k) > Forks)
         /\ InAt(k) \in Nat /\ InAt(k) >= 1 /\ InAt(k) < Closing(To(k)) /\ (To(k) = Main => InAt(k) > Forks)
         /\ From(k) <= Forks + 1 /\ To(k) <= Forks + 1
         /\ W(Via(k)) \in Mine(From(k)) /\ R(Via(k)) \in Mine(To(k))
<1>1. CASE program = 7
  <2>1. Hops = 3 /\ k \in {1, 2, 3} /\ Forks = 2 /\ Length(Main) = 8 /\ Length(Child1) = 4 /\ Length(Child2) = 4
    BY <1>1 DEF Hops, Forks, Length, Pairs, Main, Child1, Child2
  <2>2. Closing(Main) = 6 /\ Closing(Child1) = 4 /\ Closing(Child2) = 4
    BY <2>1 DEF Closing, Main, Child1, Child2
  <2>3. Mine(Main) = {W("p_c1"), R("c2_p")} /\ Mine(Child1) = {R("p_c1"), W("c1_c2")} /\ Mine(Child2) = {R("c1_c2"), W("c2_p")}
    BY <1>1 DEF Mine, Pairs, Main, Child1, Child2
  <2>4. {"p_c1", "c1_c2", "c2_p"} \subseteq Pipe /\ Process = 1 .. 3
    BY HandshakeAssumption
  <2>5. CASE k = 1
    BY <1>1, <2>1, <2>2, <2>3, <2>4, <2>5 DEF From, To, Via, OutAt, InAt, Main, Child1, Child2
  <2>6. CASE k = 2
    BY <1>1, <2>1, <2>2, <2>3, <2>4, <2>6 DEF From, To, Via, OutAt, InAt, Main, Child1, Child2
  <2>7. CASE k = 3
    BY <1>1, <2>1, <2>2, <2>3, <2>4, <2>7 DEF From, To, Via, OutAt, InAt, Main, Child1, Child2
  <2> QED BY <2>1, <2>5, <2>6, <2>7
<1>2. CASE program # 7
  <2>1. program \in Pairs /\ Turns \in Nat /\ Hops = Turns /\ Forks = 1 /\ Length(Main) = Turns + 4 /\ Length(Child1) = Turns + 2
    BY <1>2, Counting DEF Hops, Forks, Length, Pairs, Relays, Main, Child1
  <2>2. Closing(Main) = Turns + 3 /\ Closing(Child1) = Turns + 2
    BY <2>1 DEF Closing, Main, Child1
  <2>3. Mine(Main) = ParentEnds /\ Mine(Child1) = ChildEnds
    BY <2>1 DEF Mine, Pairs, Main, Child1
  <2>4. {"p2c", "c2p"} \subseteq Pipe /\ Process = 1 .. 3
    BY HandshakeAssumption
  <2>5. k \in Nat /\ k >= 1 /\ k <= Turns
    BY <2>1
  <2>6. CASE Down(k)
    BY <1>2, <2>1, <2>2, <2>3, <2>4, <2>5, <2>6 DEF From, To, Via, OutAt, InAt, Main, Child1, ParentEnds, ChildEnds
  <2>7. CASE ~Down(k)
    BY <1>2, <2>1, <2>2, <2>3, <2>4, <2>5, <2>7 DEF From, To, Via, OutAt, InAt, Main, Child1, ParentEnds, ChildEnds
  <2> QED BY <2>6, <2>7
<1> QED BY <1>1, <1>2

\* The hops follow one another.
LEMMA Order ==
  ASSUME Kernel, program \in Relays, NEW j \in 1 .. Hops, NEW k \in 1 .. Hops
  PROVE  /\ j < k /\ To(j) = To(k) => InAt(j) < InAt(k)
         /\ j < k /\ From(j) = From(k) => OutAt(j) < OutAt(k)
         /\ j < k /\ To(j) = From(k) => InAt(j) < OutAt(k)
         /\ j < k /\ From(j) = To(k) => OutAt(j) < InAt(k)
         /\ Via(j) = Via(k) => To(j) = To(k) /\ From(j) = From(k)
         /\ k = j + 1 => To(j) = From(k)
<1>1. CASE program = 7
  <2>1. j \in {1, 2, 3} /\ k \in {1, 2, 3}
    BY <1>1 DEF Hops
  <2> QED BY <1>1, <2>1 DEF From, To, Via, OutAt, InAt, Main
<1>2. CASE program # 7
  <2>1. Hops = Turns /\ Turns \in Nat /\ j \in Nat /\ k \in Nat
    BY <1>2, Counting DEF Hops
  <2>2. k = j + 1 => (Down(k) <=> ~Down(j))
    BY <2>1, Parity
  <2> QED BY <1>2, <2>1, <2>2 DEF From, To, Via, OutAt, InAt, Main, Child1
<1> QED BY <1>1, <1>2

\* What stands at the places of a hop.
LEMMA Stands ==
  ASSUME Kernel, program \in Relays, NEW k \in 1 .. Hops
  PROVE  /\ Code[From(k)][OutAt(k)].op = "write" /\ Code[From(k)][OutAt(k)].pipe = Via(k) /\ Len(Code[From(k)][OutAt(k)].bytes) = 1
         /\ Code[To(k)][InAt(k)].op = "read" /\ Code[To(k)][InAt(k)].pipe = Via(k) /\ Code[To(k)][InAt(k)].n = 1
<1>0. args \in Args /\ got \in Histories
  BY DEF Kernel
<1>1. CASE program = 7
  <2>1. k \in {1, 2, 3}
    BY <1>1 DEF Hops
  <2>2. /\ Code[Main][4] = Write("p_c1", <<b>>, "ignore") /\ Code[Main][5] = Read("c2_p", 1, "junk")
        /\ Code[Child1][2] = Read("p_c1", 1, "junk") /\ Code[Child1][3] = Write("c1_c2", <<Byte(Cur(Child1) + 10)>>, "ignore")
        /\ Code[Child2][2] = Read("c1_c2", 1, "junk") /\ Code[Child2][3] = Write("c2_p", <<Byte(Cur(Child2) + 20)>>, "ignore")
    BY <1>1, RingCode
  <2>3. \A y : Len(<<y>>) = 1
    OBVIOUS
  <2>4. CASE k = 1
    BY <1>1, <2>2, <2>3, <2>4, Fields DEF From, To, Via, OutAt, InAt, Main, Child1, Child2
  <2>5. CASE k = 2
    BY <1>1, <2>2, <2>3, <2>5, Fields DEF From, To, Via, OutAt, InAt, Main, Child1, Child2
  <2>6. CASE k = 3
    BY <1>1, <2>2, <2>3, <2>6, Fields DEF From, To, Via, OutAt, InAt, Main, Child1, Child2
  <2> QED BY <2>1, <2>4, <2>5, <2>6
<1>2. CASE program # 7
  <2>1. program \in Pairs /\ PairTables /\ Hops = Turns /\ Width = 1
    BY <1>0, <1>2, PairCode DEF Relays, Pairs, Hops, Width
  <2>2. MainTurn(k, Code[Main][k + 2]) /\ ChildTurn(k, Code[Child1][k + 1])
    BY <2>1 DEF PairTables
  <2>3. Len(MainSays(k)) = 1 /\ Len(ChildSays) = 1
    BY <1>0, <2>1, Said
  <2>4. CASE Down(k)
    <3>1. PICK f : Code[Main][k + 2] = Write("p2c", MainSays(k), f)
      BY <2>2, <2>4 DEF MainTurn
    <3>2. PICK g : Code[Child1][k + 1] = Read("p2c", Width, g)
      BY <2>2, <2>4 DEF ChildTurn
    <3> QED BY <1>2, <2>1, <2>3, <2>4, <3>1, <3>2, Fields DEF From, To, Via, OutAt, InAt
  <2>5. CASE ~Down(k)
    <3>1. PICK f : Code[Main][k + 2] = Read("c2p", 1, f)
      BY <2>2, <2>5 DEF MainTurn
    <3>2. PICK g : Code[Child1][k + 1] = Write("c2p", ChildSays, g)
      BY <2>2, <2>5 DEF ChildTurn
    <3> QED BY <1>2, <2>1, <2>3, <2>5, <3>1, <3>2, Fields DEF From, To, Via, OutAt, InAt
  <2> QED BY <2>4, <2>5
<1> QED BY <1>1, <1>2

\* Every read and every write belongs to a hop.
LEMMA Belongs ==
  ASSUME Kernel, program \in Relays, NEW p \in Process, NEW a \in 1 .. Length(p)
  PROVE  /\ Code[p][a].op # "drain"
         /\ Code[p][a].op = "read" => \E k \in 1 .. Hops : p = To(k) /\ a = InAt(k)
         /\ Code[p][a].op = "write" => \E k \in 1 .. Hops : p = From(k) /\ a = OutAt(k)
<1>0. args \in Args /\ got \in Histories /\ Process = {Main, Child1, Child2} /\ Main = 1 /\ Child1 = 2 /\ Child2 = 3
  BY TheThree DEF Kernel
<1>1. CASE program = 7
  <2>1. 1 .. Hops = {1, 2, 3}
    BY <1>1 DEF Hops
  <2>2. /\ From(1) = Main /\ OutAt(1) = 4 /\ To(1) = Child1 /\ InAt(1) = 2 /\ From(2) = Child1 /\ OutAt(2) = 3
        /\ To(2) = Child2 /\ InAt(2) = 2 /\ From(3) = Child2 /\ OutAt(3) = 3 /\ To(3) = Main /\ InAt(3) = 5
    BY <1>0, <1>1 DEF From, To, OutAt, InAt
  <2>3. CASE p = Main
    <3>1. a \in 1 .. 8
      BY <1>1, <2>3 DEF Length, Pairs
    <3>2. Code[p][a].op = <<"fork", "fork", "close", "write", "read", "close", "wait", "wait">>[a]
      BY <1>1, <2>3, <3>1, RingCode, Fields
    <3>3. Code[p][a].op # "drain" /\ (Code[p][a].op = "read" => a = 5) /\ (Code[p][a].op = "write" => a = 4)
      BY <3>1, <3>2
    <3> QED BY <2>1, <2>2, <2>3, <3>3
  <2>4. CASE p # Main
    <3>1. a \in 1 .. 4
      BY <1>0, <1>1, <2>4 DEF Length, Pairs
    <3>2. Code[p][a].op = <<"close", "read", "write", "close">>[a]
      BY <1>0, <1>1, <2>4, <3>1, RingCode, Fields
    <3>3. Code[p][a].op # "drain" /\ (Code[p][a].op = "read" => a = 2) /\ (Code[p][a].op = "write" => a = 3)
      BY <3>1, <3>2
    <3> QED BY <1>0, <2>1, <2>2, <2>4, <3>3
  <2> QED BY <2>3, <2>4
<1>2. CASE program # 7
  <2>1. program \in Pairs /\ PairTables /\ Hops = Turns /\ Turns \in Nat
    BY <1>0, <1>2, PairCode DEF Relays, Pairs, Hops
  <2>2. Length(Main) = Turns + 4 /\ Length(Child1) = Turns + 2 /\ Length(Child2) = 0
    BY <1>0, <2>1 DEF Length
  <2>3. CASE p = Main
    <3>1. a \in Nat /\ a >= 1 /\ a <= Turns + 4
      BY <2>1, <2>2, <2>3
    <3>2. CASE a = 1 \/ a = 2 \/ a = Turns + 3 \/ a = Turns + 4
      BY <2>1, <2>3, <3>2, Fields DEF PairTables
    <3>3. CASE a >= 3 /\ a <= Turns + 2
      <4>1. PICK k \in 1 .. Turns : a = k + 2
        <5>1. a - 2 \in 1 .. Turns /\ a = (a - 2) + 2
          BY <2>1, <3>1, <3>3
        <5> QED BY <5>1
      <4>2. MainTurn(k, Code[p][a])
        BY <2>1, <2>3, <4>1 DEF PairTables
      <4>3. (Down(k) => Code[p][a].op = "write") /\ (~Down(k) => Code[p][a].op = "read")
        BY <4>2, Fields DEF MainTurn
      <4> QED BY <1>2, <2>1, <2>3, <4>1, <4>3 DEF From, To, OutAt, InAt
    <3> QED BY <2>1, <3>1, <3>2, <3>3
  <2>4. CASE p = Child1
    <3>1. a \in Nat /\ a >= 1 /\ a <= Turns + 2
      BY <2>1, <2>2, <2>4
    <3>2. CASE a = 1 \/ a = Turns + 2
      BY <2>1, <2>4, <3>2, Fields DEF PairTables
    <3>3. CASE a >= 2 /\ a <= Turns + 1
      <4>1. PICK k \in 1 .. Turns : a = k + 1
        <5>1. a - 1 \in 1 .. Turns /\ a = (a - 1) + 1
          BY <2>1, <3>1, <3>3
        <5> QED BY <5>1
      <4>2. ChildTurn(k, Code[p][a])
        BY <2>1, <2>4, <4>1 DEF PairTables
      <4>3. (Down(k) => Code[p][a].op = "read") /\ (~Down(k) => Code[p][a].op = "write")
        BY <4>2, Fields DEF ChildTurn
      <4> QED BY <1>2, <2>1, <2>4, <4>1, <4>3 DEF From, To, OutAt, InAt
    <3> QED BY <2>1, <3>1, <3>2, <3>3
  <2>5. p # Child2
    BY <2>2
  <2> QED BY <1>0, <2>3, <2>4, <2>5
<1> QED BY <1>1, <1>2

\* Casting twice is casting once.
LEMMA ByteSum ==
  ASSUME NEW x \in Int, NEW y \in Int
  PROVE  Byte(Byte(x) + y) = Byte(x + y) /\ Byte(x + 0) = Byte(x) /\ Byte(Byte(x)) = Byte(x)
BY DEF Byte

\* The byte that a process has read last.
LEMMA LastRead ==
  ASSUME got \in Histories, Len(got) >= 1, NEW p, NEW v, got[Len(got)] = <<p, v>>
  PROVE  Cur(p) = v
<1>1. Len(got) \in Nat /\ Len(got) \in By(p, got) /\ \A j \in By(p, got) : j <= Len(got)
  BY DEF By, Histories
<1>2. Max(By(p, got)) = Len(got)
  BY <1>1, Variables
<1> QED BY <1>1, <1>2 DEF Cur

\* What is sent in a hop, if every hop before it has brought its byte.
LEMMA Says ==
  ASSUME Kernel, program \in Relays, NEW k \in 1 .. Hops, Len(got) = k - 1, \A i \in 1 .. k - 1 : got[i] = <<To(i), Value(i)>>
  PROVE  Code[From(k)][OutAt(k)].bytes = <<Value(k)>>
<1>0. args \in Args /\ got \in Histories /\ Process = {Main, Child1, Child2} /\ Main = 1 /\ Child1 = 2 /\ Child2 = 3 /\ args[1] \in Int /\ args[2] \in Int
  BY TheThree, HandshakeAssumption DEF Kernel
<1>1. k \in Nat /\ k >= 1 /\ Hops \in Nat
  BY Routes
<1>2. b \in Bytes /\ b \in Int /\ Byte(b) = b
  <2>1. b = Byte(args[1])
    BY DEF b
  <2>2. Byte(b) = b /\ b \in Bytes
    BY <1>0, <2>1, ByteSum, ByteRange
  <2> QED BY <2>2 DEF Bytes
<1>3. k > 1 => Cur(From(k)) = Value(k - 1)
  <2> SUFFICES ASSUME k > 1
               PROVE  Cur(From(k)) = Value(k - 1)
    OBVIOUS
  <2>1. k - 1 \in 1 .. Hops /\ k = (k - 1) + 1
    BY <1>1
  <2>2. To(k - 1) = From(k)
    BY <2>1, Order
  <2>3. got[Len(got)] = <<From(k), Value(k - 1)>> /\ Len(got) >= 1
    BY <2>1, <2>2
  <2> QED BY <1>0, <2>3, LastRead
<1>4. CASE program = 7
  <2>1. k \in {1, 2, 3}
    BY <1>4 DEF Hops
  <2>2. /\ Code[Main][4] = Write("p_c1", <<b>>, "ignore")
        /\ Code[Child1][3] = Write("c1_c2", <<Byte(Cur(Child1) + 10)>>, "ignore")
        /\ Code[Child2][3] = Write("c2_p", <<Byte(Cur(Child2) + 20)>>, "ignore")
    BY <1>4, RingCode
  <2>3. CASE k = 1
    <3>1. Value(k) = b /\ From(k) = Main /\ OutAt(k) = 4
      BY <1>0, <1>2, <1>4, <2>3 DEF Value, From, OutAt
    <3> QED BY <2>2, <3>1, Fields
  <2>4. CASE k = 2
    <3>1. Value(k) = Byte(b + 10) /\ Value(k - 1) = b /\ From(k) = Child1 /\ OutAt(k) = 3
      BY <1>0, <1>2, <1>4, <2>4 DEF Value, From, OutAt
    <3>2. Cur(Child1) = b
      BY <1>3, <2>4, <3>1
    <3> QED BY <2>2, <3>1, <3>2, Fields
  <2>5. CASE k = 3
    <3>1. Value(k) = Byte(b + 30) /\ Value(k - 1) = Byte(b + 10) /\ From(k) = Child2 /\ OutAt(k) = 3
      BY <1>0, <1>4, <2>5 DEF Value, From, OutAt
    <3>2. Cur(Child2) = Byte(b + 10)
      BY <1>3, <2>5, <3>1
    <3>3. Byte(Byte(b + 10) + 20) = Byte(b + 30)
      BY <1>2 DEF Byte
    <3> QED BY <2>2, <3>1, <3>2, <3>3, Fields
  <2> QED BY <2>1, <2>3, <2>4, <2>5
<1>5. CASE program # 7
  <2>1. program \in Pairs /\ PairTables /\ Hops = Turns /\ Turns \in Nat
    BY <1>0, <1>5, PairCode DEF Relays, Pairs, Hops
  <2>2. MainTurn(k, Code[Main][k + 2]) /\ ChildTurn(k, Code[Child1][k + 1])
    BY <2>1 DEF PairTables
  <2>3. CASE Down(k)
    <3>1. PICK f : Code[Main][k + 2] = Write("p2c", MainSays(k), f)
      BY <2>2, <2>3 DEF MainTurn
    <3>2. Code[From(k)][OutAt(k)].bytes = MainSays(k) /\ From(k) = Main
      BY <1>5, <2>3, <3>1, Fields DEF From, OutAt
    <3>3. MainSays(k) = <<Value(k)>>
      <4>1. CASE program = 4
        <5>1. k % 2 = 1
          BY <1>1, <2>3, <4>1 DEF Down, Shift
        <5>2. MainSays(k) = <<Cur(Main)>> /\ Value(k) = Byte(b + (k \div 2)) /\ Value(k - 1) = Byte(b + ((k - 1) \div 2))
          BY <4>1 DEF MainSays, Value
        <5>3. k \div 2 = (k - 1) \div 2
          BY <1>1, <5>1
        <5>4. CASE k = 1
          <6>1. By(Main, got) = {}
            BY <1>0, <5>4 DEF By, Histories
          <6>2. k \div 2 = 0 /\ b + 0 = b
            BY <1>2, <5>4
          <6> QED BY <1>2, <5>2, <6>1, <6>2 DEF Cur
        <5>5. CASE k # 1
          BY <1>1, <1>3, <3>2, <5>2, <5>3, <5>5
        <5> QED BY <5>4, <5>5
      <4>2. CASE program = 10
        <5>1. k \in {1, 2, 3}
          BY <2>1, <4>2 DEF Turns
        <5>2. k # 2
          BY <2>3, <4>2 DEF Down, Shift
        <5> QED BY <4>2, <5>1, <5>2 DEF MainSays, Value
      <4>3. CASE program \in {5, 9}
        <5>1. k \in {1, 2}
          BY <2>1, <4>3 DEF Turns
        <5>2. (program = 5 => k = 2) /\ (program = 9 => k = 1)
          BY <2>3, <4>3, <5>1 DEF Down, Shift
        <5> QED BY <4>3, <5>2 DEF MainSays, Value
      <4> QED BY <1>5, <4>1, <4>2, <4>3 DEF Relays
    <3> QED BY <3>2, <3>3
  <2>4. CASE ~Down(k)
    <3>1. PICK f : Code[Child1][k + 1] = Write("c2p", ChildSays, f)
      BY <2>2, <2>4 DEF ChildTurn
    <3>2. Code[From(k)][OutAt(k)].bytes = ChildSays /\ From(k) = Child1
      BY <1>5, <2>4, <3>1, Fields DEF From, OutAt
    <3>3. ChildSays = <<Value(k)>>
      <4>1. CASE program = 4
        <5>1. k % 2 = 0
          BY <1>1, <2>4, <4>1 DEF Down, Shift
        <5>2. ChildSays = <<Byte(Cur(Child1) + 1)>> /\ Value(k) = Byte(b + (k \div 2)) /\ Value(k - 1) = Byte(b + ((k - 1) \div 2))
          BY <4>1 DEF ChildSays, Value
        <5>3. k \div 2 = ((k - 1) \div 2) + 1 /\ (k - 1) \div 2 \in Int /\ k > 1
          BY <1>1, <5>1
        <5>4. Cur(Child1) = Byte(b + ((k - 1) \div 2))
          BY <1>3, <3>2, <5>2, <5>3
        <5>5. \A d \in Int : Byte(Byte(b + d) + 1) = Byte(b + (d + 1))
          BY <1>2 DEF Byte
        <5> QED BY <5>2, <5>3, <5>4, <5>5
      <4>2. CASE program = 10
        <5>1. k \in {1, 2, 3}
          BY <2>1, <4>2 DEF Turns
        <5>2. k = 2
          BY <2>4, <4>2, <5>1 DEF Down, Shift
        <5> QED BY <4>2, <5>2 DEF ChildSays, Value
      <4>3. CASE program \in {5, 9}
        <5>1. k \in {1, 2}
          BY <2>1, <4>3 DEF Turns
        <5>2. (program = 5 => k = 1) /\ (program = 9 => k = 2)
          BY <2>4, <4>3, <5>1 DEF Down, Shift
        <5>3. program = 9 => Cur(Child1) = b
          <6>1. program = 9 => Value(k - 1) = b /\ k > 1
            BY <5>2 DEF Value
          <6> QED BY <1>3, <3>2, <6>1
        <5> QED BY <4>3, <5>2, <5>3 DEF ChildSays, Value
      <4> QED BY <1>5, <4>1, <4>2, <4>3 DEF Relays
    <3> QED BY <3>2, <3>3
  <2> QED BY <2>3, <2>4
<1> QED BY <1>4, <1>5

\* When nothing has failed, somebody holds the end that a process will still use.
LEMMA Held ==
  ASSUME Kernel, Life, Born, Holding, faults = 0, Whole, NEW q \in Process, q <= Forks + 1, pc[q] <= Closing(q), NEW e \in Mine(q)
  PROVE  \E p \in Process : <<p, e>> \in open
<1>0. Main \in Process /\ Forks \in {1, 2} /\ pc[Main] \in Nat /\ Length(Main) \in Nat /\ Length(Main) >= 2 * Forks + 2
      /\ pc[q] \in Nat /\ Closing(q) \in Int /\ Length(q) \in Nat /\ Closing(q) <= Length(q)
  BY Counting, TheThree, Calling
<1>1. status[q] # "exit0"
  BY <1>0 DEF Life
<1>2. CASE pc[Main] <= Forks
  <2>1. Running(Main)
    BY <1>0, <1>2 DEF Life, Whole, Running
  <2> QED BY <1>0, <1>2, <2>1 DEF Holding
<1>3. CASE pc[Main] > Forks
  <2>1. status[q] # "none"
    <3>1. CASE q = Main
      BY <3>1 DEF Life
    <3>2. CASE q # Main
      <4>1. q \in {Child1, Child2} /\ q <= pc[Main]
        BY <1>0, <1>3, <3>2, TheThree
      <4> QED BY <4>1 DEF Born
    <3> QED BY <3>1, <3>2
  <2>2. Running(q)
    BY <1>1, <2>1 DEF Whole, Running
  <2> QED BY <2>2 DEF Holding
<1> QED BY <1>0, <1>2, <1>3

\* The program stays the same, and so do its hops.
LEMMA SameRelay ==
  ASSUME UNCHANGED <<program, args>>
  PROVE  Hops' = Hops /\ \A k : From(k)' = From(k) /\ To(k)' = To(k) /\ Via(k)' = Via(k) /\ OutAt(k)' = OutAt(k) /\ InAt(k)' = InAt(k) /\ Value(k)' = Value(k)
<1>1. Shift' = Shift /\ Turns' = Turns /\ b' = b
  BY Same
<1>2. \A k : Down(k)' = Down(k)
  BY <1>1 DEF Down
<1>3. Hops' = Hops
  BY <1>1 DEF Hops
<1>4. \A k : From(k)' = From(k) /\ To(k)' = To(k)
  BY <1>2 DEF From, To
<1>5. \A k : Via(k)' = Via(k) /\ OutAt(k)' = OutAt(k) /\ InAt(k)' = InAt(k)
  BY <1>2 DEF Via, OutAt, InAt
<1>6. \A k : Value(k)' = Value(k)
  BY <1>1 DEF Value
<1> QED BY <1>3, <1>4, <1>5, <1>6

\* No hop is made at first.
LEMMA RelayInit == Init /\ program \in Relays => RelayInv
<1> SUFFICES ASSUME Init, program \in Relays
             PROVE  RelayInv
  OBVIOUS
<1>1. Kernel /\ Hops \in Nat
  <2>1. Kernel
    BY KernelAtFirst
  <2> QED BY <2>1, Counting DEF Hops
<1>2. got = <<>> /\ pc = [p \in Process |-> 1] /\ pipe = [x \in Pipe |-> <<>>] /\ \A p \in Process : status[p] \in {"none", "runs", "exit0"}
  BY DEF Init, KernelInit
<1>3. ASSUME NEW k \in 1 .. Hops
      PROVE  ~In(k) /\ ~Out(k) /\ k > 0
  BY <1>1, <1>2, <1>3, Routes DEF In, Out
<1>4. Len(got) = 0 /\ 1 .. 0 = {}
  BY <1>2
<1>5. \A x \in Pipe : ~OnTheWay(x)
  BY <1>1, <1>3, <1>4 DEF OnTheWay
<1> QED BY <1>1, <1>2, <1>3, <1>4, <1>5 DEF RelayInv, Whole

\* A step that moves p on by one call: which hops it completes.
LEMMA Hop ==
  ASSUME Kernel, Life, Next, program \in Relays, NEW p \in Process, pc' = [pc EXCEPT ![p] = @ + 1], NEW k \in 1 .. Hops
  PROVE  /\ In(k)' <=> In(k) \/ (p = To(k) /\ pc[p] = InAt(k))
         /\ Out(k)' <=> Out(k) \/ (p = From(k) /\ pc[p] = OutAt(k))
<1>1. To(k)' = To(k) /\ From(k)' = From(k) /\ InAt(k)' = InAt(k) /\ OutAt(k)' = OutAt(k)
  BY Steps, SameRelay
<1>2. pc \in [Process -> Nat] /\ From(k) \in Process /\ To(k) \in Process /\ InAt(k) \in Nat /\ OutAt(k) \in Nat
  BY Routes, TheThree
<1> QED BY <1>1, <1>2 DEF In, Out

\* A step writes the next hop or reads the one that is written.
LEMMA RelayStep ==
  ASSUME Kernel, Life, Born, Holding, program \in Relays, RelayInv, Next, faults' = 0
  PROVE  RelayInv'
<1>1. UNCHANGED <<program, args>>
  BY Steps
<1>2. PICK p \in Process : Moves(p)
  BY Steps
<1>0. PICK n \in Nat : n = Len(got)
  BY DEF Kernel, Histories
<1> USE <1>0
<1>3. faults = 0 /\ faults' = faults /\ Running(p) /\ status \in [Process -> Names] /\ pc \in [Process -> Nat] /\ Hops \in Nat /\ n \in Nat /\ got \in Histories
      /\ moved \in [Process -> {0, 1}]
  <2>1. faults = 0 /\ faults' = faults /\ Running(p)
    BY <1>2, Places, TheThree
  <2>2. Hops \in Nat
    BY Counting DEF Hops
  <2> QED BY <2>1, <2>2, TheThree DEF Kernel
<1>4. Hops' = Hops /\ \A k : From(k)' = From(k) /\ To(k)' = To(k) /\ Via(k)' = Via(k) /\ OutAt(k)' = OutAt(k) /\ InAt(k)' = InAt(k) /\ Value(k)' = Value(k)
  BY <1>1, SameRelay
<1>5. pc[p] <= Length(p) => pc[p] \in 1 .. Length(p) /\ Call(p) = Code[p][pc[p]]
  BY Calling DEF Call
<1>6. /\ n <= Hops /\ \A i \in 1 .. n : got[i] = <<To(i), Value(i)>>
      /\ \A k \in 1 .. Hops : (In(k) <=> k <= n) /\ (k <= n => Out(k)) /\ (Out(k) => k <= n + 1)
      /\ \A x \in Pipe : pipe[x] = IF OnTheWay(x) THEN <<Value(n + 1)>> ELSE <<>>
      /\ Whole
  BY DEF RelayInv
<1>7. ASSUME UNCHANGED <<pipe, got>>, \A k \in 1 .. Hops : (In(k)' <=> In(k)) /\ (Out(k)' <=> Out(k)), Whole'
      PROVE  RelayInv'
  <2>1. n < Hops => n + 1 \in 1 .. Hops
    BY <1>3
  <2>2. \A x : OnTheWay(x)' <=> OnTheWay(x)
    BY <1>4, <1>7, <2>1 DEF OnTheWay
  <2> QED BY <1>4, <1>6, <1>7, <2>2 DEF RelayInv
<1>8. CASE Quiet(p)
  <2>1. pc[p] <= Length(p) /\ Call(p).op \in {"close", "fork", "wait"} /\ pc' = [pc EXCEPT ![p] = @ + 1] /\ UNCHANGED <<pipe, got>>
    BY <1>8 DEF Quiet, Return
  <2>2. \A k \in 1 .. Hops : (In(k)' <=> In(k)) /\ (Out(k)' <=> Out(k))
    BY <1>5, <2>1, Hop, Stands
  <2>3. Whole'
    BY <1>3, <1>6, <1>8 DEF Quiet, Whole, close, fork, wait, kernelVars
  <2> QED BY <1>7, <2>1, <2>2, <2>3
<1>9. CASE Stops(p)
  <2>1. exit(p, "exit0") /\ UNCHANGED <<pc, got>>
    BY <1>3, <1>9 DEF Stops
  <2>2. UNCHANGED pipe /\ Whole'
    BY <1>3, <1>6, <2>1 DEF exit, Whole
  <2>3. \A k \in 1 .. Hops : (In(k)' <=> In(k)) /\ (Out(k)' <=> Out(k))
    BY <1>4, <2>1 DEF In, Out
  <2> QED BY <1>7, <2>1, <2>2, <2>3
<1>10. ASSUME pc[p] <= Length(p), Call(p).op \in {"read", "drain"}
       PROVE  \E k \in 1 .. Hops : p = To(k) /\ pc[p] = InAt(k) /\ k > n /\ Call(p).pipe = Via(k) /\ Call(p).n = 1 /\ Call(p).op = "read"
  <2>1. PICK k \in 1 .. Hops : p = To(k) /\ pc[p] = InAt(k) /\ Call(p).op = "read"
    BY <1>5, <1>10, Belongs
  <2>2. ~In(k) /\ InAt(k) \in Nat
    BY <2>1, Routes DEF In
  <2> QED BY <1>3, <1>5, <1>6, <1>10, <2>1, <2>2, Stands
<1>11. ASSUME pc[p] <= Length(p), Call(p).op = "write"
       PROVE  \E k \in 1 .. Hops : /\ p = From(k) /\ pc[p] = OutAt(k) /\ k = n + 1 /\ Call(p).pipe = Via(k) /\ Call(p).bytes = <<Value(k)>>
                                   /\ Len(Call(p).bytes) = 1 /\ ~Out(k)
  <2>1. PICK k \in 1 .. Hops : p = From(k) /\ pc[p] = OutAt(k)
    BY <1>5, <1>11, Belongs
  <2>2. ~Out(k) /\ OutAt(k) \in Nat /\ k \in Nat
    BY <2>1, Routes DEF Out
  <2>3. k > n
    BY <1>3, <1>6, <2>2
  <2>4. k = n + 1
    <3> SUFFICES ASSUME k # n + 1
                 PROVE  FALSE
      OBVIOUS
    <3>1. k - 1 \in 1 .. Hops /\ k = (k - 1) + 1 /\ k - 1 < k /\ ~(k - 1 <= n)
      BY <1>3, <2>2, <2>3
    <3>2. To(k - 1) = p /\ InAt(k - 1) < OutAt(k)
      BY <2>1, <3>1, Order
    <3>3. In(k - 1)
      BY <2>1, <2>2, <3>1, <3>2, Routes DEF In
    <3> QED BY <1>6, <3>1, <3>3
  <2>5. n = k - 1
    BY <1>3, <2>2, <2>4
  <2>6. Code[From(k)][OutAt(k)].bytes = <<Value(k)>>
    BY <1>6, <2>5, Says
  <2> QED BY <1>5, <1>11, <2>1, <2>2, <2>4, <2>6, Stands
<1>12. ~AtEof(p)
  <2> SUFFICES ASSUME AtEof(p)
               PROVE  FALSE
    OBVIOUS
  <2>1. PICK k \in 1 .. Hops : p = To(k) /\ pc[p] = InAt(k) /\ k > n /\ Call(p).pipe = Via(k)
    BY <1>10 DEF AtEof
  <2>2. Via(k) \in Pipe /\ From(k) \in Process /\ k \in Nat /\ OutAt(k) \in Nat /\ OutAt(k) < Closing(From(k)) /\ From(k) <= Forks + 1 /\ W(Via(k)) \in Mine(From(k))
        /\ Closing(From(k)) \in Int
    BY Routes, Counting
  <2>3. pipe[Via(k)] = <<>> /\ ~Writable(Via(k))
    BY <2>1 DEF AtEof, Eof
  <2>4. ~Out(k)
    <3>1. Out(k) => k = n + 1 /\ n < Hops
      BY <1>3, <1>6, <2>1, <2>2
    <3>2. Out(k) => OnTheWay(Via(k))
      BY <3>1 DEF OnTheWay
    <3>3. <<Value(n + 1)>> # <<>>
      OBVIOUS
    <3> QED BY <1>6, <2>2, <2>3, <3>2, <3>3
  <2>5. pc[From(k)] <= Closing(From(k))
    BY <1>3, <2>2, <2>4 DEF Out
  <2>6. Writable(Via(k))
    BY <1>3, <1>6, <2>2, <2>5, Held DEF Writable
  <2> QED BY <2>3, <2>6
<1>13. ~AtBroken(p)
  <2> SUFFICES ASSUME AtBroken(p)
               PROVE  FALSE
    OBVIOUS
  <2>1. PICK k \in 1 .. Hops : p = From(k) /\ k = n + 1 /\ Call(p).pipe = Via(k)
    BY <1>11 DEF AtBroken
  <2>2. Via(k) \in Pipe /\ To(k) \in Process /\ k \in Nat /\ InAt(k) \in Nat /\ InAt(k) < Closing(To(k)) /\ To(k) <= Forks + 1 /\ R(Via(k)) \in Mine(To(k))
        /\ Closing(To(k)) \in Int
    BY Routes, Counting
  <2>3. ~Readable(Via(k))
    BY <2>1 DEF AtBroken, Broken
  <2>4. ~In(k)
    BY <1>3, <1>6, <2>1, <2>2
  <2>5. pc[To(k)] <= Closing(To(k))
    BY <1>3, <2>2, <2>4 DEF In
  <2>6. Readable(Via(k))
    BY <1>3, <1>6, <2>2, <2>5, Held DEF Readable
  <2> QED BY <2>3, <2>6
<1>14. ASSUME NEW m, TakeSome(p, m)
       PROVE  RelayInv'
  <2>1. PICK k \in 1 .. Hops : p = To(k) /\ pc[p] = InAt(k) /\ k > n /\ Call(p).pipe = Via(k) /\ Call(p).n = 1 /\ Call(p).op = "read"
    BY <1>10, <1>14 DEF TakeSome
  <2> DEFINE x == Via(k)
  <2>2. /\ x \in Pipe /\ m \in {1, 2} /\ m <= Len(pipe[x])
        /\ pipe' \in [Pipe -> Seq(Bytes)] /\ Len(pipe'[x]) = Len(pipe[x]) - m
        /\ \A y \in Pipe \ {x} : pipe'[y] = pipe[y]
        /\ got' \in Histories /\ Len(got') = n + m
        /\ \A i \in 1 .. n : got'[i] = got[i]
        /\ \A l \in 1 .. m : got'[n + l] = <<p, pipe[x][l]>>
    <3>1. Took(p, m, x)
      BY <1>14, <2>1, Takes
    <3> QED BY <3>1 DEF Took
  <2>3. m = 1 /\ moved[p] = 0
    BY <1>3, <1>14, <2>1, <2>2 DEF TakeSome
  <2>4. pc' = [pc EXCEPT ![p] = @ + 1] /\ UNCHANGED status
    BY <1>14, <2>1, <2>3 DEF TakeSome, Return, read
  <2>5. OnTheWay(x) /\ pipe[x] = <<Value(n + 1)>>
    <3>1. Len(pipe[x]) # 0
      BY <2>2, <2>3
    <3> QED BY <1>6, <2>2, <3>1
  <2>6. n < Hops /\ n + 1 \in 1 .. Hops /\ Out(n + 1) /\ x = Via(n + 1) /\ k \in Nat
    BY <1>3, <2>5 DEF OnTheWay
  <2>7. k = n + 1
    <3> SUFFICES ASSUME k # n + 1
                 PROVE  FALSE
      OBVIOUS
    <3>1. n + 1 < k
      BY <1>3, <2>1, <2>6
    <3>2. To(n + 1) = p /\ InAt(n + 1) < InAt(k)
      BY <2>1, <2>6, <3>1, Order
    <3>3. In(n + 1)
      BY <2>1, <2>6, <3>2, Routes DEF In
    <3> QED BY <1>3, <1>6, <2>6, <3>3
  <2>8. Len(got') = n + 1 /\ \A i \in 1 .. n + 1 : got'[i] = <<To(i), Value(i)>>
    <3>1. got'[n + 1] = <<p, Value(n + 1)>>
      <4>1. 1 \in 1 .. m /\ pipe[x][1] = Value(n + 1)
        BY <2>3, <2>5
      <4> QED BY <2>2, <4>1
    <3>2. \A i \in 1 .. n + 1 : i \in 1 .. n \/ i = n + 1
      BY <1>3
    <3> QED BY <1>6, <2>1, <2>2, <2>3, <2>7, <3>1, <3>2
  <2>9. ASSUME NEW j \in 1 .. Hops
        PROVE  (In(j)' <=> j <= n + 1) /\ (j <= n + 1 => Out(j)') /\ (Out(j)' => j <= n + 1)
    <3>1. j \in Nat /\ (In(j)' <=> In(j) \/ (p = To(j) /\ pc[p] = InAt(j))) /\ (Out(j)' <=> Out(j) \/ (p = From(j) /\ pc[p] = OutAt(j)))
      <4>1. j \in Nat
        BY <1>3
      <4> QED BY <2>4, <4>1, Hop
    <3>2. p = To(j) /\ pc[p] = InAt(j) <=> j = k
      <4>1. ASSUME p = To(j), pc[p] = InAt(j)
            PROVE  j = k
        <5>1. InAt(j) = InAt(k) /\ InAt(k) \in Nat /\ k \in Nat
          BY <2>1, <4>1, Routes
        <5>2. (j < k => InAt(j) < InAt(k)) /\ (k < j => InAt(k) < InAt(j))
          BY <2>1, <4>1, Order
        <5> QED BY <3>1, <5>1, <5>2
      <4> QED BY <2>1, <4>1
    <3>3. ~(p = From(j) /\ pc[p] = OutAt(j))
      BY <1>5, <1>14, <2>1, Stands DEF TakeSome
    <3> QED BY <1>3, <1>6, <2>6, <2>7, <3>1, <3>2, <3>3
  <2>10. \A y \in Pipe : pipe'[y] = <<>>
    <3>1. pipe'[x] = <<>>
      <4>1. Len(pipe[x]) = 1
        BY <2>5
      <4>2. pipe'[x] \in Seq(Bytes) /\ Len(pipe'[x]) = 0
        BY <2>2, <2>3, <4>1
      <4> QED BY <4>2
    <3>2. \A y \in Pipe \ {x} : ~OnTheWay(y)
      BY <2>6 DEF OnTheWay
    <3> QED BY <1>6, <2>2, <3>1, <3>2
  <2>11. \A y : ~OnTheWay(y)'
    <3>1. n + 1 < Hops => n + 2 \in 1 .. Hops /\ ~(n + 2 <= n + 1) /\ (n + 1) + 1 = n + 2
      BY <1>3
    <3>2. n + 1 < Hops => ~Out(n + 2)'
      BY <2>9, <3>1
    <3> QED BY <1>4, <2>8, <3>1, <3>2 DEF OnTheWay
  <2>12. n + 1 <= Hops /\ \A j \in Nat : j <= n + 1 => j <= n + 2
    BY <1>3, <2>6
  <2>13. Whole'
    BY <1>6, <2>4 DEF Whole
  <2>14. \A j \in 1 .. Hops : (In(j)' <=> j <= n + 1) /\ (j <= n + 1 => Out(j)') /\ (Out(j)' => j <= (n + 1) + 1)
    BY <1>3, <2>9
  <2> QED BY <1>4, <2>8, <2>10, <2>11, <2>12, <2>13, <2>14 DEF RelayInv
<1>15. ASSUME NEW m, PutSome(p, m)
       PROVE  RelayInv'
  <2>1. PICK k \in 1 .. Hops : /\ p = From(k) /\ pc[p] = OutAt(k) /\ k = n + 1 /\ Call(p).pipe = Via(k) /\ Call(p).bytes = <<Value(k)>>
                               /\ Len(Call(p).bytes) = 1 /\ ~Out(k)
    BY <1>11, <1>15 DEF PutSome
  <2> DEFINE x == Via(k)
  <2>2. /\ x \in Pipe /\ m \in {1, 2}
        /\ pipe' \in [Pipe -> Seq(Bytes)] /\ Len(pipe'[x]) = Len(pipe[x]) + m
        /\ \A i \in 1 .. m : pipe'[x][Len(pipe[x]) + i] = Call(p).bytes[moved[p] + i]
        /\ \A y \in Pipe \ {x} : pipe'[y] = pipe[y]
    <3>1. Placed(p, m, x)
      BY <1>15, <2>1, Puts
    <3> QED BY <3>1 DEF Placed
  <2>3. m = 1 /\ moved[p] = 0
    <3>1. moved[p] \in {0, 1} /\ moved[p] + m <= Len(Call(p).bytes) /\ m \in {1, 2}
      BY <1>3, <1>15, <2>2 DEF PutSome
    <3>2. moved[p] + m <= 1
      BY <2>1, <3>1
    <3> QED BY <3>1, <3>2
  <2>4. pc' = [pc EXCEPT ![p] = @ + 1] /\ UNCHANGED <<status, got>>
    <3>0. Len(Call(p).bytes) = 1 /\ moved[p] + m = 1
      <4>1. Len(Call(p).bytes) = 1
        BY <2>1
      <4>2. moved[p] + m = 1
        BY <2>3
      <4> QED BY <4>1, <4>2
    <3>1. moved[p] + m = Len(Call(p).bytes)
      BY <3>0
    <3>2. Return(p) /\ UNCHANGED <<status, got>>
      BY <1>15, <3>1 DEF PutSome, write
    <3> QED BY <3>2 DEF Return
  <2>5. \A y \in Pipe : pipe[y] = <<>>
    BY <1>6, <2>1 DEF OnTheWay
  <2>6. pipe'[x] = <<Value(n + 1)>> /\ \A y \in Pipe \ {x} : pipe'[y] = <<>>
    <3>1. Len(pipe'[x]) = 1 /\ pipe'[x][1] = Value(k) /\ pipe'[x] \in Seq(Bytes)
      <4>1. Len(pipe[x]) = 0 /\ 1 \in 1 .. m
        BY <2>2, <2>3, <2>5
      <4>2. pipe'[x][0 + 1] = Call(p).bytes[0 + 1]
        BY <2>2, <2>3, <4>1
      <4> QED BY <2>1, <2>2, <2>3, <4>1, <4>2
    <3>2. pipe'[x] = <<Value(k)>>
      BY <3>1
    <3> QED BY <2>1, <2>2, <2>5, <3>2
  <2>7. ASSUME NEW j \in 1 .. Hops
        PROVE  (In(j)' <=> In(j)) /\ (Out(j)' <=> Out(j) \/ j = k)
    <3>1. j \in Nat /\ (In(j)' <=> In(j) \/ (p = To(j) /\ pc[p] = InAt(j))) /\ (Out(j)' <=> Out(j) \/ (p = From(j) /\ pc[p] = OutAt(j)))
      <4>1. j \in Nat
        BY <1>3
      <4> QED BY <2>4, <4>1, Hop
    <3>2. p = From(j) /\ pc[p] = OutAt(j) <=> j = k
      <4>1. ASSUME p = From(j), pc[p] = OutAt(j)
            PROVE  j = k
        <5>1. OutAt(j) = OutAt(k) /\ OutAt(k) \in Nat /\ k \in Nat
          BY <2>1, <4>1, Routes
        <5>2. (j < k => OutAt(j) < OutAt(k)) /\ (k < j => OutAt(k) < OutAt(j))
          BY <2>1, <4>1, Order
        <5> QED BY <3>1, <5>1, <5>2
      <4> QED BY <2>1, <4>1
    <3>3. ~(p = To(j) /\ pc[p] = InAt(j))
      BY <1>5, <1>15, <2>1, Stands DEF PutSome
    <3> QED BY <3>1, <3>2, <3>3
  <2>8. n < Hops /\ n + 1 \in 1 .. Hops /\ Out(n + 1)' /\ Via(n + 1)' = x
    BY <1>3, <1>4, <2>1, <2>7
  <2>9. \A y : OnTheWay(y)' <=> y = x
    BY <1>4, <2>4, <2>8 DEF OnTheWay
  <2>10. Whole'
    BY <1>6, <2>4 DEF Whole
  <2>11. \A j \in 1 .. Hops : (In(j)' <=> j <= n) /\ (j <= n => Out(j)') /\ (Out(j)' => j <= n + 1)
    BY <1>3, <1>6, <2>1, <2>7
  <2> QED BY <1>4, <1>6, <2>4, <2>6, <2>9, <2>10, <2>11 DEF RelayInv
<1> QED BY <1>2, <1>8, <1>9, <1>12, <1>13, <1>14, <1>15 DEF Moves
-----------------------------------------------------------------------------
(* handshake8.c: the child reads until the parent has closed the pipe. *)

\* The calls of handshake8.c.
LEMMA EofCalls ==
  ASSUME Kernel, Life, program = 8, NEW p \in Process, Running(p), pc[p] <= Length(p)
  PROVE  /\ p \in {Main, Child1} /\ pc[p] \in Nat /\ moved[p] = 0 /\ Forks = 1
         /\ p = Main => \/ pc[p] \in {1, 2, 6, 7} /\ Call(p).op \notin {"read", "drain", "write"}
                        \/ /\ pc[p] \in {3, 4, 5} /\ Call(p).op = "write" /\ Call(p).pipe = "p2c" /\ Call(p).fail = "ignore"
                           /\ Call(p).bytes = <<pc[p] - 2>> /\ Len(Call(p).bytes) = 1
         /\ p = Child1 => \/ pc[p] \in {1, 3} /\ Call(p).op \notin {"read", "drain", "write"}
                          \/ pc[p] = 2 /\ Call(p).op = "drain" /\ Call(p).pipe = "p2c" /\ Call(p).fail = "ignore" /\ Call(p).n = 1
<1>1. Forks = 1 /\ Length(Main) = 7 /\ Length(Child1) = 3
  BY DEF Forks, Length, Pairs, Main, Child1
<1>2. pc[p] \in 1 .. Length(p) /\ Call(p) = Code[p][pc[p]] /\ pc[p] \in Nat
  BY Calling, TheThree DEF Call
<1>3. p \in {Main, Child1}
  BY <1>1, TheThree DEF Life, Running
<1>4. moved[p] = 0
  BY TheThree DEF Kernel
<1>5. ASSUME p = Main
      PROVE  \/ pc[p] \in {1, 2, 6, 7} /\ Call(p).op \notin {"read", "drain", "write"}
             \/ /\ pc[p] \in {3, 4, 5} /\ Call(p).op = "write" /\ Call(p).pipe = "p2c" /\ Call(p).fail = "ignore"
                /\ Call(p).bytes = <<pc[p] - 2>> /\ Len(Call(p).bytes) = 1
  <2>1. pc[p] \in {1, 2, 6, 7} \/ (pc[p] \in {3, 4, 5} /\ pc[p] - 2 \in 1 .. 3 /\ pc[p] = 2 + (pc[p] - 2))
    BY <1>1, <1>2, <1>5
  <2>2. CASE pc[p] \in {1, 2, 6, 7}
    BY <1>2, <1>5, <2>2, EofCode, Fields
  <2>3. CASE pc[p] \in {3, 4, 5} /\ pc[p] - 2 \in 1 .. 3 /\ pc[p] = 2 + (pc[p] - 2)
    <3>1. Call(p) = Write("p2c", <<pc[p] - 2>>, "ignore")
      BY <1>2, <1>5, <2>3, EofCode
    <3>2. \A y : Len(<<y>>) = 1
      OBVIOUS
    <3> QED BY <2>3, <3>1, <3>2, Fields
  <2> QED BY <2>1, <2>2, <2>3
<1>6. ASSUME p = Child1
      PROVE  \/ pc[p] \in {1, 3} /\ Call(p).op \notin {"read", "drain", "write"}
             \/ pc[p] = 2 /\ Call(p).op = "drain" /\ Call(p).pipe = "p2c" /\ Call(p).fail = "ignore" /\ Call(p).n = 1
  <2>1. pc[p] \in {1, 2, 3}
    BY <1>1, <1>2, <1>6
  <2> QED BY <1>2, <1>6, <2>1, EofCode, Fields
<1> QED BY <1>1, <1>2, <1>3, <1>4, <1>5, <1>6

\* Nothing is written at first.
LEMMA EofInit == Init /\ program = 8 => EofInv
<1> SUFFICES ASSUME Init, program = 8
             PROVE  EofInv
  OBVIOUS
<1>1. Kernel /\ "p2c" \in Pipe
  BY KernelAtFirst, HandshakeAssumption
<1>2. got = <<>> /\ pc = [p \in Process |-> 1] /\ pipe["p2c"] = <<>> /\ \A p \in Process : status[p] \in {"none", "runs", "exit0"}
  BY <1>1 DEF Init, KernelInit
<1>3. Len(got) = 0 /\ Len(pipe["p2c"]) = 0 /\ 1 .. 0 = {} /\ pc[Main] = 1 /\ pc[Child1] = 1
  BY <1>1, <1>2, TheThree
<1> QED BY <1>2, <1>3 DEF EofInv, Whole, Sum, Due

\* A step preserves what handshake8.c has read and written.
LEMMA EofStep ==
  ASSUME Kernel, Life, Born, Holding, program = 8, EofInv, Next
  PROVE  EofInv'
<1>1. UNCHANGED <<program, args>>
  BY Steps
<1>2. PICK p \in Process : Moves(p)
  BY Steps
<1>3. /\ Process = {Main, Child1, Child2} /\ Main = 1 /\ Child1 = 2 /\ Child2 = 3 /\ Main \in Process /\ Child1 \in Process
      /\ pc \in [Process -> Nat] /\ faults \in Nat /\ (faults' = 0 => faults = 0) /\ Running(p) /\ "p2c" \in Pipe /\ pipe["p2c"] \in Seq(Bytes)
      /\ Len(pipe["p2c"]) \in Nat /\ got \in Histories /\ Len(got) \in Nat /\ status \in [Process -> Names]
  <2>1. (faults' = 0 => faults = 0) /\ Running(p)
    BY <1>2, Places, TheThree
  <2>2. "p2c" \in Pipe
    BY HandshakeAssumption
  <2>3. pipe["p2c"] \in Seq(Bytes) /\ Len(pipe["p2c"]) \in Nat /\ got \in Histories /\ Len(got) \in Nat
    BY <2>2 DEF Kernel, Histories
  <2> QED BY <2>1, <2>2, <2>3, TheThree
<1> DEFINE l == Len(got)
           f == Len(pipe["p2c"])
<1>4. /\ \A i \in 1 .. l : got[i] = <<Child1, i>>
      /\ \A i \in 1 .. f : pipe["p2c"][i] = l + i
      /\ l + f = Due \/ (l + f < Due /\ ~Readable("p2c"))
      /\ faults = 0 => l + f = Due /\ (pc[Child1] >= 3 => l = 3) /\ Whole
  BY DEF EofInv, Sum
<1>5. ASSUME UNCHANGED <<pipe, got>>, Due' = Due, pc'[Child1] >= 3 => pc[Child1] >= 3, faults' = 0 => Whole'
      PROVE  EofInv'
  <2>1. l + f < Due /\ ~Readable("p2c") => ~Readable("p2c")'
    <3>1. l + f < Due => pc[Main] > Forks
      BY <1>3 DEF Due, Forks
    <3> QED BY <1>2, <3>1, NoNewEnds
  <2> QED BY <1>3, <1>4, <1>5, <2>1 DEF EofInv, Sum
<1>6. CASE Quiet(p)
  <2>1. pc[p] <= Length(p) /\ Call(p).op \in {"close", "fork", "wait"} /\ pc' = [pc EXCEPT ![p] = @ + 1] /\ UNCHANGED <<pipe, got>>
    BY <1>6 DEF Quiet, Return
  <2>2. (p = Main /\ pc[p] \in {1, 2, 6, 7}) \/ (p = Child1 /\ pc[p] \in {1, 3})
    BY <1>3, <2>1, EofCalls
  <2>3. Due' = Due /\ (pc'[Child1] >= 3 => pc[Child1] >= 3)
    <3>1. CASE p = Main /\ pc[p] \in {1, 2, 6, 7}
      BY <1>3, <2>1, <3>1 DEF Due
    <3>2. CASE p = Child1 /\ pc[p] \in {1, 3}
      BY <1>3, <2>1, <3>2 DEF Due
    <3> QED BY <2>2, <3>1, <3>2
  <2>4. faults' = 0 => Whole'
    BY <1>3, <1>4, <1>6 DEF Quiet, Whole, close, fork, wait, kernelVars
  <2> QED BY <1>5, <2>1, <2>3, <2>4
<1>7. CASE Stops(p)
  <2>1. UNCHANGED <<pipe, got, pc>>
    BY <1>7 DEF Stops, exit
  <2>2. faults' = 0 => exit(p, "exit0")
    BY <1>3, <1>7 DEF Stops
  <2>3. faults' = 0 => Whole'
    BY <1>3, <1>4, <2>2 DEF exit, Whole
  <2>4. Due' = Due
    BY <2>1 DEF Due
  <2> QED BY <1>5, <2>1, <2>3, <2>4
<1>8. ASSUME NEW m, TakeSome(p, m)
      PROVE  EofInv'
  <2>1. p = Child1 /\ pc[p] = 2 /\ Call(p).op = "drain" /\ Call(p).pipe = "p2c" /\ Call(p).n = 1 /\ moved[p] = 0
    BY <1>3, <1>8, EofCalls DEF TakeSome
  <2>2. Took(p, m, "p2c") /\ m = 1
    <3>1. Took(p, m, "p2c")
      BY <1>8, <2>1, Takes
    <3>2. m \in {1, 2} /\ 0 + m <= 1
      BY <1>8, <2>1, <3>1 DEF Took, TakeSome
    <3> QED BY <3>1, <3>2
  <2>3. UNCHANGED <<pc, open, status, faults>>
    BY <1>8, <2>1 DEF TakeSome, read
  <2>4. /\ f >= 1 /\ Len(pipe'["p2c"]) = f - 1 /\ \A i \in 1 .. f - 1 : pipe'["p2c"][i] = pipe["p2c"][1 + i]
        /\ Len(got') = l + 1 /\ \A i \in 1 .. l : got'[i] = got[i]
    BY <2>2 DEF Took
  <2>5. got'[l + 1] = <<p, pipe["p2c"][1]>>
    BY <2>2 DEF Took
  <2>6. \A i \in 1 .. l + 1 : got'[i] = <<Child1, i>>
    <3>1. pipe["p2c"][1] = l + 1
      BY <1>3, <1>4, <2>4
    <3>2. \A i \in 1 .. l + 1 : i \in 1 .. l \/ i = l + 1
      BY <1>3
    <3> QED BY <1>4, <2>1, <2>4, <2>5, <3>1, <3>2
  <2>7. \A i \in 1 .. f - 1 : pipe'["p2c"][i] = (l + 1) + i
    <3>1. \A i \in 1 .. f - 1 : 1 + i \in 1 .. f /\ l + (1 + i) = (l + 1) + i
      BY <1>3
    <3> QED BY <1>4, <2>4, <3>1
  <2>8. (l + 1) + (f - 1) = l + f /\ Due' = Due /\ (Readable("p2c")' <=> Readable("p2c")) /\ (Whole' <=> Whole)
    <3>1. (l + 1) + (f - 1) = l + f
      <4>1. l \in Nat /\ f \in Nat
        BY <1>3
      <4>2. \A y, z \in Nat : (y + 1) + (z - 1) = y + z
        OBVIOUS
      <4> QED BY <4>1, <4>2
    <3>2. Due' = Due
      BY <2>3 DEF Due
    <3>3. Readable("p2c")' <=> Readable("p2c")
      BY <2>3 DEF Readable
    <3>4. Whole' <=> Whole
      BY <2>3 DEF Whole
    <3> QED BY <3>1, <3>2, <3>3, <3>4
  <2>9. ~(pc[Child1] >= 3)
    BY <2>1
  <2> QED BY <1>4, <2>3, <2>4, <2>6, <2>7, <2>8, <2>9 DEF EofInv, Sum
<1>9. ASSUME NEW m, PutSome(p, m)
      PROVE  EofInv'
  <2>1. p = Main /\ pc[p] \in {3, 4, 5} /\ Call(p).pipe = "p2c" /\ Call(p).bytes = <<pc[p] - 2>> /\ Len(Call(p).bytes) = 1 /\ moved[p] = 0
    BY <1>3, <1>9, EofCalls DEF PutSome
  <2>2. Placed(p, m, "p2c") /\ m = 1
    <3>1. Placed(p, m, "p2c")
      BY <1>9, <2>1, Puts
    <3>2. m \in {1, 2}
      BY <3>1 DEF Placed
    <3>3. 0 + m <= 1
      BY <1>9, <2>1 DEF PutSome
    <3> QED BY <3>1, <3>2, <3>3
  <2>3. UNCHANGED <<got, open, status, faults>> /\ pc' = [pc EXCEPT ![p] = @ + 1]
    <3>1. moved[p] + m = 1
      BY <2>1, <2>2
    <3>2. Len(Call(p).bytes) = 1
      BY <2>1
    <3>3. Return(p)
      BY <1>9, <3>1, <3>2 DEF PutSome
    <3> QED BY <1>9, <3>3 DEF PutSome, write, Return
  <2>4. Readable("p2c") /\ Len(pipe'["p2c"]) = f + 1 /\ \A i \in 1 .. f : pipe'["p2c"][i] = pipe["p2c"][i]
    BY <2>2 DEF Placed
  <2>5. pipe'["p2c"][f + 1] = pc[p] - 2
    <3>1. pipe'["p2c"][f + 1] = Call(p).bytes[0 + 1]
      BY <2>1, <2>2 DEF Placed
    <3> QED BY <2>1, <3>1
  <2>6. l + f = Due /\ Due = pc[p] - 3 /\ Due' = pc[p] - 2 /\ pc[p] - 2 = l + (f + 1)
    BY <1>3, <1>4, <2>1, <2>3, <2>4 DEF Due
  <2>7. \A i \in 1 .. f + 1 : pipe'["p2c"][i] = l + i
    <3>1. \A i \in 1 .. f + 1 : i \in 1 .. f \/ i = f + 1
      BY <1>3
    <3> QED BY <1>4, <2>4, <2>5, <2>6, <3>1
  <2>8. pc'[Child1] = pc[Child1] /\ (Whole' <=> Whole)
    BY <1>3, <2>1, <2>3 DEF Whole
  <2> QED BY <1>4, <2>3, <2>4, <2>6, <2>7, <2>8 DEF EofInv, Sum
<1>10. CASE AtEof(p)
  <2>1. p = Child1 /\ pc[p] = 2 /\ Call(p).op = "drain" /\ Call(p).pipe = "p2c" /\ Call(p).fail = "ignore"
    BY <1>3, <1>10, EofCalls DEF AtEof
  <2>2. pipe["p2c"] = <<>> /\ ~Writable("p2c") /\ UNCHANGED <<pipe, open, status, got, faults>> /\ pc' = [pc EXCEPT ![p] = @ + 1]
    BY <1>10, <2>1 DEF AtEof, Eof, Fail, Return, kernelVars
  <2>3. Due' = Due /\ (Readable("p2c")' <=> Readable("p2c")) /\ (Whole' <=> Whole)
    BY <1>3, <2>1, <2>2 DEF Due, Readable, Whole
  <2>4. faults = 0 => l = 3
    <3> SUFFICES ASSUME faults = 0
                 PROVE  l = 3
      OBVIOUS
    <3>1. l = Due
      BY <1>3, <1>4, <2>2
    <3>2. pc[Main] > 6
      <4>1. W("p2c") \in Mine(Main) /\ Closing(Main) = 6 /\ Forks = 1
        BY DEF Mine, Pairs, Closing, Length, Forks, Main
      <4>2. pc[Main] <= 6 => Writable("p2c")
        BY <1>3, <1>4, <4>1, Held DEF Writable
      <4> QED BY <1>3, <2>2, <4>2
    <3> QED BY <1>3, <3>1, <3>2 DEF Due
  <2> QED BY <1>4, <2>2, <2>3, <2>4 DEF EofInv, Sum
<1>11. CASE AtBroken(p)
  <2>1. p = Main /\ pc[p] \in {3, 4, 5} /\ Call(p).pipe = "p2c" /\ Call(p).fail = "ignore"
    BY <1>3, <1>11, EofCalls DEF AtBroken
  <2>2. ~Readable("p2c") /\ UNCHANGED <<pipe, open, status, got, faults>> /\ pc' = [pc EXCEPT ![p] = @ + 1]
    BY <1>11, <2>1 DEF AtBroken, Broken, Fail, Return, kernelVars
  <2>3. Due = pc[p] - 3 /\ Due' = pc[p] - 2 /\ (Readable("p2c")' <=> Readable("p2c"))
    BY <1>3, <2>1, <2>2 DEF Due, Readable
  <2>4. l + f < Due'
    BY <1>3, <1>4, <2>1, <2>3
  <2>5. faults # 0
    <3> SUFFICES ASSUME faults = 0
                 PROVE  FALSE
      OBVIOUS
    <3>1. pc[Child1] <= 3
      <4>1. l + f = Due /\ Due <= 2 /\ l \in Nat /\ f \in Nat
        BY <1>3, <1>4, <2>1, <2>3
      <4>2. l # 3
        BY <4>1
      <4>3. pc[Child1] \in Nat
        BY <1>3
      <4>4. ~(pc[Child1] >= 3)
        BY <1>4, <4>2
      <4> QED BY <4>3, <4>4
    <3>2. R("p2c") \in Mine(Child1) /\ Closing(Child1) = 3 /\ Forks = 1
      BY <1>3 DEF Mine, Pairs, Closing, Length, Forks
    <3>3. Readable("p2c")
      BY <1>3, <1>4, <3>1, <3>2, Held DEF Readable
    <3> QED BY <2>2, <3>3
  <2> QED BY <1>3, <1>4, <2>2, <2>3, <2>4, <2>5 DEF EofInv, Sum
<1> QED BY <1>2, <1>6, <1>7, <1>8, <1>9, <1>10, <1>11 DEF Moves
-----------------------------------------------------------------------------
(* handshake6.c: two children, each with two pipes, when nothing fails. *)

\* Who uses which pipe at which place.
LEMMA PipePlaces ==
  ASSUME Kernel, program = 6, NEW x \in Channels
  PROVE  /\ x \in Pipe /\ Giver(x) \in Process /\ Taker(x) \in Process /\ Giver(x) <= Forks + 1 /\ Taker(x) <= Forks + 1
         /\ GiveAt(x) \in Nat /\ GiveAt(x) < Closing(Giver(x)) /\ TakeAt(x) \in Nat /\ TakeAt(x) < Closing(Taker(x))
         /\ GiveAt(x) >= 1 /\ TakeAt(x) >= 1 /\ Closing(Giver(x)) \in Nat /\ Closing(Taker(x)) \in Nat
         /\ W(x) \in Mine(Giver(x)) /\ R(x) \in Mine(Taker(x))
         /\ \A y \in Channels : Giver(x) = Giver(y) /\ GiveAt(x) = GiveAt(y) => x = y
         /\ \A y \in Channels : Taker(x) = Taker(y) /\ TakeAt(x) = TakeAt(y) => x = y
         /\ \A y \in Channels : ~(Giver(x) = Taker(y) /\ GiveAt(x) = TakeAt(y))
<1>1. Forks = 2 /\ Closing(Main) = 8 /\ Closing(Child1) = 4 /\ Closing(Child2) = 4
  BY DEF Forks, Closing, Length, Pairs, Main, Child1, Child2
<1>2. /\ Mine(Main) = {W("p2c"), R("c2p"), W("p2c2"), R("c2p2")} /\ Mine(Child1) = {R("p2c"), W("c2p")} /\ Mine(Child2) = {R("p2c2"), W("c2p2")}
  BY DEF Mine, Pairs, Main, Child1, Child2
<1>3. Process = {1, 2, 3} /\ Main = 1 /\ Child1 = 2 /\ Child2 = 3 /\ Channels \subseteq Pipe
  BY TheThree, HandshakeAssumption DEF Channels
<1>4. /\ Giver("p2c") = 1 /\ Giver("p2c2") = 1 /\ Giver("c2p") = 2 /\ Giver("c2p2") = 3
      /\ Taker("p2c") = 2 /\ Taker("p2c2") = 3 /\ Taker("c2p") = 1 /\ Taker("c2p2") = 1
      /\ GiveAt("p2c") = 4 /\ GiveAt("p2c2") = 5 /\ GiveAt("c2p") = 3 /\ GiveAt("c2p2") = 3
      /\ TakeAt("p2c") = 2 /\ TakeAt("p2c2") = 2 /\ TakeAt("c2p") = 6 /\ TakeAt("c2p2") = 7
  BY <1>3 DEF Giver, Taker, GiveAt, TakeAt
<1>5. /\ x \in Pipe /\ Giver(x) \in Process /\ Taker(x) \in Process /\ Giver(x) <= Forks + 1 /\ Taker(x) <= Forks + 1
      /\ GiveAt(x) \in Nat /\ GiveAt(x) < Closing(Giver(x)) /\ TakeAt(x) \in Nat /\ TakeAt(x) < Closing(Taker(x))
      /\ GiveAt(x) >= 1 /\ TakeAt(x) >= 1 /\ Closing(Giver(x)) \in Nat /\ Closing(Taker(x)) \in Nat
  BY <1>1, <1>3, <1>4 DEF Channels
<1>6. W(x) \in Mine(Giver(x)) /\ R(x) \in Mine(Taker(x))
  BY <1>2, <1>3, <1>4 DEF Channels
<1>7. \A y \in Channels : Giver(x) = Giver(y) /\ GiveAt(x) = GiveAt(y) => x = y
  BY <1>4 DEF Channels
<1>8. \A y \in Channels : Taker(x) = Taker(y) /\ TakeAt(x) = TakeAt(y) => x = y
  BY <1>4 DEF Channels
<1>9. \A y \in Channels : ~(Giver(x) = Taker(y) /\ GiveAt(x) = TakeAt(y))
  BY <1>4 DEF Channels
<1> QED BY <1>5, <1>6, <1>7, <1>8, <1>9

\* What a process has read last, when every byte is b.
LEMMA AllB ==
  ASSUME Kernel, program = 6, got \in Story(Taken("p2c"), Taken("p2c2"), Taken("c2p"), Taken("c2p2")), NEW p \in Process
  PROVE  Cur(p) = b
<1>1. \A i \in 1 .. Len(got) : got[i][2] = b
  BY DEF Story
<1>2. got \in Histories /\ By(p, got) \subseteq 1 .. Len(got)
  BY DEF Kernel, By, Histories
<1>3. CASE By(p, got) = {}
  BY <1>3 DEF Cur
<1>4. CASE By(p, got) # {}
  <2>1. Max(By(p, got)) \in By(p, got)
    BY <1>2, <1>4, Variables
  <2> QED BY <1>1, <1>2, <1>4, <2>1 DEF Cur
<1> QED BY <1>3, <1>4

\* The calls of handshake6.c.
LEMMA ChildrenCalls ==
  ASSUME Kernel, program = 6, NEW p \in Process, pc[p] <= Length(p)
  PROVE  \/ /\ Call(p).op \notin {"read", "drain", "write"}
            /\ \A x \in Channels : ~(p = Giver(x) /\ pc[p] = GiveAt(x)) /\ ~(p = Taker(x) /\ pc[p] = TakeAt(x))
         \/ \E x \in Channels : /\ p = Giver(x) /\ pc[p] = GiveAt(x) /\ Call(p).op = "write" /\ Call(p).pipe = x
                                /\ Call(p).bytes \in {<<b>>, <<Cur(p)>>} /\ Len(Call(p).bytes) = 1
         \/ \E x \in Channels : p = Taker(x) /\ pc[p] = TakeAt(x) /\ Call(p).op = "read" /\ Call(p).pipe = x /\ Call(p).n = 1
<1>1. pc[p] \in 1 .. Length(p) /\ Call(p) = Code[p][pc[p]] /\ pc[p] \in Nat
  BY Calling, TheThree DEF Call
<1>2. Process = {1, 2, 3} /\ Main = 1 /\ Child1 = 2 /\ Child2 = 3 /\ Length(Main) = 10 /\ Length(Child1) = 4 /\ Length(Child2) = 4
  BY TheThree DEF Length, Pairs
<1>3. /\ Giver("p2c") = 1 /\ Giver("p2c2") = 1 /\ Giver("c2p") = 2 /\ Giver("c2p2") = 3
      /\ Taker("p2c") = 2 /\ Taker("p2c2") = 3 /\ Taker("c2p") = 1 /\ Taker("c2p2") = 1
      /\ GiveAt("p2c") = 4 /\ GiveAt("p2c2") = 5 /\ GiveAt("c2p") = 3 /\ GiveAt("c2p2") = 3
      /\ TakeAt("p2c") = 2 /\ TakeAt("p2c2") = 2 /\ TakeAt("c2p") = 6 /\ TakeAt("c2p2") = 7
  BY <1>2 DEF Giver, Taker, GiveAt, TakeAt
<1>4. \A y : Len(<<y>>) = 1
  OBVIOUS
<1>5. "p2c" \in Channels /\ "p2c2" \in Channels /\ "c2p" \in Channels /\ "c2p2" \in Channels
  BY DEF Channels
<1>6. CASE p = Main
  <2>1. pc[p] \in {1, 2, 3, 8, 9, 10} \/ pc[p] = 4 \/ pc[p] = 5 \/ pc[p] = 6 \/ pc[p] = 7
    BY <1>1, <1>2, <1>6
  <2>2. CASE pc[p] \in {1, 2, 3, 8, 9, 10}
    <3>1. Call(p).op \notin {"read", "drain", "write"}
      BY <1>1, <1>6, <2>2, ChildrenCode, Fields
    <3> QED BY <1>2, <1>3, <1>6, <2>2, <3>1 DEF Channels
  <2>3. CASE pc[p] = 4
    BY <1>1, <1>2, <1>3, <1>4, <1>5, <1>6, <2>3, ChildrenCode, Fields
  <2>4. CASE pc[p] = 5
    BY <1>1, <1>2, <1>3, <1>4, <1>5, <1>6, <2>4, ChildrenCode, Fields
  <2>5. CASE pc[p] = 6
    BY <1>1, <1>2, <1>3, <1>4, <1>5, <1>6, <2>5, ChildrenCode, Fields
  <2>6. CASE pc[p] = 7
    BY <1>1, <1>2, <1>3, <1>4, <1>5, <1>6, <2>6, ChildrenCode, Fields
  <2> QED BY <2>1, <2>2, <2>3, <2>4, <2>5, <2>6
<1>7. CASE p = Child1
  <2>1. pc[p] \in {1, 4} \/ pc[p] = 2 \/ pc[p] = 3
    BY <1>1, <1>2, <1>7
  <2>2. CASE pc[p] \in {1, 4}
    <3>1. Call(p).op \notin {"read", "drain", "write"}
      BY <1>1, <1>7, <2>2, ChildrenCode, Fields
    <3> QED BY <1>2, <1>3, <1>7, <2>2, <3>1 DEF Channels
  <2>3. CASE pc[p] = 2
    BY <1>1, <1>2, <1>3, <1>4, <1>5, <1>7, <2>3, ChildrenCode, Fields
  <2>4. CASE pc[p] = 3
    BY <1>1, <1>2, <1>3, <1>4, <1>5, <1>7, <2>4, ChildrenCode, Fields
  <2> QED BY <2>1, <2>2, <2>3, <2>4
<1>8. CASE p = Child2
  <2>1. pc[p] \in {1, 4} \/ pc[p] = 2 \/ pc[p] = 3
    BY <1>1, <1>2, <1>8
  <2>2. CASE pc[p] \in {1, 4}
    <3>1. Call(p).op \notin {"read", "drain", "write"}
      BY <1>1, <1>8, <2>2, ChildrenCode, Fields
    <3> QED BY <1>2, <1>3, <1>8, <2>2, <3>1 DEF Channels
  <2>3. CASE pc[p] = 2
    BY <1>1, <1>2, <1>3, <1>4, <1>5, <1>8, <2>3, ChildrenCode, Fields
  <2>4. CASE pc[p] = 3
    BY <1>1, <1>2, <1>3, <1>4, <1>5, <1>8, <2>4, ChildrenCode, Fields
  <2> QED BY <2>1, <2>2, <2>3, <2>4
<1> QED BY <1>2, <1>6, <1>7, <1>8

\* No pipe is used at first.
LEMMA ChildrenInit == Init /\ program = 6 => ChildrenInv
<1> SUFFICES ASSUME Init, program = 6
             PROVE  ChildrenInv
  OBVIOUS
<1>1. Kernel
  BY KernelAtFirst
<1>2. got = <<>> /\ pc = [p \in Process |-> 1] /\ pipe = [x \in Pipe |-> <<>>] /\ \A p \in Process : status[p] \in {"none", "runs", "exit0"}
  BY DEF Init, KernelInit
<1>3. \A x \in Channels : x \in Pipe /\ ~Given(x) /\ ~Taken(x)
  BY <1>1, <1>2, PipePlaces DEF Given, Taken
<1>4. ~Taken("p2c") /\ ~Taken("p2c2")
  BY <1>3 DEF Channels
<1> QED BY <1>2, <1>3, <1>4 DEF ChildrenInv, Whole, Story

\* One more read in the history.
LEMMA Appended ==
  ASSUME NEW S, NEW s \in Seq(S), NEW t \in Seq(S), NEW v \in S, NEW n \in Nat, n = Len(s), Len(t) = n + 1,
         \A i \in 1 .. n : t[i] = s[i], t[n + 1] = v
  PROVE  s \o <<v>> = t
<1> DEFINE r == <<v>>
           u == s \o r
<1>1. r \in Seq(S) /\ Len(r) = 1 /\ r[1] = v
  OBVIOUS
<1> HIDE DEF r
<1>2. u \in Seq(S) /\ Len(u) = n + 1 /\ (\A i \in 1 .. n : u[i] = s[i]) /\ u[n + 1] = v
  <2>1. u \in Seq(S) /\ Len(u) = n + 1 /\ \A k \in 1 .. n + 1 : u[k] = IF k <= n THEN s[k] ELSE r[k - n]
    <3>1. u \in Seq(S) /\ Len(u) = Len(s) + Len(r) /\ \A k \in 1 .. Len(s) + Len(r) : u[k] = IF k <= Len(s) THEN s[k] ELSE r[k - Len(s)]
      BY <1>1, ConcatProperties
    <3> HIDE DEF u
    <3> QED BY <1>1, <3>1
  <2>2. n + 1 \in 1 .. n + 1 /\ ~(n + 1 <= n) /\ (n + 1) - n = 1 /\ \A i \in 1 .. n : i \in 1 .. n + 1 /\ i <= n
    OBVIOUS
  <2> HIDE DEF u
  <2> QED BY <1>1, <2>1, <2>2
<1> HIDE DEF u
<1>3. \A i \in 1 .. n + 1 : u[i] = t[i]
  <2>1. \A i \in 1 .. n + 1 : i \in 1 .. n \/ i = n + 1
    OBVIOUS
  <2> QED BY <1>2, <2>1
<1>4. u = t
  BY <1>2, <1>3, SeqEqual
<1> QED BY <1>4 DEF u, r

\* Short histories and one more read.
LEMMA OneMore ==
  ASSUME NEW v
  PROVE  /\ <<>> \o <<v>> = <<v>>
         /\ \A x : <<x>> \o <<v>> = <<x, v>>
         /\ \A x, y : <<x, y>> \o <<v>> = <<x, y, v>>
         /\ \A x, y, z : <<x, y, z>> \o <<v>> = <<x, y, z, v>>
<1>1. <<>> \o <<v>> = <<v>>
  OBVIOUS
<1>2. ASSUME NEW x
      PROVE  <<x>> \o <<v>> = <<x, v>>
  <2> DEFINE S == {x, v}  n == 1  s == <<x>>  t == <<x, v>>
  <2>1. v \in S /\ s \in Seq(S) /\ t \in Seq(S) /\ n \in Nat /\ n = Len(s) /\ Len(t) = n + 1 /\ (\A i \in 1 .. n : t[i] = s[i]) /\ t[n + 1] = v
    OBVIOUS
  <2> HIDE DEF S, s, t, n
  <2>2. s \o <<v>> = t
    BY <2>1, Appended
  <2> QED BY <2>2 DEF s, t
<1>3. ASSUME NEW x, NEW y
      PROVE  <<x, y>> \o <<v>> = <<x, y, v>>
  <2> DEFINE S == {x, y, v}  n == 2  s == <<x, y>>  t == <<x, y, v>>
  <2>1. v \in S /\ s \in Seq(S) /\ t \in Seq(S) /\ n \in Nat /\ n = Len(s) /\ Len(t) = n + 1 /\ (\A i \in 1 .. n : t[i] = s[i]) /\ t[n + 1] = v
    OBVIOUS
  <2> HIDE DEF S, s, t, n
  <2>2. s \o <<v>> = t
    BY <2>1, Appended
  <2> QED BY <2>2 DEF s, t
<1>4. ASSUME NEW x, NEW y, NEW z
      PROVE  <<x, y, z>> \o <<v>> = <<x, y, z, v>>
  <2> DEFINE S == {x, y, z, v}  n == 3  s == <<x, y, z>>  t == <<x, y, z, v>>
  <2>1. v \in S /\ s \in Seq(S) /\ t \in Seq(S) /\ n \in Nat /\ n = Len(s) /\ Len(t) = n + 1 /\ (\A i \in 1 .. n : t[i] = s[i]) /\ t[n + 1] = v
    OBVIOUS
  <2> HIDE DEF S, s, t, n
  <2>2. s \o <<v>> = t
    BY <2>1, Appended
  <2> QED BY <2>2 DEF s, t
<1> QED BY <1>1, <1>2, <1>3, <1>4

\* One more read makes a story out of a story.
LEMMA Tales ==
  ASSUME NEW r1 \in BOOLEAN, NEW r2 \in BOOLEAN, NEW h1 \in BOOLEAN, NEW h2 \in BOOLEAN, NEW s \in Story(r1, r2, h1, h2), h1 => r1, h2 => h1 /\ r2
  PROVE  /\ ~r1 => s \o << <<Child1, b>> >> \in Story(TRUE, r2, h1, h2)
         /\ ~r2 => s \o << <<Child2, b>> >> \in Story(r1, TRUE, h1, h2)
         /\ r1 /\ ~h1 => s \o << <<Main, b>> >> \in Story(r1, r2, TRUE, h2)
         /\ r2 /\ h1 /\ ~h2 => s \o << <<Main, b>> >> \in Story(r1, r2, h1, TRUE)
<1> DEFINE x == <<Child1, b>>  y == <<Child2, b>>  z == <<Main, b>>
<1>1. Story(r1, r2, h1, h2) = IF ~r1 THEN IF ~r2 THEN {<<>>} ELSE {<<y>>}
      ELSE IF ~r2 THEN IF ~h1 THEN {<<x>>} ELSE {<<x, z>>}
      ELSE IF ~h1 THEN {<<x, y>>, <<y, x>>}
      ELSE IF ~h2 THEN {<<x, y, z>>, <<y, x, z>>, <<x, z, y>>}
      ELSE {<<x, y, z, z>>, <<y, x, z, z>>, <<x, z, y, z>>}
  BY DEF Story
<1>2. ~r1 => s \o <<x>> \in Story(TRUE, r2, h1, h2)
  <2> SUFFICES ASSUME ~r1
               PROVE  s \o <<x>> \in Story(TRUE, r2, h1, h2)
    OBVIOUS
  <2>1. CASE ~r2
    <3>1. s = <<>>
      BY <1>1, <2>1
    <3>2. s \o <<x>> = <<x>>
      BY <3>1, OneMore
    <3>3. Story(TRUE, r2, h1, h2) = {<<x>>}
      BY <2>1 DEF Story
    <3> QED BY <3>2, <3>3
  <2>2. CASE r2
    <3>1. s = <<y>>
      BY <1>1, <2>2
    <3>2. s \o <<x>> = <<y, x>>
      BY <3>1, OneMore
    <3>3. Story(TRUE, r2, h1, h2) = {<<x, y>>, <<y, x>>}
      BY <2>2 DEF Story
    <3> QED BY <3>2, <3>3
  <2> QED BY <2>1, <2>2
<1>3. ~r2 => s \o <<y>> \in Story(r1, TRUE, h1, h2)
  <2> SUFFICES ASSUME ~r2
               PROVE  s \o <<y>> \in Story(r1, TRUE, h1, h2)
    OBVIOUS
  <2>1. CASE ~r1
    <3>1. s = <<>>
      BY <1>1, <2>1
    <3>2. s \o <<y>> = <<y>>
      BY <3>1, OneMore
    <3>3. Story(r1, TRUE, h1, h2) = {<<y>>}
      BY <2>1 DEF Story
    <3> QED BY <3>2, <3>3
  <2>2. CASE r1 /\ ~h1
    <3>1. s = <<x>>
      BY <1>1, <2>2
    <3>2. s \o <<y>> = <<x, y>>
      BY <3>1, OneMore
    <3>3. Story(r1, TRUE, h1, h2) = {<<x, y>>, <<y, x>>}
      BY <2>2 DEF Story
    <3> QED BY <3>2, <3>3
  <2>3. CASE r1 /\ h1
    <3>1. s = <<x, z>>
      BY <1>1, <2>3
    <3>2. s \o <<y>> = <<x, z, y>>
      BY <3>1, OneMore
    <3>3. Story(r1, TRUE, h1, h2) = {<<x, y, z>>, <<y, x, z>>, <<x, z, y>>}
      BY <2>3 DEF Story
    <3> QED BY <3>2, <3>3
  <2> QED BY <2>1, <2>2, <2>3
<1>4. r1 /\ ~h1 => s \o <<z>> \in Story(r1, r2, TRUE, h2)
  <2> SUFFICES ASSUME r1, ~h1
               PROVE  s \o <<z>> \in Story(r1, r2, TRUE, h2)
    OBVIOUS
  <2>1. CASE ~r2
    <3>1. s = <<x>>
      BY <1>1, <2>1
    <3>2. s \o <<z>> = <<x, z>>
      BY <3>1, OneMore
    <3>3. Story(r1, r2, TRUE, h2) = {<<x, z>>}
      BY <2>1 DEF Story
    <3> QED BY <3>2, <3>3
  <2>2. CASE r2
    <3>1. s = <<x, y>> \/ s = <<y, x>>
      BY <1>1, <2>2
    <3>2. s \o <<z>> = <<x, y, z>> \/ s \o <<z>> = <<y, x, z>>
      BY <3>1, OneMore
    <3>3. Story(r1, r2, TRUE, h2) = {<<x, y, z>>, <<y, x, z>>, <<x, z, y>>}
      BY <2>2 DEF Story
    <3> QED BY <3>2, <3>3
  <2> QED BY <2>1, <2>2
<1>5. r2 /\ h1 /\ ~h2 => s \o <<z>> \in Story(r1, r2, h1, TRUE)
  <2> SUFFICES ASSUME r2, h1, ~h2
               PROVE  s \o <<z>> \in Story(r1, r2, h1, TRUE)
    OBVIOUS
  <2>1. s = <<x, y, z>> \/ s = <<y, x, z>> \/ s = <<x, z, y>>
    BY <1>1
  <2>2. s \o <<z>> = <<x, y, z, z>> \/ s \o <<z>> = <<y, x, z, z>> \/ s \o <<z>> = <<x, z, y, z>>
    <3>1. <<x, y, z>> \o <<z>> = <<x, y, z, z>> /\ <<y, x, z>> \o <<z>> = <<y, x, z, z>> /\ <<x, z, y>> \o <<z>> = <<x, z, y, z>>
      BY OneMore
    <3> QED BY <2>1, <3>1
  <2>3. Story(r1, r2, h1, TRUE) = {<<x, y, z, z>>, <<y, x, z, z>>, <<x, z, y, z>>}
    BY DEF Story
  <2> QED BY <2>2, <2>3
<1> QED BY <1>2, <1>3, <1>4, <1>5

\* A step that moves p on by one call: which pipe it has used.
LEMMA Use ==
  ASSUME Kernel, program = 6, NEW p \in Process, pc' = [pc EXCEPT ![p] = @ + 1], NEW x \in Channels
  PROVE  /\ Given(x)' <=> Given(x) \/ (p = Giver(x) /\ pc[p] = GiveAt(x))
         /\ Taken(x)' <=> Taken(x) \/ (p = Taker(x) /\ pc[p] = TakeAt(x))
<1>1. pc \in [Process -> Nat] /\ Giver(x) \in Process /\ Taker(x) \in Process /\ GiveAt(x) \in Nat /\ TakeAt(x) \in Nat
  BY PipePlaces, TheThree
<1> QED BY <1>1 DEF Given, Taken

\* A step gives a pipe its byte or takes it.
LEMMA ChildrenStep ==
  ASSUME Kernel, Life, Born, Holding, program = 6, ChildrenInv, Next, faults' = 0
  PROVE  ChildrenInv'
<1>1. UNCHANGED <<program, args>> /\ b' = b
  BY Steps, Same
<1>2. PICK p \in Process : Moves(p)
  BY Steps
<1>3. faults = 0 /\ faults' = faults /\ Running(p) /\ status \in [Process -> Names] /\ pc \in [Process -> Nat] /\ moved \in [Process -> {0, 1}]
  <2>1. faults = 0 /\ faults' = faults /\ Running(p)
    BY <1>2, Places, TheThree
  <2> QED BY <2>1, TheThree
<1>4. /\ \A x \in Channels : (Taken(x) => Given(x)) /\ pipe[x] = IF Given(x) /\ ~Taken(x) THEN <<b>> ELSE <<>>
      /\ got \in Story(Taken("p2c"), Taken("p2c2"), Taken("c2p"), Taken("c2p2"))
      /\ Whole
  BY DEF ChildrenInv
<1>5. \A q \in Process : Cur(q) = b
  BY <1>4, AllB
<1>6. ASSUME UNCHANGED <<pipe, got>>, \A x \in Channels : (Given(x)' <=> Given(x)) /\ (Taken(x)' <=> Taken(x)), Whole'
      PROVE  ChildrenInv'
  <2>1. "p2c" \in Channels /\ "p2c2" \in Channels /\ "c2p" \in Channels /\ "c2p2" \in Channels
    BY DEF Channels
  <2>2. got' \in Story(Taken("p2c"), Taken("p2c2"), Taken("c2p"), Taken("c2p2"))'
    BY <1>1, <1>4, <1>6, <2>1 DEF Story
  <2> QED BY <1>1, <1>4, <1>6, <2>2 DEF ChildrenInv
<1>7. CASE Quiet(p)
  <2>1. pc[p] <= Length(p) /\ Call(p).op \in {"close", "fork", "wait"} /\ pc' = [pc EXCEPT ![p] = @ + 1] /\ UNCHANGED <<pipe, got>>
    BY <1>7 DEF Quiet, Return
  <2>2. \A x \in Channels : ~(p = Giver(x) /\ pc[p] = GiveAt(x)) /\ ~(p = Taker(x) /\ pc[p] = TakeAt(x))
    BY <2>1, ChildrenCalls
  <2>3. \A x \in Channels : (Given(x)' <=> Given(x)) /\ (Taken(x)' <=> Taken(x))
    BY <2>1, <2>2, Use
  <2>4. Whole'
    BY <1>3, <1>4, <1>7 DEF Quiet, Whole, close, fork, wait, kernelVars
  <2> QED BY <1>6, <2>1, <2>3, <2>4
<1>8. CASE Stops(p)
  <2>1. exit(p, "exit0") /\ UNCHANGED <<pc, got>>
    BY <1>3, <1>8 DEF Stops
  <2>2. UNCHANGED pipe /\ Whole'
    BY <1>3, <1>4, <2>1 DEF exit, Whole
  <2>3. \A x \in Channels : (Given(x)' <=> Given(x)) /\ (Taken(x)' <=> Taken(x))
    BY <2>1 DEF Given, Taken
  <2> QED BY <1>6, <2>1, <2>2, <2>3
<1>9. ~AtEof(p)
  <2> SUFFICES ASSUME AtEof(p)
               PROVE  FALSE
    OBVIOUS
  <2>1. PICK x \in Channels : p = Taker(x) /\ pc[p] = TakeAt(x) /\ Call(p).pipe = x
    BY ChildrenCalls DEF AtEof
  <2>2. /\ Giver(x) \in Process /\ GiveAt(x) \in Nat /\ GiveAt(x) < Closing(Giver(x)) /\ Giver(x) <= Forks + 1 /\ W(x) \in Mine(Giver(x))
        /\ Closing(Giver(x)) \in Nat /\ TakeAt(x) \in Nat
    BY PipePlaces
  <2>3. pipe[x] = <<>> /\ ~Writable(x)
    BY <2>1 DEF AtEof, Eof
  <2>4. ~Given(x)
    <3>1. <<b>> # <<>> /\ ~Taken(x)
      BY <2>1, <2>2 DEF Taken
    <3> QED BY <1>4, <2>3, <3>1
  <2>5. pc[Giver(x)] <= Closing(Giver(x))
    BY <1>3, <2>2, <2>4 DEF Given
  <2>6. Writable(x)
    BY <1>3, <1>4, <2>2, <2>5, Held DEF Writable
  <2> QED BY <2>3, <2>6
<1>10. ~AtBroken(p)
  <2> SUFFICES ASSUME AtBroken(p)
               PROVE  FALSE
    OBVIOUS
  <2>1. PICK x \in Channels : p = Giver(x) /\ pc[p] = GiveAt(x) /\ Call(p).pipe = x
    BY ChildrenCalls DEF AtBroken
  <2>2. /\ Taker(x) \in Process /\ TakeAt(x) \in Nat /\ TakeAt(x) < Closing(Taker(x)) /\ Taker(x) <= Forks + 1 /\ R(x) \in Mine(Taker(x))
        /\ Closing(Taker(x)) \in Nat /\ GiveAt(x) \in Nat
    BY PipePlaces
  <2>3. ~Readable(x)
    BY <2>1 DEF AtBroken, Broken
  <2>4. ~Taken(x)
    <3>1. ~Given(x)
      BY <2>1, <2>2 DEF Given
    <3> QED BY <1>4, <3>1
  <2>5. pc[Taker(x)] <= Closing(Taker(x))
    BY <1>3, <2>2, <2>4 DEF Taken
  <2>6. Readable(x)
    BY <1>3, <1>4, <2>2, <2>5, Held DEF Readable
  <2> QED BY <2>3, <2>6
<1>11. ASSUME NEW m, TakeSome(p, m)
       PROVE  ChildrenInv'
  <2>1. PICK x \in Channels : p = Taker(x) /\ pc[p] = TakeAt(x) /\ Call(p).op = "read" /\ Call(p).pipe = x /\ Call(p).n = 1
    BY <1>11, ChildrenCalls DEF TakeSome
  <2>2. Took(p, m, x)
    BY <1>11, <2>1, Takes
  <2>3. m = 1 /\ moved[p] = 0 /\ Len(pipe[x]) >= 1
    <3>1. m \in {1, 2} /\ m <= Len(pipe[x]) /\ moved[p] + m <= 1 /\ moved[p] \in {0, 1}
      BY <1>3, <1>11, <2>1, <2>2 DEF TakeSome, Took
    <3>2. m = 1 /\ moved[p] = 0
      BY <3>1
    <3> QED BY <3>1, <3>2
  <2>4. pc' = [pc EXCEPT ![p] = @ + 1] /\ UNCHANGED status
    BY <1>11, <2>1, <2>3 DEF TakeSome, Return, read
  <2>5. Given(x) /\ ~Taken(x) /\ pipe[x] = <<b>>
    <3>1. Len(pipe[x]) # 0
      BY <2>2, <2>3 DEF Took
    <3>2. pipe[x] # <<>>
      BY <3>1
    <3> QED BY <1>4, <3>2
  <2>6. got' = got \o << <<p, b>> >>
    <3>1. pipe[x][1] = b
      BY <2>5
    <3>2. [k \in 1 .. 1 |-> <<p, pipe[x][k]>>] = << <<p, b>> >>
      <4>1. [k \in 1 .. 1 |-> <<p, pipe[x][k]>>] = [k \in 1 .. 1 |-> <<p, b>>]
        BY <3>1
      <4>2. [k \in 1 .. 1 |-> <<p, b>>] = << <<p, b>> >>
        OBVIOUS
      <4> QED BY <4>1, <4>2
    <3> QED BY <1>11, <2>1, <2>3, <3>2 DEF TakeSome
  <2>7. \A y \in Channels : (Given(y)' <=> Given(y)) /\ (Taken(y)' <=> Taken(y) \/ y = x)
    <3> TAKE y \in Channels
    <3>1. (Given(y)' <=> Given(y) \/ (p = Giver(y) /\ pc[p] = GiveAt(y))) /\ (Taken(y)' <=> Taken(y) \/ (p = Taker(y) /\ pc[p] = TakeAt(y)))
      BY <2>4, Use
    <3>2. Taker(x) = Taker(y) /\ TakeAt(x) = TakeAt(y) => x = y
      BY PipePlaces
    <3>3. ~(Giver(y) = Taker(x) /\ GiveAt(y) = TakeAt(x))
      BY PipePlaces
    <3> QED BY <2>1, <3>1, <3>2, <3>3
  <2>8. \A y \in Channels : pipe'[y] = IF Given(y)' /\ ~Taken(y)' THEN <<b>> ELSE <<>>
    <3>1. pipe'[x] = <<>>
      <4>1. Len(pipe[x]) = 1
        BY <2>5
      <4>2. pipe'[x] \in Seq(Bytes) /\ Len(pipe'[x]) = 0
        BY <2>2, <2>3, <4>1 DEF Took
      <4> QED BY <4>2
    <3>2. \A y \in Channels \ {x} : pipe'[y] = pipe[y]
      BY <2>2, PipePlaces DEF Took
    <3> QED BY <1>4, <2>7, <3>1, <3>2
  <2>9. got' \in Story(Taken("p2c"), Taken("p2c2"), Taken("c2p"), Taken("c2p2"))'
    <3>1. /\ Taken("c2p") => Given("c2p")
          /\ Taken("c2p2") => Given("c2p2")
      BY <1>4 DEF Channels
    <3>2. /\ Given("c2p") => Taken("p2c")
          /\ Given("c2p2") => Taken("p2c2")
          /\ Taken("c2p2") => Taken("c2p")
      <4>1. pc[1] \in Nat /\ pc[2] \in Nat /\ pc[3] \in Nat
        BY <1>3, TheThree
      <4> QED BY <4>1 DEF Given, Taken, Giver, Taker, GiveAt, TakeAt, Main, Child1, Child2
    <3> DEFINE r1 == Taken("p2c")  r2 == Taken("p2c2")  h1 == Taken("c2p")  h2 == Taken("c2p2")
    <3>3. r1 \in BOOLEAN /\ r2 \in BOOLEAN /\ h1 \in BOOLEAN /\ h2 \in BOOLEAN
      BY DEF Taken
    <3>4. (h1 => r1) /\ (h2 => h1 /\ r2) /\ got \in Story(r1, r2, h1, h2)
      BY <1>4, <3>1, <3>2
    <3>5. (x = "c2p" => r1) /\ (x = "c2p2" => r2)
      BY <2>5, <3>2
    <3>6. x = "c2p2" => h1
      <4>1. pc[1] \in Nat
        BY <1>3, TheThree
      <4> QED BY <2>1, <4>1 DEF Taken, Taker, TakeAt, Main
    <3>7. /\ r1' <=> r1 \/ x = "p2c"
          /\ r2' <=> r2 \/ x = "p2c2"
          /\ h1' <=> h1 \/ x = "c2p"
          /\ h2' <=> h2 \/ x = "c2p2"
      BY <2>7 DEF Channels
    <3>8. \A v1, v2, v3, v4 : (v1 <=> r1') /\ (v2 <=> r2') /\ (v3 <=> h1') /\ (v4 <=> h2') =>
            Story(v1, v2, v3, v4) = Story(r1, r2, h1, h2)'
      BY <1>1 DEF Story
    <3> HIDE DEF r1, r2, h1, h2
    <3>9. CASE x = "p2c"
      <4>1. p = Child1 /\ ~r1
        BY <2>1, <2>5, <3>9 DEF Taker, r1
      <4>2. got' \in Story(TRUE, r2, h1, h2)
        BY <2>6, <3>3, <3>4, <4>1, Tales
      <4>3. Story(TRUE, r2, h1, h2) = Story(r1, r2, h1, h2)'
        BY <3>7, <3>8, <3>9
      <4> QED BY <4>2, <4>3 DEF r1, r2, h1, h2
    <3>10. CASE x = "p2c2"
      <4>1. p = Child2 /\ ~r2
        BY <2>1, <2>5, <3>10 DEF Taker, r2
      <4>2. got' \in Story(r1, TRUE, h1, h2)
        BY <2>6, <3>3, <3>4, <4>1, Tales
      <4>3. Story(r1, TRUE, h1, h2) = Story(r1, r2, h1, h2)'
        BY <3>7, <3>8, <3>10
      <4> QED BY <4>2, <4>3 DEF r1, r2, h1, h2
    <3>11. CASE x = "c2p"
      <4>1. p = Main /\ r1 /\ ~h1
        BY <2>1, <2>5, <3>5, <3>11 DEF Taker, h1
      <4>2. got' \in Story(r1, r2, TRUE, h2)
        BY <2>6, <3>3, <3>4, <4>1, Tales
      <4>3. Story(r1, r2, TRUE, h2) = Story(r1, r2, h1, h2)'
        BY <3>7, <3>8, <3>11
      <4> QED BY <4>2, <4>3 DEF r1, r2, h1, h2
    <3>12. CASE x = "c2p2"
      <4>1. p = Main /\ r2 /\ h1 /\ ~h2
        BY <2>1, <2>5, <3>5, <3>6, <3>12 DEF Taker, h2
      <4>2. got' \in Story(r1, r2, h1, TRUE)
        BY <2>6, <3>3, <3>4, <4>1, Tales
      <4>3. Story(r1, r2, h1, TRUE) = Story(r1, r2, h1, h2)'
        BY <3>7, <3>8, <3>12
      <4> QED BY <4>2, <4>3 DEF r1, r2, h1, h2
    <3> QED BY <3>9, <3>10, <3>11, <3>12 DEF Channels
  <2>10. Whole'
    BY <1>4, <2>4 DEF Whole
  <2>11. \A y \in Channels : Taken(y)' => Given(y)'
    BY <1>4, <2>5, <2>7
  <2> QED BY <1>1, <2>8, <2>9, <2>10, <2>11 DEF ChildrenInv
<1>12. ASSUME NEW m, PutSome(p, m)
       PROVE  ChildrenInv'
  <2>1. PICK x \in Channels : /\ p = Giver(x) /\ pc[p] = GiveAt(x) /\ Call(p).op = "write" /\ Call(p).pipe = x
                               /\ Call(p).bytes \in {<<b>>, <<Cur(p)>>} /\ Len(Call(p).bytes) = 1
    BY <1>12, ChildrenCalls DEF PutSome
  <2>2. Placed(p, m, x)
    BY <1>12, <2>1, Puts
  <2>3. m = 1 /\ moved[p] = 0
    <3>1. moved[p] \in {0, 1} /\ moved[p] + m <= Len(Call(p).bytes) /\ m \in {1, 2}
      BY <1>3, <1>12, <2>2 DEF PutSome, Placed
    <3>2. moved[p] + m <= 1
      BY <2>1, <3>1
    <3> QED BY <3>1, <3>2
  <2>4. pc' = [pc EXCEPT ![p] = @ + 1] /\ UNCHANGED <<status, got>>
    <3>1. moved[p] + m = 1
      BY <2>3
    <3>2. Len(Call(p).bytes) = 1
      BY <2>1
    <3>3. moved[p] + m = Len(Call(p).bytes)
      BY <3>1, <3>2
    <3>4. Return(p) /\ UNCHANGED <<status, got>>
      BY <1>12, <3>3 DEF PutSome, write
    <3> QED BY <3>4 DEF Return
  <2>5. ~Given(x) /\ ~Taken(x) /\ pipe[x] = <<>>
    <3>1. ~Given(x)
      BY <2>1, PipePlaces DEF Given
    <3> QED BY <1>4, <3>1
  <2>6. pipe'[x] = <<b>>
    <3>1. Call(p).bytes = <<b>>
      BY <1>5, <2>1
    <3>2. Len(pipe[x]) = 0
      BY <2>5
    <3>3. Len(pipe'[x]) = 1 /\ pipe'[x] \in Seq(Bytes) /\ pipe'[x][0 + 1] = Call(p).bytes[0 + 1]
      BY <2>2, <2>3, <3>2 DEF Placed
    <3>4. pipe'[x][1] = b
      BY <3>1, <3>3
    <3> QED BY <3>3, <3>4
  <2>7. \A y \in Channels : (Given(y)' <=> Given(y) \/ y = x) /\ (Taken(y)' <=> Taken(y))
    <3> TAKE y \in Channels
    <3>1. (Given(y)' <=> Given(y) \/ (p = Giver(y) /\ pc[p] = GiveAt(y))) /\ (Taken(y)' <=> Taken(y) \/ (p = Taker(y) /\ pc[p] = TakeAt(y)))
      BY <2>4, Use
    <3>2. Giver(x) = Giver(y) /\ GiveAt(x) = GiveAt(y) => x = y
      BY PipePlaces
    <3>3. ~(Giver(x) = Taker(y) /\ GiveAt(x) = TakeAt(y))
      BY PipePlaces
    <3> QED BY <2>1, <3>1, <3>2, <3>3
  <2>8. \A y \in Channels : pipe'[y] = IF Given(y)' /\ ~Taken(y)' THEN <<b>> ELSE <<>>
    <3>1. \A y \in Channels \ {x} : pipe'[y] = pipe[y]
      BY <2>2, PipePlaces DEF Placed
    <3> QED BY <1>4, <2>5, <2>6, <2>7, <3>1
  <2>9. got' \in Story(Taken("p2c"), Taken("p2c2"), Taken("c2p"), Taken("c2p2"))'
    <3>1. "p2c" \in Channels /\ "p2c2" \in Channels /\ "c2p" \in Channels /\ "c2p2" \in Channels
      BY DEF Channels
    <3> QED BY <1>1, <1>4, <2>4, <2>7, <3>1 DEF Story
  <2>10. Whole'
    BY <1>4, <2>4 DEF Whole
  <2>11. \A y \in Channels : Taken(y)' => Given(y)'
    BY <1>4, <2>7
  <2> QED BY <1>1, <2>8, <2>9, <2>10, <2>11 DEF ChildrenInv
<1> QED BY <1>2, <1>7, <1>8, <1>9, <1>10, <1>11, <1>12 DEF Moves
-----------------------------------------------------------------------------
(* handshake1.c to handshake3.c: data down, an answer up, whatever fails. *)

\* What is sent in these programs.
LEMMA Spoken ==
  ASSUME Kernel, program \in Requests
  PROVE  /\ Data = (IF program = 3 THEN <<b, Byte(args[2])>> ELSE <<b>>) /\ MainSays(1) = Data
         /\ Width = (IF program = 3 THEN 2 ELSE 1) /\ Width \in {1, 2} /\ Len(Data) = Width /\ Data[1] = b
         /\ program \in Pairs /\ Turns = 2 /\ Forks = 1 /\ Down(1) /\ ~Down(2)
         /\ Length(Main) = 6 /\ Length(Child1) = 4 /\ Length(Child2) = 0
<1>1. Data = (IF program = 3 THEN <<b, Byte(args[2])>> ELSE <<b>>) /\ MainSays(1) = Data
  BY DEF Data, MainSays, Requests
<1>2. Width = (IF program = 3 THEN 2 ELSE 1) /\ Width \in {1, 2}
  BY DEF Width
<1>3. Len(Data) = Width /\ Data[1] = b
  <2>1. \A x, y : Len(<<x>>) = 1 /\ Len(<<x, y>>) = 2 /\ <<x>>[1] = x /\ <<x, y>>[1] = x
    OBVIOUS
  <2>2. CASE program = 3
    BY <1>1, <1>2, <2>1, <2>2
  <2>3. CASE program # 3
    BY <1>1, <1>2, <2>1, <2>3
  <2> QED BY <2>2, <2>3
<1>4. program \in Pairs /\ Turns = 2 /\ Forks = 1
  BY DEF Pairs, Turns, Forks, Requests
<1>5. Down(1) /\ ~Down(2)
  BY DEF Down, Shift, Requests
<1>6. Length(Main) = 6 /\ Length(Child1) = 4 /\ Length(Child2) = 0
  BY <1>4 DEF Length, Main, Child1, Child2
<1> QED BY <1>1, <1>2, <1>3, <1>4, <1>5, <1>6

\* The calls of these programs.
LEMMA RequestCalls ==
  ASSUME Kernel, program \in Requests, NEW p \in Process, pc[p] <= Length(p)
  PROVE  /\ p \in {Main, Child1} /\ pc[p] \in Nat
         /\ p = Main => \/ pc[p] \in {1, 2, 5, 6} /\ Call(p).op \notin {"read", "drain", "write"}
                        \/ pc[p] = 3 /\ Call(p).op = "write" /\ Call(p).pipe = "p2c" /\ Call(p).bytes = Data
                        \/ pc[p] = 4 /\ Call(p).op = "read" /\ Call(p).pipe = "c2p" /\ Call(p).n = 1 /\ Call(p).fail = "exit"
         /\ p = Child1 => \/ pc[p] \in {1, 4} /\ Call(p).op \notin {"read", "drain", "write"}
                          \/ pc[p] = 2 /\ Call(p).op = "read" /\ Call(p).pipe = "p2c" /\ Call(p).n = Width /\ Call(p).fail = "exit"
                          \/ /\ pc[p] = 3 /\ Call(p).op = "write" /\ Call(p).pipe = "c2p" /\ Call(p).bytes = ChildSays
                             /\ Len(Call(p).bytes) = 1 /\ Call(p).fail = "exit"
<1>1. pc[p] \in 1 .. Length(p) /\ Call(p) = Code[p][pc[p]] /\ pc[p] \in Nat
  BY Calling, TheThree DEF Call
<1>2. PairTables /\ args \in Args /\ got \in Histories
  BY Spoken, PairCode DEF Kernel
<1>3. p \in {Main, Child1}
  <2>1. p # Child2
    BY <1>1, Spoken
  <2> QED BY <2>1, TheThree
<1>4. ASSUME p = Main
      PROVE  \/ pc[p] \in {1, 2, 5, 6} /\ Call(p).op \notin {"read", "drain", "write"}
             \/ pc[p] = 3 /\ Call(p).op = "write" /\ Call(p).pipe = "p2c" /\ Call(p).bytes = Data
             \/ pc[p] = 4 /\ Call(p).op = "read" /\ Call(p).pipe = "c2p" /\ Call(p).n = 1 /\ Call(p).fail = "exit"
  <2>1. pc[p] \in {1, 2, 5, 6} \/ pc[p] = 3 \/ pc[p] = 4
    BY <1>1, <1>4, Spoken
  <2>2. CASE pc[p] \in {1, 2, 5, 6}
    BY <1>1, <1>2, <1>4, <2>2, Spoken, Fields DEF PairTables
  <2>3. CASE pc[p] = 3
    <3>1. MainTurn(1, Code[Main][3])
      <4>1. MainTurn(1, Code[Main][1 + 2]) /\ 1 + 2 = 3
        BY <1>2, Spoken DEF PairTables
      <4> QED BY <4>1
    <3>2. PICK f : Code[Main][3] = Write("p2c", Data, f)
      BY <3>1, Spoken DEF MainTurn
    <3> QED BY <1>1, <1>4, <2>3, <3>2, Fields
  <2>4. CASE pc[p] = 4
    <3>1. MainTurn(2, Code[Main][4])
      <4>1. MainTurn(2, Code[Main][2 + 2]) /\ 2 + 2 = 4
        BY <1>2, Spoken DEF PairTables
      <4> QED BY <4>1
    <3>2. Code[Main][4] = Read("c2p", 1, "exit")
      BY <3>1, Spoken DEF MainTurn, Requests
    <3> QED BY <1>1, <1>4, <2>4, <3>2, Fields
  <2> QED BY <2>1, <2>2, <2>3, <2>4
<1>5. ASSUME p = Child1
      PROVE  \/ pc[p] \in {1, 4} /\ Call(p).op \notin {"read", "drain", "write"}
             \/ pc[p] = 2 /\ Call(p).op = "read" /\ Call(p).pipe = "p2c" /\ Call(p).n = Width /\ Call(p).fail = "exit"
             \/ /\ pc[p] = 3 /\ Call(p).op = "write" /\ Call(p).pipe = "c2p" /\ Call(p).bytes = ChildSays
                /\ Len(Call(p).bytes) = 1 /\ Call(p).fail = "exit"
  <2>1. pc[p] \in {1, 4} \/ pc[p] = 2 \/ pc[p] = 3
    BY <1>1, <1>5, Spoken
  <2>2. CASE pc[p] \in {1, 4}
    BY <1>1, <1>2, <1>5, <2>2, Spoken, Fields DEF PairTables
  <2>3. CASE pc[p] = 2
    <3>1. ChildTurn(1, Code[Child1][2])
      <4>1. ChildTurn(1, Code[Child1][1 + 1]) /\ 1 + 1 = 2
        BY <1>2, Spoken DEF PairTables
      <4> QED BY <4>1
    <3>2. Code[Child1][2] = Read("p2c", Width, "exit")
      BY <3>1, Spoken DEF ChildTurn, Requests
    <3> QED BY <1>1, <1>5, <2>3, <3>2, Fields
  <2>4. CASE pc[p] = 3
    <3>1. ChildTurn(2, Code[Child1][3])
      <4>1. ChildTurn(2, Code[Child1][2 + 1]) /\ 2 + 1 = 3
        BY <1>2, Spoken DEF PairTables
      <4> QED BY <4>1
    <3>2. Code[Child1][3] = Write("c2p", ChildSays, "exit")
      BY <3>1, Spoken DEF ChildTurn, Requests
    <3>3. Len(ChildSays) = 1
      BY <1>2, Spoken, Said
    <3> QED BY <1>1, <1>5, <2>4, <3>2, <3>3, Fields
  <2> QED BY <2>1, <2>2, <2>3, <2>4
<1> QED BY <1>1, <1>3, <1>4, <1>5

\* The child answers with what it has read.
LEMMA Answers ==
  ASSUME Kernel, program \in Requests, RequestInv, pc[Child1] = 3
  PROVE  ChildSays = <<Answer>>
<1>1. got \in Histories /\ Eaten = Width /\ pc[Main] \in Nat /\ ~(pc[Main] >= 5)
  BY TheThree DEF Kernel, Eaten, RequestInv
<1>2. Len(got) = Width /\ got[1] = <<Child1, b>>
  <2>1. Len(got) = Width
    BY <1>1, Spoken DEF RequestInv
  <2>2. 1 \in 1 .. Eaten
    BY <1>1, Spoken
  <2>3. got[1] = <<Child1, Data[1]>>
    BY <2>2 DEF RequestInv
  <2> QED BY <2>1, <2>3, Spoken
<1>3. CASE program = 1
  <2>1. Len(got) = 1
    BY <1>2, <1>3, Spoken
  <2>2. Cur(Child1) = b
    BY <1>1, <1>2, <2>1, LastRead
  <2> QED BY <1>3, <2>2 DEF ChildSays, Answer
<1>4. CASE program = 2
  BY <1>4 DEF ChildSays, Answer
<1>5. CASE program = 3
  <2>1. 1 \in By(Child1, got) /\ \A j \in By(Child1, got) : 1 <= j
    <3>1. Len(got) \in Nat /\ DOMAIN got = 1 .. Len(got) /\ 1 \in 1 .. Len(got)
      BY <1>1, <1>2, Spoken DEF Histories
    <3> QED BY <1>2, <3>1 DEF By
  <2>2. Min(By(Child1, got)) = 1
    BY <1>1, <2>1, Variables
  <2>3. First(Child1) = b
    BY <1>2, <2>1, <2>2 DEF First
  <2> QED BY <1>5, <2>3 DEF ChildSays, Answer
<1> QED BY <1>3, <1>4, <1>5 DEF Requests

\* Nothing is sent at first.
LEMMA RequestInit == Init /\ program \in Requests => RequestInv
<1> SUFFICES ASSUME Init, program \in Requests
             PROVE  RequestInv
  OBVIOUS
<1>1. Kernel /\ "p2c" \in Pipe /\ "c2p" \in Pipe
  BY KernelAtFirst, HandshakeAssumption
<1>2. got = <<>> /\ pc = [p \in Process |-> 1] /\ pipe["p2c"] = <<>> /\ pipe["c2p"] = <<>>
  BY <1>1 DEF Init, KernelInit
<1>3. Len(got) = 0 /\ Len(pipe["p2c"]) = 0 /\ 1 .. 0 = {} /\ pc[Main] = 1 /\ pc[Child1] = 1
  BY <1>1, <1>2, TheThree
<1>4. Eaten = 0 /\ Passed = 0 /\ 0 <= Width
  BY <1>1, <1>3, Spoken DEF Eaten, Passed
<1> QED BY <1>2, <1>3, <1>4 DEF RequestInv

\* A step preserves what the first three programs have sent and answered.
LEMMA RequestStep ==
  ASSUME Kernel, Life, program \in Requests, RequestInv, Next
  PROVE  RequestInv'
<1>1. UNCHANGED <<program, args>> /\ Width' = Width /\ b' = b
  BY Steps, Same
<1>2. PICK p \in Process : Moves(p)
  BY Steps
<1>3. Data' = Data /\ Answer' = Answer
  BY <1>1 DEF Data, MainSays, Answer, Requests
<1>4. /\ Main # Child1 /\ Main \in Process /\ Child1 \in Process /\ pc \in [Process -> Nat] /\ moved \in [Process -> {0, 1}]
      /\ "p2c" \in Pipe /\ "c2p" \in Pipe /\ "p2c" # "c2p" /\ Width \in {1, 2} /\ Running(p)
      /\ got \in Histories /\ Len(got) \in Nat /\ Len(pipe["p2c"]) \in Nat
  <2>1. Main # Child1 /\ Main \in Process /\ Child1 \in Process /\ pc \in [Process -> Nat] /\ moved \in [Process -> {0, 1}]
    BY TheThree
  <2>2. "p2c" \in Pipe /\ "c2p" \in Pipe
    BY HandshakeAssumption
  <2>3. got \in Histories /\ Len(got) \in Nat /\ Len(pipe["p2c"]) \in Nat
    BY <2>2 DEF Kernel, Histories
  <2> QED BY <1>2, <2>1, <2>2, <2>3, Spoken, Places
<1>5. PICK e \in Nat : e = Eaten
  BY <1>4 DEF Eaten
<1>6. PICK f \in Nat : f = Len(pipe["p2c"])
  BY <1>4
<1>7. /\ Passed = e + f /\ e + f <= Width /\ \A i \in 1 .. f : pipe["p2c"][i] = Data[e + i]
      /\ pc[Main] <= 2 => e + f = 0
      /\ pc[Main] = 3 => e + f = moved[Main]
      /\ pc[Main] >= 5 => pc[Child1] >= 4
      /\ pipe["c2p"] = IF pc[Child1] >= 4 /\ pc[Main] <= 4 THEN <<Answer>> ELSE <<>>
      /\ Len(got) = e + (IF pc[Main] >= 5 THEN 1 ELSE 0)
      /\ \A i \in 1 .. e : got[i] = <<Child1, Data[i]>>
      /\ pc[Main] >= 5 => got[Width + 1] = <<Main, Answer>>
  BY <1>5, <1>6 DEF RequestInv, Passed
\* A step that moves no byte.
<1>8. ASSUME UNCHANGED <<pipe, got>>, Eaten' = e, pc'[Main] >= 5 <=> pc[Main] >= 5, pc'[Main] <= 4 <=> pc[Main] <= 4,
             pc'[Child1] >= 4 <=> pc[Child1] >= 4, pc'[Main] <= 2 => pc[Main] <= 2, pc'[Main] = 3 => e + f = moved'[Main]
      PROVE  RequestInv'
  <2>1. Passed' = e + f
    BY <1>6, <1>8 DEF Passed
  <2> QED BY <1>1, <1>3, <1>6, <1>7, <1>8, <2>1 DEF RequestInv
<1>9. ASSUME UNCHANGED <<pipe, got, pc, moved>>
      PROVE  RequestInv'
  <2>1. Eaten' = e
    BY <1>1, <1>5, <1>9 DEF Eaten
  <2> QED BY <1>7, <1>8, <1>9, <2>1
<1>10. CASE Quiet(p)
  <2>1. /\ pc[p] <= Length(p) /\ Call(p).op \in {"close", "fork", "wait"} /\ UNCHANGED <<pipe, got>>
        /\ pc' = [pc EXCEPT ![p] = @ + 1] /\ moved' = [moved EXCEPT ![p] = 0]
    BY <1>10 DEF Quiet, Return
  <2>2. (p = Main /\ pc[p] \in {1, 2, 5, 6}) \/ (p = Child1 /\ pc[p] \in {1, 4})
    BY <2>1, RequestCalls
  <2>3. CASE p = Main /\ pc[p] \in {1, 2, 5, 6}
    <3>1. pc'[Main] = pc[Main] + 1 /\ moved'[Main] = 0 /\ pc'[Child1] = pc[Child1] /\ moved'[Child1] = moved[Child1]
      BY <1>4, <2>1, <2>3
    <3>2. Eaten' = e
      BY <1>1, <1>5, <3>1 DEF Eaten
    <3>3. pc'[Main] = 3 => e + f = moved'[Main]
      BY <1>7, <2>3, <3>1
    <3>4. (pc'[Main] >= 5 <=> pc[Main] >= 5) /\ (pc'[Main] <= 4 <=> pc[Main] <= 4) /\ (pc'[Main] <= 2 => pc[Main] <= 2)
      BY <2>3, <3>1
    <3> QED BY <1>8, <2>1, <3>1, <3>2, <3>3, <3>4
  <2>4. CASE p = Child1 /\ pc[p] \in {1, 4}
    <3>1. pc'[Child1] = pc[Child1] + 1 /\ moved'[Child1] = 0 /\ pc'[Main] = pc[Main] /\ moved'[Main] = moved[Main]
      BY <1>4, <2>1, <2>4
    <3>2. Eaten' = e
      BY <1>1, <1>5, <2>4, <3>1 DEF Eaten
    <3>3. pc'[Child1] >= 4 <=> pc[Child1] >= 4
      BY <2>4, <3>1
    <3> QED BY <1>7, <1>8, <2>1, <3>1, <3>2, <3>3
  <2> QED BY <2>2, <2>3, <2>4
<1>11. CASE Stops(p)
  BY <1>9, <1>11 DEF Stops, exit
<1>12. CASE AtEof(p)
  <2>1. Call(p).fail = "exit"
    BY <1>12, RequestCalls DEF AtEof
  <2> QED BY <1>9, <1>12, <2>1 DEF AtEof, Fail, exit
<1>13. CASE AtBroken(p)
  <2>1. (p = Main /\ pc[p] = 3) \/ (p = Child1 /\ Call(p).fail = "exit")
    BY <1>13, RequestCalls DEF AtBroken
  <2>2. CASE Call(p).fail = "exit"
    BY <1>9, <1>13, <2>2 DEF AtBroken, Fail, exit
  <2>3. CASE p = Main /\ pc[p] = 3 /\ Call(p).fail # "exit"
    <3>1. UNCHANGED <<pipe, got>> /\ pc' = [pc EXCEPT ![p] = @ + 1] /\ moved' = [moved EXCEPT ![p] = 0]
      BY <1>13, <2>3 DEF AtBroken, Fail, Return, kernelVars
    <3>2. pc[Main] = 3 /\ pc'[Main] = 4 /\ pc'[Child1] = pc[Child1] /\ moved'[Child1] = moved[Child1]
      BY <1>4, <2>3, <3>1
    <3>3. Eaten' = e
      BY <1>1, <1>5, <3>2 DEF Eaten
    <3> QED BY <1>8, <3>1, <3>2, <3>3
  <2> QED BY <2>1, <2>2, <2>3
<1>14. ASSUME NEW m, TakeSome(p, m)
       PROVE  RequestInv'
  <2>1. \/ p = Child1 /\ pc[p] = 2 /\ Call(p).pipe = "p2c" /\ Call(p).n = Width /\ Call(p).op = "read"
        \/ p = Main /\ pc[p] = 4 /\ Call(p).pipe = "c2p" /\ Call(p).n = 1 /\ Call(p).op = "read"
    BY <1>14, RequestCalls DEF TakeSome
  <2>2. CASE p = Child1 /\ pc[p] = 2 /\ Call(p).pipe = "p2c" /\ Call(p).n = Width /\ Call(p).op = "read"
    <3>1. Took(p, m, "p2c")
      BY <1>14, <2>2, Takes
    <3>2. m \in {1, 2} /\ e = moved[p] /\ e + m <= Width
      BY <1>4, <1>5, <1>14, <2>2, <3>1 DEF Took, TakeSome, Eaten
    <3>3. IF e + m = Width THEN Return(p) ELSE moved' = [moved EXCEPT ![p] = @ + m] /\ UNCHANGED pc
      BY <1>14, <2>2, <3>2 DEF TakeSome
    <3>4. pc'[Main] = pc[Main] /\ moved'[Main] = moved[Main]
      BY <1>4, <2>2, <3>3 DEF Return
    <3>5. Eaten' = e + m /\ ~(pc'[Child1] >= 4) /\ ~(pc[Child1] >= 4)
      <4>1. CASE e + m = Width
        <5>1. pc'[Child1] = 3
          BY <1>4, <2>2, <3>3, <4>1 DEF Return
        <5> QED BY <1>1, <2>2, <4>1, <5>1 DEF Eaten
      <4>2. CASE e + m # Width
        <5>1. pc'[Child1] = 2 /\ moved'[Child1] = e + m
          BY <1>4, <2>2, <3>2, <3>3, <4>2
        <5> QED BY <1>1, <2>2, <5>1 DEF Eaten
      <4> QED BY <4>1, <4>2
    <3>6. /\ m <= f /\ Len(pipe'["p2c"]) = f - m /\ (\A i \in 1 .. f - m : pipe'["p2c"][i] = pipe["p2c"][m + i])
          /\ pipe'["c2p"] = pipe["c2p"] /\ Len(got') = Len(got) + m /\ (\A i \in 1 .. Len(got) : got'[i] = got[i])
          /\ \A k \in 1 .. m : got'[Len(got) + k] = <<p, pipe["p2c"][k]>>
      BY <1>4, <1>6, <3>1 DEF Took
    <3>7. ~(pc[Main] >= 5) /\ Len(got) = e
      BY <1>7, <2>2
    <3>8. Passed' = e + f
      <4>1. (e + m) + (f - m) = e + f
        BY <1>5, <1>6, <3>2
      <4> QED BY <3>5, <3>6, <4>1 DEF Passed
    <3>9. \A i \in 1 .. f - m : pipe'["p2c"][i] = Data[(e + m) + i]
      <4>1. \A i \in 1 .. f - m : m + i \in 1 .. f /\ e + (m + i) = (e + m) + i
        BY <1>5, <1>6, <3>2
      <4> QED BY <1>7, <3>6, <4>1
    <3>10. \A i \in 1 .. e + m : got'[i] = <<Child1, Data[i]>>
      <4>1. \A k \in 1 .. m : k \in 1 .. f
        BY <1>5, <1>6, <3>2, <3>6
      <4>2. \A k \in 1 .. m : got'[e + k] = <<Child1, Data[e + k]>>
        BY <1>7, <2>2, <3>6, <3>7, <4>1
      <4>3. \A i \in 1 .. e + m : i \in 1 .. e \/ (i - e \in 1 .. m /\ i = e + (i - e))
        BY <1>5, <3>2
      <4> QED BY <1>7, <3>6, <3>7, <4>2, <4>3
    <3> QED BY <1>1, <1>3, <1>7, <3>4, <3>5, <3>6, <3>7, <3>8, <3>9, <3>10 DEF RequestInv
  <2>3. CASE p = Main /\ pc[p] = 4 /\ Call(p).pipe = "c2p" /\ Call(p).n = 1 /\ Call(p).op = "read"
    <3>1. Took(p, m, "c2p")
      BY <1>14, <2>3, Takes
    <3>2. m = 1 /\ moved[p] = 0
      <4>1. m \in {1, 2} /\ moved[p] \in {0, 1} /\ moved[p] + m <= 1
        BY <1>4, <1>14, <2>3, <3>1 DEF Took, TakeSome
      <4> QED BY <4>1
    <3>3. Return(p)
      BY <1>14, <2>3, <3>2 DEF TakeSome
    <3>4. pc[Main] = 4 /\ pc'[Main] = 5 /\ pc'[Child1] = pc[Child1] /\ moved'[Child1] = moved[Child1]
      BY <1>4, <2>3, <3>3 DEF Return
    <3>5. pipe["c2p"] = <<Answer>> /\ pc[Child1] >= 4
      <4>1. Len(pipe["c2p"]) # 0
        BY <3>1, <3>2 DEF Took
      <4>2. pipe["c2p"] # <<>>
        BY <4>1
      <4> QED BY <1>7, <4>2
    <3>6. e = Width /\ Eaten' = e
      BY <1>1, <1>4, <1>5, <3>4, <3>5 DEF Eaten
    <3>7. pipe'["p2c"] = pipe["p2c"] /\ Len(got') = Len(got) + 1 /\ (\A i \in 1 .. Len(got) : got'[i] = got[i]) /\ got'[Len(got) + 1] = <<Main, Answer>>
      <4>1. 1 \in 1 .. m /\ pipe["c2p"][1] = Answer
        BY <3>2, <3>5
      <4> QED BY <1>4, <2>3, <3>1, <3>2, <4>1 DEF Took
    <3>8. pipe'["c2p"] = <<>>
      <4>1. Len(pipe["c2p"]) = 1
        BY <3>5
      <4>2. pipe'["c2p"] \in Seq(Bytes) /\ Len(pipe'["c2p"]) = 0
        BY <3>1, <3>2, <4>1 DEF Took
      <4> QED BY <4>2
    <3>9. Len(got) = e
      BY <1>7, <3>4
    <3>10. Passed' = e + f
      BY <1>6, <3>6, <3>7 DEF Passed
    <3>11. \A i \in 1 .. e : got'[i] = <<Child1, Data[i]>>
      BY <1>7, <3>7, <3>9
    <3>12. got'[Width + 1] = <<Main, Answer>> /\ Len(got') = e + 1
      BY <3>6, <3>7, <3>9
    <3> QED BY <1>1, <1>3, <1>6, <1>7, <3>4, <3>5, <3>6, <3>7, <3>8, <3>10, <3>11, <3>12 DEF RequestInv
  <2> QED BY <2>1, <2>2, <2>3
<1>15. ASSUME NEW m, PutSome(p, m)
       PROVE  RequestInv'
  <2>1. \/ p = Main /\ pc[p] = 3 /\ Call(p).pipe = "p2c" /\ Call(p).bytes = Data
        \/ p = Child1 /\ pc[p] = 3 /\ Call(p).pipe = "c2p" /\ Call(p).bytes = ChildSays /\ Len(Call(p).bytes) = 1
    BY <1>15, RequestCalls DEF PutSome
  <2>2. CASE p = Main /\ pc[p] = 3 /\ Call(p).pipe = "p2c" /\ Call(p).bytes = Data
    <3>1. Placed(p, m, "p2c")
      BY <1>15, <2>2, Puts
    <3>2. m \in {1, 2} /\ e + f = moved[p] /\ Len(Call(p).bytes) = Width
      BY <1>7, <2>2, <3>1, Spoken DEF Placed
    <3>3. e + f + m <= Width
      <4>1. moved[p] + m <= Len(Call(p).bytes)
        BY <1>15 DEF PutSome
      <4> QED BY <3>2, <4>1
    <3>4. IF e + f + m = Width THEN Return(p) ELSE moved' = [moved EXCEPT ![p] = @ + m] /\ UNCHANGED pc
      <4>1. IF moved[p] + m = Len(Call(p).bytes) THEN Return(p) ELSE moved' = [moved EXCEPT ![p] = @ + m] /\ UNCHANGED pc
        BY <1>15 DEF PutSome
      <4>2. moved[p] + m = Len(Call(p).bytes) <=> e + f + m = Width
        BY <3>2
      <4> QED BY <4>1, <4>2
    <3>5. pc'[Child1] = pc[Child1] /\ moved'[Child1] = moved[Child1] /\ UNCHANGED got
      <4>1. UNCHANGED got
        BY <1>15 DEF PutSome
      <4> QED BY <1>4, <2>2, <3>4, <4>1 DEF Return
    <3>6. Eaten' = e
      BY <1>1, <1>5, <3>5 DEF Eaten
    <3>7. /\ Len(pipe'["p2c"]) = f + m /\ (\A i \in 1 .. f : pipe'["p2c"][i] = pipe["p2c"][i]) /\ pipe'["c2p"] = pipe["c2p"]
          /\ \A k \in 1 .. m : pipe'["p2c"][f + k] = Data[(e + f) + k]
      BY <1>4, <1>6, <2>2, <3>1, <3>2 DEF Placed
    <3>8. \A i \in 1 .. f + m : pipe'["p2c"][i] = Data[e + i]
      <4>1. \A i \in 1 .. f + m : i \in 1 .. f \/ (i - f \in 1 .. m /\ i = f + (i - f) /\ (e + f) + (i - f) = e + i)
        <5>1. e \in Nat /\ f \in Nat /\ m \in {1, 2}
          BY <1>5, <1>6, <3>2
        <5>2. \A d, g \in Nat, n \in {1, 2} : \A i \in 1 .. g + n : i \in 1 .. g \/ (i - g \in 1 .. n /\ i = g + (i - g) /\ (d + g) + (i - g) = d + i)
          OBVIOUS
        <5> QED BY <5>1, <5>2
      <4> QED BY <1>7, <3>7, <4>1
    <3>9. Passed' = e + (f + m) /\ e + (f + m) = e + f + m
      BY <1>5, <1>6, <3>2, <3>6, <3>7 DEF Passed
    <3>10. pc[Main] = 3 /\ ((pc'[Main] = 3 /\ moved'[Main] = e + f + m) \/ pc'[Main] = 4)
      <4>1. CASE e + f + m = Width
        BY <1>4, <2>2, <3>4, <4>1 DEF Return
      <4>2. CASE e + f + m # Width
        BY <1>4, <2>2, <3>2, <3>4, <4>2
      <4> QED BY <4>1, <4>2
    <3> QED BY <1>1, <1>3, <1>7, <3>3, <3>5, <3>6, <3>7, <3>8, <3>9, <3>10 DEF RequestInv
  <2>3. CASE p = Child1 /\ pc[p] = 3 /\ Call(p).pipe = "c2p" /\ Call(p).bytes = ChildSays /\ Len(Call(p).bytes) = 1
    <3>1. Placed(p, m, "c2p")
      BY <1>15, <2>3, Puts
    <3>2. m = 1 /\ moved[p] = 0
      <4>1. m \in {1, 2} /\ moved[p] \in {0, 1} /\ moved[p] + m <= Len(Call(p).bytes)
        BY <1>4, <1>15, <3>1 DEF Placed, PutSome
      <4>2. moved[p] + m <= 1
        BY <2>3, <4>1
      <4> QED BY <4>1, <4>2
    <3>3. Return(p) /\ UNCHANGED got
      <4>1. moved[p] + m = 1
        BY <3>2
      <4>2. Len(Call(p).bytes) = 1
        BY <2>3
      <4>3. moved[p] + m = Len(Call(p).bytes)
        BY <4>1, <4>2
      <4> QED BY <1>15, <4>3 DEF PutSome
    <3>4. pc[Child1] = 3 /\ pc'[Child1] = 4 /\ pc'[Main] = pc[Main] /\ moved'[Main] = moved[Main]
      BY <1>4, <2>3, <3>3 DEF Return
    <3>5. ~(pc[Main] >= 5) /\ pc[Main] <= 4 /\ pipe["c2p"] = <<>>
      BY <1>4, <1>7, <3>4
    <3>6. e = Width /\ Eaten' = e
      BY <1>1, <1>5, <3>4 DEF Eaten
    <3>7. pipe'["c2p"] = <<Answer>> /\ pipe'["p2c"] = pipe["p2c"]
      <4>1. Call(p).bytes = <<Answer>>
        BY <2>3, <3>4, Answers
      <4>2. Len(pipe["c2p"]) = 0
        BY <3>5
      <4>3. Len(pipe'["c2p"]) = 1 /\ pipe'["c2p"] \in Seq(Bytes) /\ pipe'["c2p"][0 + 1] = Call(p).bytes[0 + 1] /\ pipe'["p2c"] = pipe["p2c"]
        BY <1>4, <3>1, <3>2, <4>2 DEF Placed
      <4>4. pipe'["c2p"][1] = Answer
        BY <4>1, <4>3
      <4> QED BY <4>3, <4>4
    <3>8. Passed' = e + f
      BY <1>6, <3>6, <3>7 DEF Passed
    <3> QED BY <1>1, <1>3, <1>6, <1>7, <3>3, <3>4, <3>5, <3>6, <3>7, <3>8 DEF RequestInv
  <2> QED BY <2>1, <2>2, <2>3
<1> QED BY <1>2, <1>10, <1>11, <1>12, <1>13, <1>14, <1>15 DEF Moves
-----------------------------------------------------------------------------
(* The invariant. *)

\* The invariant holds at first.
LEMMA IInvInit == Init => IInv
BY KernelAtFirst, LifeInit, BornInit, HoldingInit, RequestInit, EofInit, ChildrenInit, RelayInit DEF IInv

\* Every step preserves it.
LEMMA IInvNext == IInv /\ Next => IInv'
<1> SUFFICES ASSUME IInv, Next
             PROVE  IInv'
  OBVIOUS
<1>1. Kernel /\ Life /\ Born /\ Holding
  BY DEF IInv
<1>2. Kernel' /\ Life' /\ Born' /\ Holding'
  BY <1>1, KernelStep, LifeStep, BornStep, HoldingStep
<1>3. program' = program
  BY <1>1, Steps
<1>4. faults' = 0 => faults = 0
  BY <1>1, Steps, Places, TheThree
<1>5. program \in Requests => RequestInv'
  BY <1>1, RequestStep DEF IInv
<1>6. program = 8 => EofInv'
  BY <1>1, EofStep DEF IInv
<1>7. program = 6 /\ faults' = 0 => ChildrenInv'
  BY <1>1, <1>4, ChildrenStep DEF IInv
<1>8. program \in Relays /\ faults' = 0 => RelayInv'
  BY <1>1, <1>4, RelayStep DEF IInv
<1> QED BY <1>2, <1>3, <1>5, <1>6, <1>7, <1>8 DEF IInv, Requests, Relays

\* So does a step in which nothing changes.
LEMMA IInvStutter == IInv /\ UNCHANGED vars => IInv'
<1> SUFFICES ASSUME IInv, UNCHANGED vars
             PROVE  IInv'
  OBVIOUS
<1>1. UNCHANGED <<pipe, open, status, reaped, program, args, pc, moved, got, faults>>
  BY DEF vars, kernelVars
<1>2. /\ Forks' = Forks /\ Turns' = Turns /\ b' = b /\ Width' = Width
      /\ \A p : Length(p)' = Length(p) /\ Closing(p)' = Closing(p) /\ Mine(p)' = Mine(p)
  BY <1>1, Same
<1>3. \A p : (Running(p)' <=> Running(p)) /\ (HasEnded(p)' <=> HasEnded(p))
  BY <1>1 DEF Running, HasEnded
<1>4. Kernel'
  BY <1>1, <1>2, <1>3 DEF IInv, Kernel
<1>5. Life'
  <2>1. Left' = Left
    BY <1>1 DEF Left
  <2> QED BY <1>1, <1>2, <2>1 DEF IInv, Life
<1>6. Born' /\ (Whole' <=> Whole)
  BY <1>1, <1>2 DEF IInv, Born, Whole
<1>7. Holding'
  BY <1>1, <1>2, <1>3 DEF IInv, Holding
<1>8. program \in Requests => RequestInv'
  <2>1. Eaten' = Eaten
    BY <1>1, <1>2 DEF Eaten
  <2>2. Passed' = Passed
    BY <1>1, <2>1 DEF Passed
  <2>3. program \in Requests => Data' = Data /\ Answer' = Answer
    BY <1>1, <1>2 DEF Data, MainSays, Answer, Requests
  <2> QED BY <1>1, <1>2, <2>1, <2>2, <2>3 DEF IInv, RequestInv
<1>9. program = 8 => EofInv'
  <2>1. Sum' = Sum /\ Due' = Due
    BY <1>1 DEF Sum, Due
  <2>2. Readable("p2c")' <=> Readable("p2c")
    BY <1>1 DEF Readable
  <2> QED BY <1>1, <1>6, <2>1, <2>2 DEF IInv, EofInv
<1>10. program = 6 /\ faults = 0 => ChildrenInv'
  <2>1. \A x : (Given(x)' <=> Given(x)) /\ (Taken(x)' <=> Taken(x))
    BY <1>1 DEF Given, Taken
  <2>2. got \in Story(Taken("p2c"), Taken("p2c2"), Taken("c2p"), Taken("c2p2"))
        => got' \in Story(Taken("p2c"), Taken("p2c2"), Taken("c2p"), Taken("c2p2"))'
    BY <1>1, <1>2, <2>1 DEF Story
  <2> QED BY <1>1, <1>2, <1>6, <2>1, <2>2 DEF IInv, ChildrenInv
<1>11. program \in Relays /\ faults = 0 => RelayInv'
  <2>1. Hops' = Hops /\ \A k : From(k)' = From(k) /\ To(k)' = To(k) /\ Via(k)' = Via(k) /\ OutAt(k)' = OutAt(k) /\ InAt(k)' = InAt(k) /\ Value(k)' = Value(k)
    BY <1>1, SameRelay
  <2>2. \A k : (In(k)' <=> In(k)) /\ (Out(k)' <=> Out(k))
    BY <1>1, <2>1 DEF In, Out
  <2>3. \A x : OnTheWay(x)' <=> OnTheWay(x)
    BY <1>1, <2>1, <2>2 DEF OnTheWay
  <2> QED BY <1>1, <1>6, <2>1, <2>2, <2>3 DEF IInv, RelayInv
<1> QED BY <1>1, <1>4, <1>5, <1>6, <1>7, <1>8, <1>9, <1>10, <1>11 DEF IInv

\* The invariant holds in every state.
THEOREM Invariant == Spec => []IInv
<1>1. IInv /\ [Next]_vars => IInv'
  BY IInvNext, IInvStutter
<1> QED BY IInvInit, <1>1, PTL DEF Spec
-----------------------------------------------------------------------------
(* What follows from it. *)

\* The invariant holds the types.
LEMMA Typed == IInv => TypeOK
<1> SUFFICES ASSUME IInv
             PROVE  TypeOK
  OBVIOUS
<1>1. Kernel
  BY DEF IInv
<1>2. \A p \in Process : Len(Code[p]) = Length(p)
  BY <1>1, Calling
<1>3. \A p \in Process : pc[p] \in 1 .. Len(Code[p]) + 1 /\ moved[p] \in 0 .. 1
  BY <1>1, <1>2 DEF Kernel
<1> QED BY <1>1, <1>3 DEF Kernel, TypeOK, Bytes, Ends, Names, Histories

\* Main has nobody left when it ends well.
LEMMA Awaited == IInv => ParentLast
<1> SUFFICES ASSUME IInv, status[Main] = "exit0"
             PROVE  \A c \in Process \ {Main} : status[c] = "none" \/ c \in reaped
  BY DEF ParentLast
<1>1. Kernel /\ Life
  BY DEF IInv
<1>2. pc[Main] = Length(Main) + 1
  BY <1>1, TheThree DEF Life
<1>3. Left = {}
  BY <1>1, <1>2 DEF Life
<1> QED BY <1>3 DEF Left

\* s is a promised history that the reads so far keep to, and that leaves no read to a process that has ended well.
Kept(s) ==
  /\ s \in Promised /\ s \in Histories /\ Len(got) <= Len(s) /\ \A i \in 1 .. Len(got) : got[i] = s[i]
  /\ faults = 0 \/ program \in {1, 2, 3} => \A p \in Process : status[p] = "exit0" => \A i \in 1 .. Len(s) : s[i][1] = p => i <= Len(got)

\* What a process that has ended has done.
LEMMA Done ==
  ASSUME IInv, NEW p \in Process, status[p] = "exit0"
  PROVE  pc[p] = Length(p) + 1 /\ pc[p] \in Nat
<1>1. Kernel /\ Life
  BY DEF IInv
<1> QED BY <1>1, TheThree DEF Life

\* handshake1.c to handshake3.c keep to a promised history, whatever fails.
LEMMA RequestKept ==
  ASSUME IInv, program \in Requests
  PROVE  \E s \in Promised : Kept(s)
<1>1. Kernel /\ Life /\ RequestInv
  BY DEF IInv
<1>2. /\ Process = {Main, Child1, Child2} /\ Main = 1 /\ Child1 = 2 /\ Child2 = 3
      /\ args \in Args /\ got \in Histories /\ args[2] \in Int /\ b \in Bytes /\ Byte(args[2]) \in Bytes
      /\ Width \in {1, 2} /\ Len(got) \in Nat
  <2>1. args \in Args /\ got \in Histories /\ args[2] \in Int
    BY <1>1, HandshakeAssumption DEF Kernel
  <2>2. b \in Bytes /\ Byte(args[2]) \in Bytes
    BY <2>1, LocalBytes, ByteRange
  <2>3. Len(got) \in Nat
    BY <2>1 DEF Histories
  <2> QED BY <1>1, <2>1, <2>2, <2>3, TheThree, Spoken
<1>3. \E s \in Promised : /\ s \in Histories /\ Len(s) = Width + 1 /\ s[Width + 1] = <<Main, Answer>>
                          /\ \A i \in 1 .. Width : s[i] = <<Child1, Data[i]>>
  <2>1. ACK \in Bytes
    BY DEF ACK, Bytes
  <2>2. CASE program = 1
    <3> DEFINE s == << <<2, b>>, <<1, b>> >>
    <3>1. s \in Promised
      BY <2>2 DEF Promised
    <3>2. s \in Histories /\ Len(s) = 2 /\ s[2] = <<1, b>> /\ s[1] = <<2, b>>
      BY <1>2 DEF Histories
    <3>3. Width = 1 /\ Data[1] = b /\ Answer = b
      BY <1>1, <2>2, Spoken DEF Answer
    <3> QED BY <1>2, <3>1, <3>2, <3>3
  <2>3. CASE program = 2
    <3> DEFINE s == << <<2, b>>, <<1, ACK>> >>
    <3>1. s \in Promised
      BY <2>3 DEF Promised
    <3>2. s \in Histories /\ Len(s) = 2 /\ s[2] = <<1, ACK>> /\ s[1] = <<2, b>>
      BY <1>2, <2>1 DEF Histories
    <3>3. Width = 1 /\ Data[1] = b /\ Answer = ACK
      BY <1>1, <2>3, Spoken DEF Answer
    <3> QED BY <1>2, <3>1, <3>2, <3>3
  <2>4. CASE program = 3
    <3> DEFINE s == << <<2, b>>, <<2, Byte(args[2])>>, <<1, b>> >>
    <3>1. s \in Promised
      BY <2>4 DEF Promised
    <3>2. s \in Histories /\ Len(s) = 3 /\ s[3] = <<1, b>> /\ s[2] = <<2, Byte(args[2])>> /\ s[1] = <<2, b>>
      BY <1>2 DEF Histories
    <3>3. Width = 2 /\ Data[1] = b /\ Data[2] = Byte(args[2]) /\ Answer = b
      BY <1>1, <2>4, Spoken DEF Answer
    <3> QED BY <1>2, <3>1, <3>2, <3>3
  <2> QED BY <2>2, <2>3, <2>4 DEF Requests
<1>4. PICK s \in Promised : /\ s \in Histories /\ Len(s) = Width + 1 /\ s[Width + 1] = <<Main, Answer>>
                            /\ \A i \in 1 .. Width : s[i] = <<Child1, Data[i]>>
  BY <1>3
<1>5. PICK e \in Nat : e = Eaten
  BY <1>1, <1>2, TheThree DEF Eaten
<1>6. /\ e <= Width /\ Len(got) = e + (IF pc[Main] >= 5 THEN 1 ELSE 0) /\ (pc[Main] >= 5 => e = Width /\ got[Width + 1] = <<Main, Answer>>)
      /\ \A i \in 1 .. e : got[i] = <<Child1, Data[i]>>
  <2>1. e <= Width
    BY <1>1, <1>2, <1>5, TheThree DEF Eaten
  <2>2. pc[Child1] >= 4 => e = Width
    BY <1>1, <1>2, <1>5, TheThree DEF Eaten
  <2> QED BY <1>1, <1>5, <2>1, <2>2 DEF RequestInv
<1>7. Len(got) <= Len(s) /\ \A i \in 1 .. Len(got) : got[i] = s[i]
  <2>1. CASE pc[Main] >= 5
    <3>1. Len(got) = Width + 1 /\ \A i \in 1 .. Width + 1 : i \in 1 .. Width \/ i = Width + 1
      BY <1>2, <1>6, <2>1
    <3> QED BY <1>2, <1>4, <1>6, <2>1, <3>1
  <2>2. CASE ~(pc[Main] >= 5)
    <3>1. Len(got) = e /\ \A i \in 1 .. e : i \in 1 .. Width
      BY <1>2, <1>5, <1>6, <2>2
    <3> QED BY <1>2, <1>4, <1>5, <1>6, <3>1
  <2> QED BY <2>1, <2>2
<1>8. ASSUME NEW p \in Process, status[p] = "exit0", NEW i \in 1 .. Len(s), s[i][1] = p
      PROVE  i <= Len(got)
  <2>1. i \in 1 .. Width \/ i = Width + 1
    BY <1>2, <1>4, <1>8
  <2>2. CASE i \in 1 .. Width
    <3>1. p = Child1
      BY <1>4, <1>8, <2>2
    <3>2. pc[Child1] = 5
      BY <1>1, <1>8, <3>1, Done, Spoken
    <3>3. e = Width
      BY <1>5, <3>2 DEF Eaten
    <3> QED BY <1>2, <1>6, <2>2, <3>3
  <2>3. CASE i = Width + 1
    <3>1. p = Main
      BY <1>4, <1>8, <2>3
    <3>2. pc[Main] = 7
      BY <1>1, <1>8, <3>1, Done, Spoken
    <3> QED BY <1>2, <1>6, <2>3, <3>2
  <2> QED BY <2>1, <2>2, <2>3
<1> QED BY <1>4, <1>7, <1>8 DEF Kept

\* handshake8.c keeps to a promised history, whatever fails.
LEMMA EofKept ==
  ASSUME IInv, program = 8
  PROVE  \E s \in Promised : Kept(s)
<1>1. Kernel /\ Life /\ EofInv
  BY DEF IInv
<1>2. /\ Process = {Main, Child1, Child2} /\ Main = 1 /\ Child1 = 2 /\ Child2 = 3 /\ got \in Histories /\ Len(got) \in Nat /\ Len(pipe["p2c"]) \in Nat
      /\ pc \in [Process -> Nat]
  <2>1. got \in Histories /\ Len(got) \in Nat
    BY <1>1 DEF Kernel, Histories
  <2>2. Len(pipe["p2c"]) \in Nat
    BY <1>1, HandshakeAssumption DEF Kernel
  <2> QED BY <1>1, <2>1, <2>2, TheThree
<1> DEFINE s == << <<2, 1>>, <<2, 2>>, <<2, 3>> >>
<1>3. s \in Promised
  BY DEF Promised
<1>4. s \in Histories /\ Len(s) = 3 /\ s[1] = <<2, 1>> /\ s[2] = <<2, 2>> /\ s[3] = <<2, 3>>
  BY <1>2 DEF Histories, Bytes
<1> HIDE DEF s
<1>5. Len(got) <= 3
  <2>1. Due <= 3 /\ Due \in Int
    BY <1>2 DEF Due
  <2>2. Len(got) + Len(pipe["p2c"]) <= Due
    BY <1>1, <1>2, <2>1 DEF EofInv, Sum
  <2> QED BY <1>2, <2>1, <2>2
<1>6. \A i \in 1 .. Len(got) : got[i] = s[i]
  <2>1. \A i \in 1 .. Len(got) : i \in {1, 2, 3}
    BY <1>2, <1>5
  <2> QED BY <1>1, <1>2, <1>4, <2>1 DEF EofInv
<1>7. ASSUME faults = 0, NEW p \in Process, status[p] = "exit0", NEW i \in 1 .. Len(s), s[i][1] = p
      PROVE  i <= Len(got)
  <2>1. i \in {1, 2, 3}
    BY <1>4, <1>7
  <2>2. p = Child1
    BY <1>2, <1>4, <1>7, <2>1
  <2>3. pc[Child1] = 4
    <3>1. Length(Child1) = 3
      BY DEF Length, Pairs, Main, Child1
    <3> QED BY <1>7, <2>2, <3>1, Done
  <2>4. Len(got) = 3
    BY <1>1, <1>7, <2>3 DEF EofInv
  <2> QED BY <2>1, <2>4
<1> QED BY <1>3, <1>4, <1>5, <1>6, <1>7 DEF Kept

\* handshake6.c keeps to one of its three promised histories.
LEMMA ChildrenKept ==
  ASSUME IInv, program = 6, faults = 0
  PROVE  \E s \in Promised : Kept(s)
<1>1. Kernel /\ Life /\ ChildrenInv
  BY DEF IInv
<1>2. /\ Process = {Main, Child1, Child2} /\ Main = 1 /\ Child1 = 2 /\ Child2 = 3 /\ got \in Histories /\ Len(got) \in Nat /\ b \in Bytes
  <2>1. got \in Histories /\ Len(got) \in Nat /\ b \in Bytes
    BY <1>1, LocalBytes DEF Kernel, Histories
  <2> QED BY <1>1, <2>1, TheThree
<1> DEFINE x == <<Child1, b>>  y == <<Child2, b>>  z == <<Main, b>>
           s1 == <<x, y, z, z>>  s2 == <<y, x, z, z>>  s3 == <<x, z, y, z>>
           r1 == Taken("p2c")  r2 == Taken("p2c2")  h1 == Taken("c2p")  h2 == Taken("c2p2")
<1>3. s1 \in Promised /\ s2 \in Promised /\ s3 \in Promised
  BY <1>2 DEF Promised
<1>4. s1 \in Histories /\ s2 \in Histories /\ s3 \in Histories /\ Len(s1) = 4 /\ Len(s2) = 4 /\ Len(s3) = 4
  <2>1. x \in Process \X Bytes /\ y \in Process \X Bytes /\ z \in Process \X Bytes
    BY <1>2
  <2> HIDE DEF x, y, z
  <2> QED BY <2>1 DEF Histories
<1>5. \A p \in Process : status[p] = "exit0" => (p = Child1 => r1) /\ (p = Child2 => r2) /\ (p = Main => h2)
  <2>1. Length(Main) = 10 /\ Length(Child1) = 4 /\ Length(Child2) = 4
    BY DEF Length, Pairs, Main, Child1, Child2
  <2>2. /\ Taker("p2c") = Child1 /\ Taker("p2c2") = Child2 /\ Taker("c2p2") = Main
        /\ TakeAt("p2c") = 2 /\ TakeAt("p2c2") = 2 /\ TakeAt("c2p2") = 7
    BY DEF Taker, TakeAt
  <2>3. ASSUME NEW p \in Process, status[p] = "exit0"
        PROVE  (p = Child1 => r1) /\ (p = Child2 => r2) /\ (p = Main => h2)
    <3>1. pc[p] = Length(p) + 1
      BY <2>3, Done
    <3> QED BY <2>1, <2>2, <3>1 DEF Taken
  <2> QED BY <2>3
<1>6. got \in Story(r1, r2, h1, h2)
  BY <1>1 DEF ChildrenInv
<1> HIDE DEF r1, r2, h1, h2
\* A promised history fits if it starts with got and the reads behind it are not those of a process that has read all.
<1>7. ASSUME NEW s \in {s1, s2, s3}, Len(got) <= 4, \A i \in 1 .. Len(got) : got[i] = s[i],
             \A i \in 1 .. 4 : i > Len(got) => (s[i] = x /\ ~r1) \/ (s[i] = y /\ ~r2) \/ (s[i] = z /\ ~h2)
      PROVE  \E t \in Promised : Kept(t)
  <2>1. s \in Promised /\ s \in Histories /\ Len(s) = 4
    BY <1>3, <1>4
  <2>2. ASSUME NEW p \in Process, status[p] = "exit0", NEW i \in 1 .. 4, s[i][1] = p
        PROVE  i <= Len(got)
    <3> SUFFICES ASSUME i > Len(got)
                 PROVE  FALSE
      BY <1>2, <2>2
    <3>1. (s[i] = x /\ ~r1) \/ (s[i] = y /\ ~r2) \/ (s[i] = z /\ ~h2)
      BY <1>7
    <3>2. (p = Child1 /\ ~r1) \/ (p = Child2 /\ ~r2) \/ (p = Main /\ ~h2)
      BY <2>2, <3>1
    <3> QED BY <1>5, <2>2, <3>2
  <2> QED BY <1>7, <2>1, <2>2 DEF Kept
<1>8. /\ s1[1] = x /\ s1[2] = y /\ s1[3] = z /\ s1[4] = z /\ s2[1] = y /\ s2[2] = x /\ s2[3] = z /\ s2[4] = z
      /\ s3[1] = x /\ s3[2] = z /\ s3[3] = y /\ s3[4] = z
  OBVIOUS
<1>9. 1 .. 4 = {1, 2, 3, 4} /\ 1 .. 3 = {1, 2, 3} /\ 1 .. 2 = {1, 2} /\ 1 .. 1 = {1} /\ 1 .. 0 = {}
  OBVIOUS
<1> HIDE DEF s1, s2, s3
<1>10. CASE ~r1 /\ ~r2 /\ ~h2
  <2>1. got = <<>>
    BY <1>6, <1>10 DEF Story
  <2>2. Len(got) = 0
    BY <2>1
  <2> QED BY <1>7, <1>8, <1>9, <1>10, <2>2
<1>11. h2 => r1 /\ r2 /\ h1
  <2>1. (Taken("c2p") => Given("c2p")) /\ (Taken("c2p2") => Given("c2p2"))
    BY <1>1 DEF ChildrenInv, Channels
  <2>2. pc[1] \in Nat /\ pc[2] \in Nat /\ pc[3] \in Nat
    BY <1>1, <1>2, TheThree
  <2> QED BY <2>1, <2>2 DEF r1, r2, h1, h2, Given, Taken, Giver, Taker, GiveAt, TakeAt, Main, Child1, Child2
<1>12. CASE ~r1 /\ r2
  <2>1. got = <<y>>
    BY <1>6, <1>12 DEF Story
  <2>2. Len(got) = 1 /\ got[1] = y
    BY <2>1
  <2> QED BY <1>7, <1>8, <1>9, <1>11, <1>12, <2>2
<1>13. CASE r1 /\ ~r2 /\ ~h1
  <2>1. got = <<x>>
    BY <1>6, <1>13 DEF Story
  <2>2. Len(got) = 1 /\ got[1] = x
    BY <2>1
  <2> QED BY <1>7, <1>8, <1>9, <1>11, <1>13, <2>2
<1>14. CASE r1 /\ ~r2 /\ h1
  <2>1. got = <<x, z>>
    BY <1>6, <1>14 DEF Story
  <2>2. Len(got) = 2 /\ got[1] = x /\ got[2] = z
    BY <2>1
  <2> QED BY <1>7, <1>8, <1>9, <1>11, <1>14, <2>2
<1>15. CASE r1 /\ r2 /\ ~h1
  <2>1. got = <<x, y>> \/ got = <<y, x>>
    BY <1>6, <1>15 DEF Story
  <2>2. Len(got) = 2 /\ ((got[1] = x /\ got[2] = y) \/ (got[1] = y /\ got[2] = x))
    BY <2>1
  <2> QED BY <1>7, <1>8, <1>9, <1>11, <1>15, <2>2
<1>16. CASE r1 /\ r2 /\ h1 /\ ~h2
  <2>1. got = <<x, y, z>> \/ got = <<y, x, z>> \/ got = <<x, z, y>>
    BY <1>6, <1>16 DEF Story
  <2>2. Len(got) = 3 /\ \/ got[1] = x /\ got[2] = y /\ got[3] = z
                        \/ got[1] = y /\ got[2] = x /\ got[3] = z
                        \/ got[1] = x /\ got[2] = z /\ got[3] = y
    BY <2>1
  <2> QED BY <1>7, <1>8, <1>9, <1>16, <2>2
<1>17. CASE r1 /\ r2 /\ h1 /\ h2
  <2>1. got = s1 \/ got = s2 \/ got = s3
    BY <1>6, <1>17 DEF Story, s1, s2, s3
  <2>2. PICK s \in {s1, s2, s3} : got = s
    BY <2>1
  <2>3. Len(got) = 4
    BY <1>4, <2>2
  <2>4. \A i \in 1 .. Len(got) : got[i] = s[i]
    BY <2>2
  <2>5. \A i \in 1 .. 4 : ~(i > Len(got))
    BY <2>3
  <2>6. Len(got) <= 4
    BY <2>3
  <2> QED BY <1>7, <2>4, <2>5, <2>6
<1> QED BY <1>10, <1>11, <1>12, <1>13, <1>14, <1>15, <1>16, <1>17

\* The programs that pass a byte on keep to the promised history.
LEMMA RelayKept ==
  ASSUME IInv, program \in Relays, faults = 0
  PROVE  \E s \in Promised : Kept(s)
<1>1. Kernel /\ Life /\ RelayInv
  BY DEF IInv
<1>2. /\ Process = {Main, Child1, Child2} /\ Main = 1 /\ Child1 = 2 /\ Child2 = 3 /\ got \in Histories /\ Len(got) \in Nat /\ b \in Bytes
      /\ Hops \in Nat /\ args[2] \in Int
  <2>1. got \in Histories /\ Len(got) \in Nat /\ b \in Bytes /\ args[2] \in Int
    BY <1>1, LocalBytes, HandshakeAssumption DEF Kernel, Histories
  <2>2. Hops \in Nat
    BY <1>1, Counting DEF Hops
  <2> QED BY <1>1, <2>1, <2>2, TheThree
<1>3. \A k \in 1 .. Hops : Value(k) \in Bytes
  <2> TAKE k \in 1 .. Hops
  <2>1. b \in Int /\ \A d \in Int : Byte(b + d) \in Bytes
    BY <1>2, ByteRange DEF Bytes
  <2>2. {READY, ACK1, ACK2, b % 2} \subseteq Bytes
    <3>1. b % 2 \in 0 .. 1
      BY <2>1
    <3> QED BY <3>1 DEF READY, ACK1, ACK2, Bytes
  <2>3. CASE program = 4
    <3>1. k \div 2 \in Int
      BY <1>2
    <3> QED BY <2>1, <2>3, <3>1 DEF Value
  <2>4. CASE program = 7
    BY <2>1, <2>4 DEF Value
  <2>5. CASE program \in {5, 9}
    BY <1>2, <2>2, <2>5 DEF Value
  <2>6. CASE program = 10
    BY <1>2, <2>2, <2>6 DEF Value
  <2> QED BY <2>3, <2>4, <2>5, <2>6 DEF Relays
<1>4. \E s \in Promised : s \in Histories /\ Len(s) = Hops /\ \A i \in 1 .. Hops : s[i] = <<To(i), Value(i)>>
  <2>0. \A i \in 1 .. Hops : <<To(i), Value(i)>> \in Process \X Bytes
    BY <1>1, <1>3, Routes
  <2> DEFINE t == [i \in 1 .. Hops |-> <<To(i), Value(i)>>]
  <2>1. t \in Histories /\ Len(t) = Hops /\ \A i \in 1 .. Hops : t[i] = <<To(i), Value(i)>>
    BY <1>2, <2>0 DEF Histories
  <2>2. ASSUME NEW s, Len(s) = Hops, s \in Seq(Process \X Int), \A i \in 1 .. Hops : s[i] = <<To(i), Value(i)>>
        PROVE  s = t
    <3>1. t \in Seq(Process \X Int)
      <4>1. \A i \in 1 .. Hops : <<To(i), Value(i)>> \in Process \X Int
        BY <2>0 DEF Bytes
      <4> QED BY <1>2, <4>1
    <3> HIDE DEF t
    <3> QED BY <2>1, <2>2, <3>1, SeqEqual
  <2>3. t \in Promised
    <3>1. CASE program = 4
      <4>1. 1 .. 2 * args[2] = 1 .. Hops
        BY <1>2, <3>1 DEF Hops, Turns, Count
      <4>2. \A i \in 1 .. Hops : To(i) = 1 + (i % 2) /\ Value(i) = Byte(b + (i \div 2))
        <5> TAKE i \in 1 .. Hops
        <5>1. Down(i) <=> i % 2 = 1
          BY <1>2, <3>1 DEF Down, Shift
        <5>2. i % 2 \in {0, 1}
          BY <1>2
        <5> QED BY <1>2, <3>1, <5>1, <5>2 DEF To, Value
      <4>3. t = [i \in 1 .. 2 * args[2] |-> <<1 + (i % 2), Byte(b + (i \div 2))>>]
        BY <4>1, <4>2
      <4> QED BY <3>1, <4>3 DEF Promised
    <3>2. CASE program = 5
      <4> DEFINE s == << <<1, READY>>, <<2, b>> >>
      <4>1. Hops = 2
        BY <3>2 DEF Hops, Turns
      <4>2. To(1) = 1 /\ To(2) = 2 /\ Value(1) = READY /\ Value(2) = b
        BY <1>2, <3>2 DEF To, Value, Down, Shift
      <4>3. t = s
        BY <4>1, <4>2
      <4> QED BY <3>2, <4>3 DEF Promised
    <3>3. CASE program = 7
      <4>1. Hops = 3
        BY <3>3 DEF Hops
      <4>2. To(1) = 2 /\ To(2) = 3 /\ To(3) = 1 /\ Value(1) = Byte(b + 0) /\ Value(2) = Byte(b + 10) /\ Value(3) = Byte(b + 30)
        BY <1>2, <3>3 DEF To, Value
      <4>3. Byte(b + 0) = b
        BY <1>2 DEF Byte, Bytes
      <4>4. t = << <<2, b>>, <<3, Byte(b + 10)>>, <<1, Byte(b + 30)>> >>
        BY <4>1, <4>2, <4>3
      <4> QED BY <3>3, <4>4 DEF Promised
    <3>4. CASE program = 9
      <4>1. Hops = 2
        BY <3>4 DEF Hops, Turns
      <4>2. To(1) = 2 /\ To(2) = 1 /\ Value(1) = b /\ Value(2) = b % 2
        BY <1>2, <3>4 DEF To, Value, Down, Shift
      <4>3. t = << <<2, b>>, <<1, b % 2>> >>
        BY <4>1, <4>2
      <4> QED BY <3>4, <4>3 DEF Promised
    <3>5. CASE program = 10
      <4>1. Hops = 3
        BY <3>5 DEF Hops, Turns
      <4>2. To(1) = 2 /\ To(2) = 1 /\ To(3) = 2 /\ Value(1) = b /\ Value(2) = ACK1 /\ Value(3) = ACK2
        BY <1>2, <3>5 DEF To, Value, Down, Shift
      <4>3. t = << <<2, b>>, <<1, ACK1>>, <<2, ACK2>> >>
        BY <4>1, <4>2
      <4> QED BY <3>5, <4>3 DEF Promised
    <3> QED BY <3>1, <3>2, <3>3, <3>4, <3>5 DEF Relays
  <2> HIDE DEF t
  <2> QED BY <2>1, <2>3
<1>5. PICK s \in Promised : s \in Histories /\ Len(s) = Hops /\ \A i \in 1 .. Hops : s[i] = <<To(i), Value(i)>>
  BY <1>4
<1>6. Len(got) <= Len(s) /\ \A i \in 1 .. Len(got) : got[i] = s[i]
  <2>1. Len(got) <= Hops /\ \A i \in 1 .. Len(got) : got[i] = <<To(i), Value(i)>>
    BY <1>1 DEF RelayInv
  <2>2. \A i \in 1 .. Len(got) : i \in 1 .. Hops
    BY <1>2, <2>1
  <2> QED BY <1>5, <2>1, <2>2
<1>7. ASSUME NEW p \in Process, status[p] = "exit0", NEW i \in 1 .. Len(s), s[i][1] = p
      PROVE  i <= Len(got)
  <2>1. i \in 1 .. Hops /\ p = To(i)
    BY <1>5, <1>7
  <2>2. InAt(i) \in Nat /\ InAt(i) < Closing(p) /\ Closing(p) \in Int /\ Closing(p) <= Length(p) /\ Length(p) \in Nat
    BY <1>1, <2>1, Routes, Counting, Calling
  <2>3. In(i)
    BY <1>7, <2>1, <2>2, Done DEF In
  <2> QED BY <1>1, <2>1, <2>3 DEF RelayInv
<1> QED BY <1>5, <1>6, <1>7 DEF Kept

\* A history that agrees with another one as far as it goes is a prefix of it.
LEMMA Prefix ==
  ASSUME NEW s \in Histories, NEW t \in Histories, Len(s) <= Len(t), \A i \in 1 .. Len(s) : s[i] = t[i]
  PROVE  IsPrefix(s, t)
<1> DEFINE S == Process \X Bytes
<1>1. s \in Seq(S) /\ t \in Seq(S) /\ Len(s) \in Nat
  BY DEF Histories
<1> HIDE DEF S
<1>2. PICK n \in Nat : n = Len(s)
  BY <1>1
<1> DEFINE u == SubSeq(s, 0 + 1, n)
           v == SubSeq(t, 0 + 1, n)
<1>3. u \in Seq(S) /\ Len(u) = n - 0 /\ (\A i \in 1 .. n - 0 : u[i] = s[0 + i])
  BY <1>1, <1>2, Part
<1>4. v \in Seq(S) /\ Len(v) = n - 0 /\ (\A i \in 1 .. n - 0 : v[i] = t[0 + i])
  BY <1>1, <1>2, Part
<1> HIDE DEF u, v
<1>5. u = v
  <2>1. Len(u) = Len(v) /\ \A i \in 1 .. Len(u) : u[i] = v[i]
    BY <1>2, <1>3, <1>4
  <2> QED BY <1>3, <1>4, <2>1, SeqEqual
<1>6. SubSeq(s, 1, n) = SubSeq(t, 1, n)
  BY <1>5 DEF u, v
<1> QED BY <1>2, <1>6 DEF IsPrefix

\* In every state of the invariant the reads are a prefix of a promised history, and who has ended well has made all of its own.
LEMMA PromiseKept == IInv => AsPromised /\ ExitZeroMeansDone
<1> SUFFICES ASSUME IInv
             PROVE  AsPromised /\ ExitZeroMeansDone
  OBVIOUS
<1>1. faults = 0 \/ program \in Careful => \E s \in Promised : Kept(s)
  <2>1. program \in 1 .. 10
    BY DEF IInv, Kernel
  <2> QED BY <2>1, RequestKept, EofKept, ChildrenKept, RelayKept DEF Careful, Requests, Relays
<1>2. \A s \in Promised : Kept(s) => IsPrefix(got, s)
  BY Prefix DEF Kept, IInv, Kernel
<1>3. AsPromised
  BY <1>1, <1>2, Typed DEF AsPromised
<1>4. ASSUME faults = 0 \/ program \in {1, 2, 3}, NEW p \in Process, status[p] = "exit0"
      PROVE  \E s \in Promised : IsPrefix(got, s) /\ By(p, s) \subseteq DOMAIN got
  <2>1. PICK s \in Promised : Kept(s)
    BY <1>1, <1>4 DEF Careful
  <2>2. s \in Histories /\ got \in Histories /\ \A i \in 1 .. Len(s) : s[i][1] = p => i <= Len(got)
    BY <1>4, <2>1 DEF Kept, IInv, Kernel
  <2>3. DOMAIN s = 1 .. Len(s) /\ DOMAIN got = 1 .. Len(got) /\ Len(s) \in Nat /\ Len(got) \in Nat
    BY <2>2 DEF Histories
  <2>4. By(p, s) \subseteq DOMAIN got
    BY <2>2, <2>3 DEF By
  <2> QED BY <1>2, <2>1, <2>4
<1>5. ExitZeroMeansDone
  BY <1>4 DEF ExitZeroMeansDone
<1> QED BY <1>3, <1>5

\* Every variable has its type.
THEOREM Typing == Spec => []TypeOK
BY Invariant, Typed, PTL

\* Main ends well only when every child it has made has ended and is waited for.
THEOREM ParentEndsLast == Spec => []ParentLast
BY Invariant, Awaited, PTL

\* Without faults in every program, and whatever fails in the careful ones, the reads so far are a prefix of a promised history.
THEOREM BytesAsPromised == Spec => []AsPromised
<1>1. IInv => AsPromised
  BY PromiseKept
<1> QED BY Invariant, <1>1, PTL

\* Without faults in every program, and whatever fails in the first three, a process that exits with 0 has made all reads promised of it.
THEOREM ExitMeansDone == Spec => []ExitZeroMeansDone
<1>1. IInv => ExitZeroMeansDone
  BY PromiseKept
<1> QED BY Invariant, <1>1, PTL
=============================================================================
