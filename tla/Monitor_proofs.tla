----------------------------- MODULE Monitor_proofs -----------------------------
(***************************************************************************)
(* The monitors, for every command line, mask and limit and any number of  *)
(* reads: who is traced for which calls, how often, and which words each   *)
(* command gets.                                                           *)
(***************************************************************************)
EXTENDS Monitor, WellFoundedInduction, SequenceTheorems, TLAPS

(***************************************************************************)
(* The least members of sets, and induction up to a number: both from the  *)
(* well-foundedness of < on Nat.                                           *)
(***************************************************************************)
Below == {ij \in Nat \X Nat : ij[1] < ij[2]}

\* The separator, and the first character that is no digit, are least members.
LEMMA Least ==
  ASSUME NEW T, T \subseteq Nat, T # {}
  PROVE  Min(T) \in T /\ \A m \in T : Min(T) <= m
<1>1. OpToRel(<, Nat) = Below
  BY DEF OpToRel, Below
<1>2. IsWellFoundedOn(Below, Nat)
  BY NatLessThanWellFounded, <1>1
<1>3. PICK x \in T : \A y \in T : <<y, x>> \notin Below
  BY <1>2, WFMin
<1>4. ASSUME NEW m \in T
      PROVE  x <= m
  <2>1. <<m, x>> \in Nat \X Nat /\ ~(m < x) /\ m \in Nat /\ x \in Nat
    BY <1>3 DEF Below
  <2> QED BY <2>1
<1> QED BY <1>4 DEF Min

\* The smaller of two numbers.
LEMMA LeastOfTwo ==
  ASSUME NEW a \in Nat, NEW b \in Nat, a <= b
  PROVE  Min({a, b}) = a /\ Min({b, a}) = a
<1>1. Min({a, b}) \in {a, b} /\ Min({a, b}) <= a
  BY Least
<1>2. {b, a} = {a, b}
  OBVIOUS
<1> QED BY <1>1, <1>2

LEMMA CountTo ==
  ASSUME NEW N \in Nat, NEW S, 0 \in S, \A n \in 0 .. N - 1 : n \in S => n + 1 \in S
  PROVE  0 .. N \subseteq S
<1> DEFINE T == (0 .. N) \ S
<1> SUFFICES ASSUME T # {}
             PROVE  FALSE
  OBVIOUS
<1>0. T \subseteq Nat
  OBVIOUS
<1>1. PICK n \in T : \A m \in T : n <= m
  <2> HIDE DEF T
  <2> QED BY <1>0, Least
<1>2. n # 0 /\ n - 1 \in 0 .. N - 1 /\ (n - 1) + 1 = n
  BY <1>1
<1>3. n - 1 \in S
  BY <1>1, <1>2
<1> QED BY <1>2, <1>3

(***************************************************************************)
(* The mask.  After k digits the loop of parse_mask holds the bits of      *)
(* those, each as many places up as digits follow it, if it is below 32.   *)
(***************************************************************************)
DigitBits(d, k) == {b \in 0 .. 31 : \E i \in 1 .. k : b - 4 * (k - i) \in BitsOf(d[i])}

\* One turn of the loop.
LEMMA OneDigit ==
  ASSUME NEW d, NEW k \in Nat
  PROVE  DigitBits(d, k + 1) = AddDigit(DigitBits(d, k), d[k + 1])
<1> DEFINE m == DigitBits(d, k)
           v == d[k + 1]
<1>0. BitsOf(v) \subseteq 0 .. 3 /\ \A i : BitsOf(d[i]) \subseteq 0 .. 3
  BY DEF BitsOf
<1>1. ASSUME NEW b \in DigitBits(d, k + 1)
      PROVE  b \in AddDigit(m, v)
  <2>1. PICK i \in 1 .. k + 1 : b - 4 * ((k + 1) - i) \in BitsOf(d[i])
    BY DEF DigitBits
  <2>2. b \in 0 .. 31
    BY DEF DigitBits
  <2>3. CASE i = k + 1
    BY <2>1, <2>2, <2>3 DEF AddDigit
  <2>4. CASE i \in 1 .. k
    <3>1. b - 4 * ((k + 1) - i) = (b - 4) - 4 * (k - i)
      BY <2>2, <2>4
    <3>2. (b - 4) - 4 * (k - i) \in 0 .. 3
      BY <2>1, <3>1, <1>0
    <3>3. b - 4 \in 0 .. 31
      BY <3>2, <2>2, <2>4
    <3>4. b - 4 \in m
      BY <3>1, <3>3, <2>1, <2>4 DEF DigitBits
    <3>5. b = (b - 4) + 4
      BY <2>2
    <3> QED BY <3>4, <3>5, <2>2 DEF AddDigit
  <2> QED BY <2>3, <2>4
<1>2. ASSUME NEW b \in AddDigit(m, v)
      PROVE  b \in DigitBits(d, k + 1)
  <2>1. CASE b \in BitsOf(v)
    <3>1. b \in 0 .. 31 /\ b - 4 * ((k + 1) - (k + 1)) = b
      BY <2>1, <1>0
    <3> QED BY <3>1, <2>1 DEF DigitBits
  <2>2. CASE b \notin BitsOf(v)
    <3>1. PICK x \in m : b = x + 4 /\ b \in 0 .. 31
      BY <2>2 DEF AddDigit
    <3>2. PICK i \in 1 .. k : x - 4 * (k - i) \in BitsOf(d[i])
      BY <3>1 DEF DigitBits
    <3>3. x \in 0 .. 31
      BY <3>1 DEF DigitBits
    <3>4. b - 4 * ((k + 1) - i) = x - 4 * (k - i) /\ i \in 1 .. k + 1
      BY <3>1, <3>2, <3>3
    <3> QED BY <3>1, <3>2, <3>4 DEF DigitBits
  <2> QED BY <2>1, <2>2
<1> QED BY <1>1, <1>2

\* The digits of a mask are a sequence.
LEMMA DigitsAre ==
  ASSUME NEW s \in Seq(0 .. NoDigit)
  PROVE  Digits(s) \in Seq(0 .. NoDigit)
<1> DEFINE T == {i \in DOMAIN s : s[i] = NoDigit}
<1>1. CASE NoDigit \in ToSet(s)
  <2>1. T # {} /\ T \subseteq Nat
    BY <1>1 DEF ToSet
  <2>2. Min(T) \in T
    <3> HIDE DEF T
    <3> QED BY <2>1, Least
  <2>3. T \subseteq 1 .. Len(s)
    OBVIOUS
  <2>4. SubSeq(s, 1, Min(T) - 1) \in Seq(0 .. NoDigit)
    <3> HIDE DEF T
    <3>1. PICK n : n = Min(T)
      OBVIOUS
    <3>2. n \in 1 .. Len(s)
      BY <2>2, <2>3, <3>1
    <3>3. n - 1 \in Int /\ \A i \in 1 .. n - 1 : s[i] \in 0 .. NoDigit
      <4>1. \A i \in 1 .. Len(s) : s[i] \in 0 .. NoDigit
        BY LenProperties
      <4> QED BY <3>2, <4>1
    <3> QED BY <3>1, <3>3, SubSeqProperties
  <2> QED BY <1>1, <2>4 DEF Digits
<1> QED BY <1>1 DEF Digits

\* parse_mask computes the bits of the digits, and drops those past the 32nd.
LEMMA ParsedMask ==
  ASSUME NEW s \in Seq(0 .. NoDigit)
  PROVE  parse_mask(s) = DigitBits(Digits(s), Len(Digits(s)))
<1> DEFINE d == Digits(s)
           n == Len(d)
           Made(h) == h = [i \in 0 .. n |-> IF i = 0 THEN {} ELSE AddDigit(h[i - 1], d[i])]
           g == [i \in 0 .. n |-> DigitBits(d, i)]
           f == CHOOSE h : Made(h)
<1>0. n \in Nat
  BY DigitsAre, LenProperties
<1>1. Made(g)
  <2>1. DigitBits(d, 0) = {}
    BY DEF DigitBits
  <2>2. ASSUME NEW i \in 0 .. n, i # 0
        PROVE  DigitBits(d, i) = AddDigit(g[i - 1], d[i])
    <3>1. i - 1 \in Nat /\ i - 1 \in 0 .. n /\ (i - 1) + 1 = i
      BY <1>0, <2>2
    <3>2. g[i - 1] = DigitBits(d, i - 1)
      BY <3>1
    <3> HIDE DEF d, n, g
    <3>3. DigitBits(d, (i - 1) + 1) = AddDigit(DigitBits(d, i - 1), d[(i - 1) + 1])
      BY <3>1, OneDigit
    <3> QED BY <3>1, <3>2, <3>3
  <2> HIDE DEF d, n
  <2> QED BY <2>1, <2>2
<1>2. Made(f)
  <2> HIDE DEF Made, g
  <2> QED BY <1>1
<1>3. \A i \in 0 .. n : f[i] = g[i]
  <2> DEFINE S == {i \in 0 .. n : f[i] = g[i]}
  <2> HIDE DEF f, g, d, n
  <2>1. 0 \in S
    BY <1>0, <1>1, <1>2
  <2>2. ASSUME NEW i \in 0 .. n - 1, i \in S
        PROVE  i + 1 \in S
    <3>1. i + 1 \in 0 .. n /\ i + 1 # 0 /\ (i + 1) - 1 = i
      BY <1>0
    <3>2. f[i + 1] = AddDigit(f[i], d[i + 1]) /\ g[i + 1] = AddDigit(g[i], d[i + 1])
      BY <1>1, <1>2, <3>1
    <3> QED BY <2>2, <3>1, <3>2
  <2>3. 0 .. n \subseteq S
    <3> HIDE DEF S
    <3> QED BY <1>0, <2>1, <2>2, CountTo
  <2> QED BY <2>3
<1>4. parse_mask(s) = f[n]
  BY DEF parse_mask
<1> QED BY <1>0, <1>3, <1>4

(***************************************************************************)
(* What the programs make of argv[1], in each way of writing it, is what   *)
(* was asked for.                                                          *)
(***************************************************************************)
Arg == {"--"} \cup ToSet(Word)

\* A command line, its mask and the kernel do not change: a fact of each state.
ArgsInv ==
  /\ variant \in 1 .. 7 /\ kernel \in {"monitor8.c", "monitor9.c", "monitor10.c"}
  /\ text \in TextsOf[variant] /\ argv \in Seq(Arg) /\ argc \in 1 .. MAXARG /\ shmask \subseteq 0 .. 31

LEMMA Texts ==
  ASSUME ArgsInv
  PROVE  \/ text.kind = "decimal" /\ text.value \in Decimals
         \/ text.kind = "hex" /\ text.value \in Hexes
         \/ text.kind = "list" /\ text.value \in Lists
         \/ text.kind = "off"
<1>1. \A k, vs : \A t \in Text(k, vs) : t.kind = k /\ t.value \in vs
  BY DEF Text
<1>2. \/ text \in Text("decimal", Decimals) \/ text \in Text("hex", Hexes)
      \/ text \in Text("list", Lists) \/ text \in Text("off", {{}})
  BY DEF ArgsInv, TextsOf
<1> QED BY <1>1, <1>2

LEMMA MaskIsAsked ==
  ASSUME ArgsInv
  PROVE  Mask = AskedBits /\ AskedBits \subseteq 0 .. 31
<1>1. CASE text.kind = "decimal" /\ text.value \in Decimals
  <2>1. Mask = text.value /\ AskedBits = text.value
    BY <1>1 DEF Mask, AskedBits
  <2> QED BY <1>1, <2>1, MonitorAssumption DEF MonitorAssumption
<1>2. CASE text.kind = "hex" /\ text.value \in Hexes
  <2> DEFINE d == Digits(text.value)
  <2>1. text.value \in Seq(0 .. NoDigit)
    BY <1>2, MonitorAssumption DEF MonitorAssumption
  <2>2. Mask = DigitBits(d, Len(d))
    <3>1. Mask = parse_mask(text.value)
      BY <1>2 DEF Mask
    <3> QED BY <2>1, <3>1, ParsedMask
  <2>3. AskedBits = {b \in 0 .. 31 : \E i \in DOMAIN d : b - 4 * (Len(d) - i) \in BitsOf(d[i])}
    BY <1>2 DEF AskedBits
  <2>4. DOMAIN d = 1 .. Len(d)
    BY <2>1, DigitsAre, LenProperties
  <2> HIDE DEF d
  <2> QED BY <2>2, <2>3, <2>4 DEF DigitBits
<1>3. CASE text.kind = "list" /\ text.value \in Lists
  <2> DEFINE l == text.value
  <2>1. Mask = {sysno_from_name(l[i]) : i \in DOMAIN l} \ {-1}
    BY <1>3 DEF Mask, parse_list_to_mask
  <2>2. AskedBits = {SYS[n] : n \in ToSet(l) \cap Named}
    BY <1>3 DEF AskedBits
  <2>3. \A n \in Named : SYS[n] \in 0 .. 31 /\ SYS[n] # -1 /\ sysno_from_name(n) = SYS[n]
    BY DEF Named, SYS, sysno_from_name
  <2>4. \A n : n \notin Named => sysno_from_name(n) = -1
    BY DEF sysno_from_name
  <2> HIDE DEF l
  <2>5. ASSUME NEW b \in Mask
        PROVE  b \in AskedBits
    <3>1. PICK i \in DOMAIN l : b = sysno_from_name(l[i]) /\ b # -1
      BY <2>1
    <3>2. l[i] \in Named /\ l[i] \in ToSet(l)
      BY <3>1, <2>4 DEF ToSet
    <3> QED BY <3>1, <3>2, <2>2, <2>3
  <2>6. ASSUME NEW b \in AskedBits
        PROVE  b \in Mask /\ b \in 0 .. 31
    <3>1. PICK n \in ToSet(l) \cap Named : b = SYS[n]
      BY <2>2
    <3>2. PICK i \in DOMAIN l : l[i] = n
      BY <3>1 DEF ToSet
    <3>3. b = sysno_from_name(l[i]) /\ b # -1 /\ b \in 0 .. 31
      BY <3>1, <3>2, <2>3
    <3> QED BY <2>1, <3>2, <3>3
  <2> QED BY <2>5, <2>6
<1>4. CASE text.kind = "off"
  <2>1. Mask = {} /\ AskedBits = {}
    BY <1>4 DEF Mask, AskedBits
  <2> QED BY <2>1
<1> QED BY <1>1, <1>2, <1>3, <1>4, Texts

(***************************************************************************)
(* Who is traced, for what, and how often.                                 *)
(***************************************************************************)
Line   == [call : DOMAIN SYS, ok : BOOLEAN, after : BOOLEAN]
Record == [monitor_mask : SUBSET (0 .. 31), monitor_left : {-1, 0} \cup 0 .. Limit, lines : Nat]

\* The mask that a running process has.
RightMask(p) == IF p # "sh" /\ monitored THEN AskedBits ELSE shmask

\* The lines sh, printed of the calls md of process p when left of them may still be
\* printed: what AskedOf says with ab for AskedBits, and sm for shmask.
AskedIn(p, line, ab, sm) == SYS[line.call] \in IF p # "sh" /\ line.after THEN ab ELSE sm
Agrees(p, k, left, md, sh, ab, sm) ==
  \A line :
    /\ line \in sh => line \in md /\ AskedIn(p, line, ab, sm) /\ (k = "monitor8.c" => line.ok)
    /\ /\ line \in md /\ AskedIn(p, line, ab, sm)
       /\ k = "monitor8.c" => line.ok
       /\ k = "monitor10.c" => left # 0
       => line \in sh

\* What is left of the limit, and what has been printed of it.
InBudget(k, q) ==
  Limit >= 0 => q.monitor_left >= 0 /\ (k = "monitor10.c" => q.lines + q.monitor_left <= Limit)

\* procs may be the processes after a call, before its line is printed.
Sound(procs) ==
  /\ procs \in [Callers -> Record]
  /\ \A p \in Callers : /\ InBudget(kernel, procs[p])
                        /\ Agrees(p, kernel, procs[p].monitor_left, made[p], shown[p], AskedBits, shmask)

\* Once a child is born, or the program past its start, monitor() has succeeded.
Begun ==
  \/ at["monitor"] \in {"exec", "fork1", "wait1", "fork2", "wait2", "run"}
  \/ \E p \in {"cmd1", "cmd2", "sub"} : at[p] # "unborn"
Fresh(p) == at[p] = "unborn" \/ (p = "monitor" /\ at[p] = "start")

TraceInv ==
  /\ made \in [Callers -> SUBSET Line] /\ shown \in [Callers -> SUBSET Line] /\ monitored \in BOOLEAN
  /\ Sound(proc)
  /\ \A p \in Callers : at[p] # "unborn" => proc[p].monitor_mask = RightMask(p)
  /\ \A p \in Callers : Fresh(p) => made[p] = {} /\ shown[p] = {}
  /\ Begun => monitored
  /\ at["monitor"] = "start" => ~monitored

\* One line more, printed if it is asked for and the limit allows it.
LEMMA LineAdded ==
  ASSUME NEW p, NEW k, NEW left, NEW md, NEW sh, NEW ab, NEW sm, Agrees(p, k, left, md, sh, ab, sm),
         NEW line, NEW left2, NEW sh2,
         IF AskedIn(p, line, ab, sm) /\ (k = "monitor8.c" => line.ok) /\ (k = "monitor10.c" => left # 0)
         THEN sh2 = sh \cup {line} ELSE sh2 = sh /\ left2 = left
  PROVE  Agrees(p, k, left2, md \cup {line}, sh2, ab, sm)
BY DEF Agrees

\* A count goes down with each line, and stays at 0 or at -1.
LEMMA BudgetKept ==
  ASSUME NEW q \in Record, NEW k, InBudget(k, q), k = "monitor10.c" => q.monitor_left # 0,
         NEW r, r = [q EXCEPT !.lines = @ + 1,
                              !.monitor_left = IF k = "monitor10.c" /\ @ > 0 THEN @ - 1 ELSE @]
  PROVE  r \in Record /\ InBudget(k, r) /\ r.monitor_mask = q.monitor_mask
<1>1. q.monitor_left \in {-1, 0} \cup 0 .. Limit /\ q.lines \in Nat /\ Limit \in Nat \cup {-1}
  BY MonitorAssumption DEF Record, MonitorAssumption
<1>2. /\ r.lines = q.lines + 1 /\ r.monitor_mask = q.monitor_mask
      /\ r.monitor_left = IF k = "monitor10.c" /\ q.monitor_left > 0 THEN q.monitor_left - 1 ELSE q.monitor_left
      /\ r = [monitor_mask |-> r.monitor_mask, monitor_left |-> r.monitor_left, lines |-> r.lines]
  BY DEF Record
<1>3. r.monitor_left \in {-1, 0} \cup 0 .. Limit /\ r.lines \in Nat
  BY <1>1, <1>2
<1>4. r \in Record
  BY <1>2, <1>3 DEF Record
<1>5. InBudget(k, r)
  BY <1>1, <1>2 DEF InBudget
<1> QED BY <1>2, <1>4, <1>5

\* What was asked for stays what it is.
LEMMA AskedStays ==
  ASSUME UNCHANGED inputs
  PROVE  AskedBits' = AskedBits /\ (ArgsInv => ArgsInv')
<1>1. UNCHANGED <<variant, kernel, text, argv, shmask>>
  BY DEF inputs
<1>2. AskedBits' = AskedBits
  BY <1>1 DEF AskedBits
<1>3. ASSUME ArgsInv
      PROVE  ArgsInv'
  BY <1>1, <1>3 DEF ArgsInv, argc, TextsOf
<1> QED BY <1>2, <1>3

\* The end of every call: the line is in both histories if it is asked for.
LEMMA SyscallKeeps ==
  ASSUME NEW p \in Callers, NEW call \in DOMAIN SYS, NEW ok \in BOOLEAN, NEW procs,
         made \in [Callers -> SUBSET Line], shown \in [Callers -> SUBSET Line], monitored' \in BOOLEAN,
         Sound(procs), procs[p].monitor_mask = RightMask(p)', syscall(p, call, ok, procs)
  PROVE  /\ made' \in [Callers -> SUBSET Line] /\ shown' \in [Callers -> SUBSET Line]
         /\ Sound(proc)'
         /\ \A q \in Callers : proc'[q].monitor_mask = procs[q].monitor_mask
         /\ \A q \in Callers \ {p} : made'[q] = made[q] /\ shown'[q] = shown[q]
<1> DEFINE line == [call |-> call, ok |-> ok, after |-> monitored']
           printed == Prints(procs[p], call, ok)
<1>0. UNCHANGED inputs /\ AskedBits' = AskedBits /\ shmask' = shmask /\ kernel' = kernel
  <2>1. UNCHANGED inputs
    BY DEF syscall
  <2>2. shmask' = shmask /\ kernel' = kernel
    BY <2>1 DEF inputs
  <2> QED BY <2>1, <2>2, AskedStays
<1>1. line \in Line
  BY DEF Line
<1>2. made' = [made EXCEPT ![p] = @ \cup {line}]
  BY DEF syscall
<1>3. IF printed THEN proc' = [procs EXCEPT ![p] = Printed(@)] /\ shown' = [shown EXCEPT ![p] = @ \cup {line}]
                 ELSE proc' = procs /\ shown' = shown
  BY DEF syscall
<1>4. printed <=> /\ AskedIn(p, line, AskedBits, shmask)
                  /\ kernel = "monitor8.c" => line.ok
                  /\ kernel = "monitor10.c" => procs[p].monitor_left # 0
  <2>1. procs[p].monitor_mask = IF p # "sh" /\ monitored' THEN AskedBits ELSE shmask
    BY <1>0 DEF RightMask
  <2> QED BY <2>1 DEF Prints, AskedIn
<1>5. made' \in [Callers -> SUBSET Line] /\ made'[p] = made[p] \cup {line} /\ \A q \in Callers \ {p} : made'[q] = made[q]
  <2> HIDE DEF line
  <2> QED BY <1>1, <1>2
<1>6. /\ shown' \in [Callers -> SUBSET Line] /\ \A q \in Callers \ {p} : shown'[q] = shown[q]
      /\ shown'[p] = IF printed THEN shown[p] \cup {line} ELSE shown[p]
  <2> HIDE DEF line, printed
  <2> QED BY <1>1, <1>3
<1>7. /\ proc' \in [Callers -> Record] /\ \A q \in Callers \ {p} : proc'[q] = procs[q]
      /\ InBudget(kernel, proc'[p]) /\ proc'[p].monitor_mask = procs[p].monitor_mask
      /\ ~printed => proc'[p] = procs[p]
  <2>1. procs \in [Callers -> Record] /\ InBudget(kernel, procs[p]) /\ procs[p] \in Record
    BY DEF Sound
  <2>2. CASE printed
    <3>1. kernel = "monitor10.c" => procs[p].monitor_left # 0
      BY <1>4, <2>2
    <3>2. Printed(procs[p]) = [procs[p] EXCEPT !.lines = @ + 1,
                                 !.monitor_left = IF kernel = "monitor10.c" /\ @ > 0 THEN @ - 1 ELSE @]
      BY DEF Printed
    <3>3. /\ Printed(procs[p]) \in Record /\ InBudget(kernel, Printed(procs[p]))
          /\ Printed(procs[p]).monitor_mask = procs[p].monitor_mask
      BY <2>1, <3>1, <3>2, BudgetKept
    <3>4. proc' = [procs EXCEPT ![p] = Printed(procs[p])]
      BY <1>3, <2>2
    <3> HIDE DEF printed, line
    <3> QED BY <2>1, <2>2, <3>3, <3>4
  <2>3. CASE ~printed
    <3> HIDE DEF printed, line
    <3> QED BY <1>3, <2>1, <2>3
  <2> QED BY <2>2, <2>3
<1>8. Agrees(p, kernel, proc'[p].monitor_left, made'[p], shown'[p], AskedBits, shmask)
  <2>1. Agrees(p, kernel, procs[p].monitor_left, made[p], shown[p], AskedBits, shmask)
    BY DEF Sound
  <2>2. Agrees(p, kernel, proc'[p].monitor_left, made[p] \cup {line}, shown'[p], AskedBits, shmask)
    <3>1. IF printed THEN shown'[p] = shown[p] \cup {line}
                     ELSE shown'[p] = shown[p] /\ proc'[p].monitor_left = procs[p].monitor_left
      <4> HIDE DEF printed, line
      <4> QED BY <1>6, <1>7
    <3>2. IF /\ AskedIn(p, line, AskedBits, shmask)
             /\ kernel = "monitor8.c" => line.ok
             /\ kernel = "monitor10.c" => procs[p].monitor_left # 0
          THEN shown'[p] = shown[p] \cup {line}
          ELSE shown'[p] = shown[p] /\ proc'[p].monitor_left = procs[p].monitor_left
      <4> HIDE DEF printed, line
      <4> QED BY <1>4, <3>1
    <3> HIDE DEF printed, line
    <3> QED BY <2>1, <3>2, LineAdded
  <2> QED BY <1>5, <2>2
<1>9. \A q \in Callers : InBudget(kernel, proc'[q])
                        /\ Agrees(q, kernel, proc'[q].monitor_left, made'[q], shown'[q], AskedBits, shmask)
  BY <1>5, <1>6, <1>7, <1>8 DEF Sound
<1>10. Sound(proc)'
  BY <1>0, <1>7, <1>9 DEF Sound
<1> QED BY <1>5, <1>6, <1>7, <1>10

(***************************************************************************)
(* Where the processes are: the parent runs one command at a time, and     *)
(* comes to its end after them.                                            *)
(***************************************************************************)
Places == {"unborn", "start", "exec", "fork1", "wait1", "fork2", "wait2", "wait", "complain", "exit", "run", "ended"}
Over == {"unborn", "ended"}

\* The places m of the parent, c1 and c2 of the commands, and sh of the shell.
Staged(m, c1, c2, sh) ==
  /\ m \in {"start", "exec", "run", "fork1"} => c1 = "unborn" /\ c2 = "unborn"
  /\ m = "wait1" => c2 = "unborn"
  /\ m = "fork2" => c1 \in Over /\ c2 = "unborn"
  /\ m = "wait2" => c1 \in Over
  /\ m \in {"complain", "exit", "ended"} => c1 \in Over /\ c2 \in Over
  /\ m \notin {"wait", "unborn"}
  /\ sh \in {"wait", "run"}

\* A command of monitor7.c is run only if there is a separator.
Split(m, c1, c2) ==
  variant = 7 /\ (m \in {"fork1", "wait1", "fork2", "wait2"} \/ c1 # "unborn" \/ c2 # "unborn") => Separators # {}

StageInv == /\ Staged(at["monitor"], at["cmd1"], at["cmd2"], at["sh"])
            /\ Split(at["monitor"], at["cmd1"], at["cmd2"])
PlaceInv == at \in [Callers -> Places] /\ calls \in 0 .. MaxCalls /\ StageInv

\* Each call of exec passed on what the line says for that command.
WordsInv ==
  /\ DOMAIN ran = Callers
  /\ \A p \in Callers : \/ ran[p] = <<>>
                        \/ variant = 7 /\ p \notin {"cmd1", "cmd2"}
                        \/ ran[p] = Command(p) /\ (variant = 7 => Separators # {})

Inv == ArgsInv /\ PlaceInv /\ TraceInv /\ WordsInv

LEMMA InitInv ==
  ASSUME MonitorInit
  PROVE  Inv
<1>1. ArgsInv
  <2>1. SYS.read \in 0 .. 31
    BY DEF SYS
  <2>2. shmask \subseteq 0 .. 31
    BY <2>1 DEF MonitorInit
  <2>3. argv \in Seq(Arg) /\ argc \in 1 .. MAXARG
    <3>1. PICK n \in 1 .. MAXARG : argv \in [1 .. n -> Arg]
      BY DEF MonitorInit, Arg
    <3>3. MAXARG \in Nat
      BY MonitorAssumption DEF MonitorAssumption, MAXARG
    <3>4. argv \in Seq(Arg) /\ Len(argv) = n
      <4>1. n \in Nat /\ argv = [i \in 1 .. n |-> argv[i]] /\ \A i \in 1 .. n : argv[i] \in Arg
        BY <3>3, <3>1
      <4>2. [i \in 1 .. n |-> argv[i]] \in Seq(Arg)
        BY <4>1, IsASeq
      <4>3. argv \in Seq(Arg) /\ DOMAIN argv = 1 .. n
        BY <4>1, <4>2
      <4> QED BY <4>1, <4>3
    <3> QED BY <3>1, <3>4 DEF argc
  <2> QED BY <2>2, <2>3 DEF ArgsInv, MonitorInit
<1>2. PlaceInv
  <2>1. at = [p \in Callers |-> CASE p = "sh" -> "wait" [] p = "monitor" -> "start" [] OTHER -> "unborn"] /\ calls = 0
    BY DEF MonitorInit
  <2>2. at["sh"] = "wait" /\ at["monitor"] = "start" /\ at["cmd1"] = "unborn" /\ at["cmd2"] = "unborn"
    BY <2>1 DEF Callers
  <2>3. at \in [Callers -> Places] /\ calls \in 0 .. MaxCalls
    BY <2>1, MonitorAssumption DEF Places, MonitorAssumption
  <2> QED BY <2>2, <2>3 DEF PlaceInv, StageInv, Staged, Split
<1>3. WordsInv
  BY DEF MonitorInit, WordsInv
<1>4. TraceInv
  <2> DEFINE inherited == [monitor_mask |-> shmask, monitor_left |-> IF shmask = {} THEN 0 ELSE Limit, lines |-> 0]
  <2>1. /\ proc = [p \in Callers |-> IF p \in {"sh", "monitor"} THEN inherited ELSE NoProc]
        /\ made = [p \in Callers |-> {}] /\ shown = [p \in Callers |-> {}] /\ monitored = FALSE
    BY DEF MonitorInit
  <2>2. at = [p \in Callers |-> CASE p = "sh" -> "wait" [] p = "monitor" -> "start" [] OTHER -> "unborn"]
    BY DEF MonitorInit
  <2>3. ~Begun
    BY <2>2 DEF Begun, Callers
  <2>4. Limit \in Nat \cup {-1} /\ shmask \subseteq 0 .. 31
    BY <1>1, MonitorAssumption DEF ArgsInv, MonitorAssumption
  <2>5. inherited \in Record /\ NoProc \in Record
    BY <2>4 DEF Record, NoProc
  <2>6. \A k : InBudget(k, inherited) /\ InBudget(k, NoProc)
    BY <2>4 DEF InBudget, NoProc
  <2>7. \A p, k, left, ab, sm : Agrees(p, k, left, {}, {}, ab, sm)
    BY DEF Agrees
  <2>8. \A p \in Callers : at[p] # "unborn" => proc[p].monitor_mask = RightMask(p)
    BY <2>1, <2>2 DEF RightMask, Callers
  <2>9. Sound(proc)
    <3> HIDE DEF inherited
    <3> QED BY <2>1, <2>5, <2>6, <2>7 DEF Sound
  <2> HIDE DEF inherited
  <2> QED BY <2>1, <2>2, <2>3, <2>8, <2>9 DEF TraceInv
<1> QED BY <1>1, <1>2, <1>3, <1>4 DEF Inv

\* Only Exec changes ran, and nothing changes the command line.
LEMMA ArgsStep ==
  ASSUME [MonitorNext]_monitorVars
  PROVE  UNCHANGED inputs
<1>1. \A p \in Callers : Complain(p) \/ Exec(p) \/ ExecFails(p) \/ Quit(p) \/ Reads(p) \/ Spawn(p) \/ Ends(p) => UNCHANGED inputs
  BY DEF Complain, Exec, ExecFails, Quit, Reads, Spawn, Ends, Plain, syscall, sys_fork
<1>2. Usage \/ CallMonitor \/ MonitorFails \/ ForkFirst \/ ForkSecond \/ ForkError \/ Reap \/ ShellWait \/ Idle \/ UNCHANGED monitorVars
      => UNCHANGED inputs
  BY DEF Usage, CallMonitor, MonitorFails, ForkFirst, ForkSecond, ForkError, Reap, ShellWait, Idle, Plain, syscall, sys_fork, monitorVars
<1> QED BY <1>1, <1>2 DEF MonitorNext

(***************************************************************************)
(* The steps, and what they do to TraceInv.                                *)
(***************************************************************************)
\* Any call: procs is what it made of the processes, and the rest is about its places.
LEMMA TraceAfter ==
  ASSUME TraceInv, NEW p \in Callers, NEW call \in DOMAIN SYS, NEW ok \in BOOLEAN, NEW procs,
         Sound(procs), monitored' \in BOOLEAN, syscall(p, call, ok, procs),
         at'[p] # "unborn", ~Fresh(p)',
         \A q \in Callers : at'[q] # "unborn" => procs[q].monitor_mask = RightMask(q)',
         \A q \in Callers \ {p} : Fresh(q)' => Fresh(q),
         Begun' => monitored', at'["monitor"] # "start" \/ ~monitored'
  PROVE  TraceInv'
<1>1. /\ made' \in [Callers -> SUBSET Line] /\ shown' \in [Callers -> SUBSET Line] /\ Sound(proc)'
      /\ \A q \in Callers : proc'[q].monitor_mask = procs[q].monitor_mask
      /\ \A q \in Callers \ {p} : made'[q] = made[q] /\ shown'[q] = shown[q]
  BY SyscallKeeps DEF TraceInv
<1>2. \A q \in Callers : Fresh(q)' => made'[q] = {} /\ shown'[q] = {}
  BY <1>1 DEF TraceInv
<1> QED BY <1>1, <1>2 DEF TraceInv

\* The places that only a program that has called monitor() reaches.
Started == {"exec", "fork1", "wait1", "fork2", "wait2", "run"}

\* What it takes for a process to go on without anybody's birth or start.
GoesOn(p, to) ==
  /\ at \in [Callers -> Places] /\ at' = [at EXCEPT ![p] = to]
  /\ p \in Callers /\ at[p] # "unborn" /\ to \in Places \ {"unborn", "start"}
  /\ to \in Started => p # "monitor" \/ at[p] \in Started

LEMMA GoingOn ==
  ASSUME NEW p, NEW to, GoesOn(p, to)
  PROVE  /\ Begun' => Begun
         /\ at'["monitor"] = "start" => at["monitor"] = "start"
         /\ \A q \in Callers : /\ at'[q] # "unborn" <=> at[q] # "unborn"
                               /\ Fresh(q)' => Fresh(q)
         /\ at'[p] # "unborn" /\ ~Fresh(p)'
BY DEF GoesOn, Begun, Fresh, Callers, Started

\* A call that changes no mask.
LEMMA PlainKeeps ==
  ASSUME TraceInv, NEW p, NEW to, GoesOn(p, to), NEW call \in DOMAIN SYS, NEW ok \in BOOLEAN, Plain(p, call, ok)
  PROVE  TraceInv'
<1>1. monitored' = monitored /\ syscall(p, call, ok, proc) /\ p \in Callers
  BY DEF Plain, GoesOn
<1>2. AskedBits' = AskedBits /\ shmask' = shmask
  BY <1>1, AskedStays DEF syscall, inputs
<1>3. \A q : RightMask(q)' = RightMask(q)
  BY <1>1, <1>2 DEF RightMask
<1>4. /\ Begun' => Begun
      /\ at'["monitor"] = "start" => at["monitor"] = "start"
      /\ \A q \in Callers : /\ at'[q] # "unborn" <=> at[q] # "unborn"
                            /\ Fresh(q)' => Fresh(q)
      /\ at'[p] # "unborn" /\ ~Fresh(p)'
  BY GoingOn
<1>5. ASSUME NEW q \in Callers, at'[q] # "unborn"
      PROVE  proc[q].monitor_mask = RightMask(q)'
  <2>1. at[q] # "unborn"
    BY <1>4, <1>5
  <2>2. proc[q].monitor_mask = RightMask(q)
    BY <2>1 DEF TraceInv
  <2> QED BY <1>3, <2>2
<1>6. Sound(proc) /\ monitored' \in BOOLEAN /\ (Begun' => monitored') /\ (at'["monitor"] # "start" \/ ~monitored')
  BY <1>1, <1>4 DEF TraceInv
<1> QED BY <1>1, <1>4, <1>5, <1>6, TraceAfter

\* A step without a call.
LEMMA QuietKeeps ==
  ASSUME TraceInv, NEW p, NEW to, GoesOn(p, to), UNCHANGED <<inputs, proc, monitored, made, shown>>
  PROVE  TraceInv'
<1>1. AskedBits' = AskedBits /\ shmask' = shmask /\ kernel' = kernel
  BY AskedStays DEF inputs
<1>2. \A q : RightMask(q)' = RightMask(q)
  BY <1>1 DEF RightMask
<1>3. Sound(proc)'
  BY <1>1 DEF Sound, TraceInv
<1>4. /\ Begun' => Begun
      /\ at'["monitor"] = "start" => at["monitor"] = "start"
      /\ \A q \in Callers : /\ at'[q] # "unborn" <=> at[q] # "unborn"
                            /\ Fresh(q)' => Fresh(q)
  BY GoingOn
<1>5. \A q \in Callers : at'[q] # "unborn" => proc'[q].monitor_mask = RightMask(q)'
  BY <1>2, <1>4 DEF TraceInv
<1>6. \A q \in Callers : Fresh(q)' => made'[q] = {} /\ shown'[q] = {}
  BY <1>4 DEF TraceInv
<1> QED BY <1>3, <1>4, <1>5, <1>6 DEF TraceInv

\* A child begins with its parent's mask and count, and with no lines.
LEMMA ForkKeeps ==
  ASSUME TraceInv, at \in [Callers -> Places], NEW p \in Callers \ {"sh"}, NEW child \in {"cmd1", "cmd2", "sub"},
         at[child] = "unborn", at[p] \notin {"unborn", "start"}, Begun,
         NEW to \in Places \ {"unborn", "start"}, NEW start \in Places \ {"unborn", "start"}, sys_fork(p, child, to, start)
  PROVE  TraceInv'
<1> DEFINE procs == [proc EXCEPT ![child] = proc[p]]
<1>0. p # child /\ child \in Callers /\ child # "sh" /\ child # "monitor" /\ monitored
  BY DEF Callers, TraceInv
<1>1. monitored' = monitored /\ syscall(p, "fork", TRUE, procs) /\ at' = [at EXCEPT ![p] = to, ![child] = start]
  BY DEF sys_fork, Inherited
<1>2. AskedBits' = AskedBits /\ shmask' = shmask
  BY <1>1, AskedStays DEF syscall, inputs
<1>3. \A q : RightMask(q)' = RightMask(q)
  BY <1>1, <1>2 DEF RightMask
<1>4. procs[child] = proc[p] /\ \A q \in Callers \ {child} : procs[q] = proc[q]
  BY <1>0 DEF TraceInv, Sound
<1>5. Sound(procs)
  <2>1. made[child] = {} /\ shown[child] = {}
    BY <1>0 DEF TraceInv, Fresh
  <2>2. \A k, left, ab, sm : Agrees(child, k, left, {}, {}, ab, sm)
    BY DEF Agrees
  <2>3. procs \in [Callers -> Record]
    BY DEF TraceInv, Sound
  <2> HIDE DEF procs
  <2> QED BY <1>0, <1>4, <2>1, <2>2, <2>3 DEF TraceInv, Sound
<1>6. at'[p] = to /\ at'[child] = start /\ \A q \in Callers \ {p, child} : at'[q] = at[q]
  BY <1>0, <1>1
<1>7. \A q \in Callers : at'[q] # "unborn" => procs[q].monitor_mask = RightMask(q)'
  <2>1. proc[p].monitor_mask = RightMask(p) /\ RightMask(p) = RightMask(child)
    BY <1>0 DEF TraceInv, RightMask
  <2> HIDE DEF procs
  <2> QED BY <1>3, <1>4, <1>6, <2>1 DEF TraceInv
<1>8. \A q \in Callers \ {p} : Fresh(q)' => Fresh(q)
  BY <1>0, <1>6 DEF Fresh
<1>9. ~Fresh(p)' /\ at'[p] # "unborn" /\ monitored'
  BY <1>0, <1>1, <1>6 DEF Fresh
<1>10. at'["monitor"] # "start"
  <2>1. at["monitor"] # "start"
    BY <1>0 DEF TraceInv
  <2> QED BY <1>0, <1>6, <2>1 DEF Callers
<1>11. "fork" \in DOMAIN SYS /\ TRUE \in BOOLEAN
  BY DEF SYS
<1> HIDE DEF procs
<1> QED BY <1>1, <1>5, <1>7, <1>8, <1>9, <1>10, <1>11, TraceAfter DEF TraceInv

\* monitor() sets the mask that was asked for, and a new count.
LEMMA CallMonitorKeeps ==
  ASSUME TraceInv, ArgsInv, PlaceInv, CallMonitor
  PROVE  TraceInv'
<1> DEFINE q0 == [monitor_mask |-> Mask, monitor_left |-> Limit, lines |-> 0]
           procs == [proc EXCEPT !["monitor"] = q0]
<1>0. "monitor" \in Callers /\ "sh" \in Callers
  BY DEF Callers
<1>1. monitored' = TRUE /\ syscall("monitor", "monitor", TRUE, procs) /\ at["monitor"] = "start"
  BY DEF CallMonitor, Goto
<1>2. at' = [at EXCEPT !["monitor"] = AfterMonitor]
  BY DEF CallMonitor, Goto
<1>3. AfterMonitor \in Places \ {"unborn", "start"}
  BY DEF AfterMonitor, Places, ArgsInv
<1>4. AskedBits' = AskedBits /\ shmask' = shmask
  BY <1>1, AskedStays DEF syscall, inputs
<1>5. Limit \in Nat \cup {-1} /\ Mask = AskedBits /\ AskedBits \subseteq 0 .. 31
  BY MaskIsAsked, MonitorAssumption DEF MonitorAssumption
<1>6. q0 \in Record /\ \A k : InBudget(k, q0)
  BY <1>5 DEF Record, InBudget
<1>7. procs["monitor"] = q0 /\ procs \in [Callers -> Record] /\ \A q \in Callers \ {"monitor"} : procs[q] = proc[q]
  <2> HIDE DEF q0
  <2> QED BY <1>0, <1>6 DEF TraceInv, Sound
<1>8. Sound(procs)
  <2>1. made["monitor"] = {} /\ shown["monitor"] = {}
    BY <1>0, <1>1 DEF TraceInv, Fresh
  <2>2. \A p, k, left, ab, sm : Agrees(p, k, left, {}, {}, ab, sm)
    BY DEF Agrees
  <2> HIDE DEF procs, q0
  <2>3. InBudget(kernel, procs["monitor"]) /\ Agrees("monitor", kernel, procs["monitor"].monitor_left, {}, {}, AskedBits, shmask)
    BY <1>6, <1>7, <2>2
  <2>4. ASSUME NEW q \in Callers \ {"monitor"}
        PROVE  InBudget(kernel, procs[q]) /\ Agrees(q, kernel, procs[q].monitor_left, made[q], shown[q], AskedBits, shmask)
    BY <1>7 DEF TraceInv, Sound
  <2> QED BY <1>7, <2>1, <2>3, <2>4 DEF Sound
<1>9. at'["monitor"] = AfterMonitor /\ \A q \in Callers \ {"monitor"} : at'[q] = at[q]
  BY <1>0, <1>2 DEF PlaceInv
<1>10. \A q \in Callers : at'[q] # "unborn" => procs[q].monitor_mask = RightMask(q)'
  <2>1. ~monitored /\ ~Begun
    BY <1>1 DEF TraceInv
  <2>2. \A q \in Callers \ {"monitor", "sh"} : at'[q] = "unborn"
    BY <1>9, <2>1 DEF Begun, Callers
  <2>3. proc["sh"].monitor_mask = shmask
    BY <1>0 DEF TraceInv, RightMask, PlaceInv, StageInv, Staged
  <2>4. RightMask("sh")' = shmask /\ RightMask("monitor")' = AskedBits
    BY <1>1, <1>4 DEF RightMask
  <2>5. procs["monitor"].monitor_mask = AskedBits
    BY <1>5, <1>7
  <2> HIDE DEF procs, q0
  <2> QED BY <1>7, <2>2, <2>3, <2>4, <2>5
<1>11. "monitor" \in DOMAIN SYS /\ TRUE \in BOOLEAN
  BY DEF SYS
<1>12. \A q \in Callers \ {"monitor"} : Fresh(q)' => Fresh(q)
  BY <1>9 DEF Fresh
<1>13. at'["monitor"] # "unborn" /\ ~Fresh("monitor")' /\ at'["monitor"] # "start"
  BY <1>3, <1>9 DEF Fresh
<1> HIDE DEF procs, q0
<1> QED BY <1>0, <1>1, <1>8, <1>10, <1>11, <1>12, <1>13, TraceAfter

LEMMA TraceStep ==
  ASSUME Inv, MonitorNext
  PROVE  TraceInv'
<1>0. /\ ArgsInv /\ TraceInv /\ PlaceInv /\ at \in [Callers -> Places]
      /\ \A c \in {"fork", "wait", "read", "exec", "write", "monitor"} : c \in DOMAIN SYS
      /\ "monitor" \in Callers /\ "sh" \in Callers
  BY DEF Inv, PlaceInv, SYS, Callers
<1>1. CASE Usage
  <2>1. GoesOn("monitor", "complain")
    BY <1>0, <1>1 DEF Usage, Goto, GoesOn, Places, Started
  <2>2. UNCHANGED <<inputs, proc, monitored, made, shown>>
    BY <1>1 DEF Usage
  <2> QED BY <1>0, <2>1, <2>2, QuietKeeps
<1>2. CASE CallMonitor
  BY <1>0, <1>2, CallMonitorKeeps
<1>3. CASE MonitorFails
  <2>1. GoesOn("monitor", "complain")
    BY <1>0, <1>3 DEF MonitorFails, Goto, GoesOn, Places, Started
  <2> QED BY <1>0, <1>3, <2>1, PlainKeeps DEF MonitorFails
<1>4. CASE ForkFirst
  <2>1. at["monitor"] = "fork1" /\ at["cmd1"] = "unborn" /\ Begun
    BY <1>0, <1>4 DEF ForkFirst, PlaceInv, StageInv, Staged, Begun
  <2>2. "wait1" \in Places \ {"unborn", "start"} /\ "exec" \in Places \ {"unborn", "start"}
    BY DEF Places
  <2>3. sys_fork("monitor", "cmd1", "wait1", "exec")
    BY <1>4 DEF ForkFirst
  <2> QED BY <1>0, <2>1, <2>2, <2>3, ForkKeeps
<1>5. CASE ForkSecond
  <2>1. at["monitor"] = "fork2" /\ at["cmd2"] = "unborn" /\ Begun
    BY <1>0, <1>5 DEF ForkSecond, PlaceInv, StageInv, Staged, Begun
  <2>2. "wait2" \in Places \ {"unborn", "start"} /\ "exec" \in Places \ {"unborn", "start"}
    BY DEF Places
  <2>3. sys_fork("monitor", "cmd2", "wait2", "exec")
    BY <1>5 DEF ForkSecond
  <2> QED BY <1>0, <2>1, <2>2, <2>3, ForkKeeps
<1>6. CASE ForkError
  <2>1. PICK to \in {"complain", "wait1", "wait2"} : GoesOn("monitor", to)
    BY <1>0, <1>6 DEF ForkError, Goto, GoesOn, Places, Started
  <2> QED BY <1>0, <1>6, <2>1, PlainKeeps DEF ForkError
<1>7. CASE Reap
  <2>1. PICK to \in {"exit", "fork2"} : GoesOn("monitor", to)
    BY <1>0, <1>7 DEF Reap, Goto, GoesOn, Places, Started
  <2>2. (\E p \in Awaited : at[p] = "ended") \in BOOLEAN
    OBVIOUS
  <2>3. Plain("monitor", "wait", \E p \in Awaited : at[p] = "ended")
    BY <1>7 DEF Reap
  <2> QED BY <1>0, <2>1, <2>2, <2>3, PlainKeeps
<1>8. CASE ShellWait
  <2>1. GoesOn("sh", "run")
    BY <1>0, <1>8 DEF ShellWait, Goto, GoesOn, Places, Started
  <2> QED BY <1>0, <1>8, <2>1, PlainKeeps DEF ShellWait
<1>9. CASE Idle
  <2>1. GoesOn("sh", "run")
    BY <1>0, <1>9 DEF Idle, monitorVars, GoesOn, Places, Started
  <2>2. UNCHANGED <<inputs, proc, monitored, made, shown>>
    BY <1>9 DEF Idle, monitorVars
  <2> QED BY <1>0, <2>1, <2>2, QuietKeeps
<1>10. ASSUME NEW p \in Callers, Complain(p)
       PROVE  TraceInv'
  <2>1. PICK to \in {"complain", "exit"} : GoesOn(p, to)
    BY <1>0, <1>10 DEF Complain, Goto, GoesOn, Places, Started
  <2> QED BY <1>0, <1>10, <2>1, PlainKeeps DEF Complain
<1>11. ASSUME NEW p \in Callers, Exec(p)
       PROVE  TraceInv'
  <2>1. GoesOn(p, "run")
    BY <1>0, <1>11 DEF Exec, Goto, GoesOn, Places, Started
  <2>2. \A q \in Callers : at'[q] # "unborn" => proc[q].monitor_mask = RightMask(q)'
    <3>1. AskedBits' = AskedBits /\ shmask' = shmask /\ monitored' = monitored
      BY <1>11, AskedStays DEF Exec, syscall, inputs
    <3>2. \A q : RightMask(q)' = RightMask(q)
      BY <3>1 DEF RightMask
    <3> QED BY <1>0, <2>1, <3>2, GoingOn DEF TraceInv
  <2> QED BY <1>0, <1>11, <2>1, <2>2, GoingOn, TraceAfter DEF TraceInv, Exec
<1>12. ASSUME NEW p \in Callers, ExecFails(p)
       PROVE  TraceInv'
  <2>1. PICK to \in {"complain", "exit"} : GoesOn(p, to)
    BY <1>0, <1>12 DEF ExecFails, Goto, GoesOn, Places, Started
  <2> QED BY <1>0, <1>12, <2>1, PlainKeeps DEF ExecFails
<1>13. ASSUME NEW p \in Callers, Quit(p)
       PROVE  TraceInv'
  <2>1. GoesOn(p, "ended")
    BY <1>0, <1>13 DEF Quit, Goto, GoesOn, Places, Started
  <2>2. UNCHANGED <<inputs, proc, monitored, made, shown>>
    BY <1>13 DEF Quit
  <2> QED BY <1>0, <2>1, <2>2, QuietKeeps
<1>14. ASSUME NEW p \in Callers, Reads(p)
       PROVE  TraceInv'
  <2>1. GoesOn(p, "run")
    BY <1>0, <1>14 DEF Reads, GoesOn, Places, Started
  <2> QED BY <1>0, <1>14, <2>1, PlainKeeps DEF Reads
<1>15. ASSUME NEW p \in Callers, Spawn(p)
       PROVE  TraceInv'
  <2>1. p \in Callers \ {"sh"} /\ at[p] = "run" /\ at["sub"] = "unborn" /\ sys_fork(p, "sub", "run", "run")
    BY <1>15 DEF Spawn
  <2>2. Begun
    BY <2>1 DEF Begun, Callers
  <2>3. "run" \in Places \ {"unborn", "start"}
    BY DEF Places
  <2> QED BY <1>0, <2>1, <2>2, <2>3, ForkKeeps
<1>16. ASSUME NEW p \in Callers, Ends(p)
       PROVE  TraceInv'
  <2>1. GoesOn(p, "exit")
    BY <1>0, <1>16 DEF Ends, Goto, GoesOn, Places, Started
  <2>2. UNCHANGED <<inputs, proc, monitored, made, shown>>
    BY <1>16 DEF Ends
  <2> QED BY <1>0, <2>1, <2>2, QuietKeeps
<1> QED BY <1>1, <1>2, <1>3, <1>4, <1>5, <1>6, <1>7, <1>8, <1>9, <1>10, <1>11, <1>12, <1>13, <1>14, <1>15, <1>16 DEF MonitorNext

LEMMA PlaceStep ==
  ASSUME Inv, MonitorNext
  PROVE  PlaceInv'
<1> DEFINE m  == at["monitor"]
           c1 == at["cmd1"]
           c2 == at["cmd2"]
           sh == at["sh"]
<1>0. /\ PlaceInv /\ at \in [Callers -> Places] /\ calls \in 0 .. MaxCalls /\ variant \in 1 .. 7
      /\ MaxCalls \in Nat /\ Staged(m, c1, c2, sh) /\ Split(m, c1, c2)
  BY MonitorAssumption DEF Inv, ArgsInv, PlaceInv, StageInv, MonitorAssumption
<1>1. variant' = variant /\ Separators' = Separators
  <2>1. variant' = variant /\ argv' = argv
    BY ArgsStep DEF inputs
  <2> QED BY <2>1 DEF Separators, argc
<1>2. at' \in [Callers -> Places] /\ calls' \in 0 .. MaxCalls
  <2>1. ASSUME NEW p \in Callers, Complain(p) \/ Exec(p) \/ ExecFails(p) \/ Quit(p) \/ Reads(p) \/ Ends(p)
        PROVE  at' \in [Callers -> Places] /\ calls' \in 0 .. MaxCalls
    <3>1. CASE Complain(p) \/ Reads(p)
      <4>1. Counted \/ UNCHANGED calls
        BY <3>1 DEF Complain, Reads
      <4>2. calls' \in 0 .. MaxCalls
        BY <1>0, <4>1 DEF Counted
      <4>3. UNCHANGED at \/ at' = [at EXCEPT ![p] = "complain"] \/ at' = [at EXCEPT ![p] = "exit"]
        BY <3>1 DEF Complain, Reads, Goto
      <4> QED BY <1>0, <4>2, <4>3 DEF Places
    <3>2. CASE Exec(p) \/ ExecFails(p) \/ Quit(p) \/ Ends(p)
      BY <1>0, <3>2 DEF Exec, ExecFails, Quit, Ends, Goto, Places
    <3> QED BY <2>1, <3>1, <3>2
  <2>2. CASE ForkFirst \/ ForkSecond \/ \E p \in Callers : Spawn(p)
    BY <1>0, <2>2 DEF ForkFirst, ForkSecond, Spawn, sys_fork, Places
  <2>3. CASE CallMonitor
    <3>1. AfterMonitor \in Places
      BY <1>0 DEF AfterMonitor, Places
    <3> QED BY <1>0, <2>3, <3>1 DEF CallMonitor, Goto
  <2>4. CASE Usage \/ MonitorFails \/ ForkError \/ Reap \/ ShellWait
    BY <1>0, <2>4 DEF Usage, MonitorFails, ForkError, Reap, ShellWait, Goto, Places
  <2>5. CASE Idle
    BY <1>0, <2>5 DEF Idle, monitorVars
  <2> QED BY <2>1, <2>2, <2>3, <2>4, <2>5 DEF MonitorNext
<1>3. ASSUME Staged(m', c1', c2', sh'),
             variant = 7 /\ Separators = {} => m' \notin {"fork1", "wait1", "fork2", "wait2"} /\ c1' = "unborn" /\ c2' = "unborn"
      PROVE  PlaceInv'
  BY <1>1, <1>2, <1>3 DEF PlaceInv, StageInv, Split
<1>4. variant = 7 /\ Separators = {} => m \notin {"fork1", "wait1", "fork2", "wait2"} /\ c1 = "unborn" /\ c2 = "unborn"
  BY <1>0 DEF Split
<1>5. ASSUME NEW p \in Callers, NEW from, NEW to, Goto(p, from, to), from # "unborn",
             Staged(IF p = "monitor" THEN to ELSE m, IF p = "cmd1" THEN to ELSE c1,
                    IF p = "cmd2" THEN to ELSE c2, IF p = "sh" THEN to ELSE sh),
             variant = 7 /\ Separators = {} => to \notin {"fork1", "wait1", "fork2", "wait2"}
      PROVE  PlaceInv'
  <2>1. /\ m' = IF p = "monitor" THEN to ELSE m
        /\ c1' = IF p = "cmd1" THEN to ELSE c1
        /\ c2' = IF p = "cmd2" THEN to ELSE c2
        /\ sh' = IF p = "sh" THEN to ELSE sh
    BY <1>0, <1>5 DEF Goto, Callers
  <2>2. (p = "cmd1" => c1 # "unborn") /\ (p = "cmd2" => c2 # "unborn")
    BY <1>5 DEF Goto
  <2> HIDE DEF m, c1, c2, sh
  <2>3. Staged(m', c1', c2', sh')
    BY <1>5, <2>1
  <2>4. variant = 7 /\ Separators = {} => m' \notin {"fork1", "wait1", "fork2", "wait2"} /\ c1' = "unborn" /\ c2' = "unborn"
    BY <1>4, <1>5, <2>1, <2>2
  <2> QED BY <1>3, <2>3, <2>4
<1>6. CASE UNCHANGED at
  BY <1>0, <1>3, <1>4, <1>6
<1> USE DEF Staged, Over
<1>7. ASSUME NEW p \in Callers, Complain(p) \/ Exec(p) \/ ExecFails(p) \/ Quit(p) \/ Ends(p)
      PROVE  PlaceInv'
  <2>1. PICK from \in {"complain", "exec", "exit", "run"}, to \in {"complain", "run", "exit", "ended"} :
          Goto(p, from, to) /\ (to = "run" => from = "exec") /\ (to = "ended" => from = "exit") /\ (from = "run" => p # "sh")
    BY <1>7 DEF Complain, Exec, ExecFails, Quit, Ends
  <2>2. at[p] = from
    BY <2>1 DEF Goto
  <2>3. p # "sh"
    BY <1>0, <2>1, <2>2
  <2>4. Staged(IF p = "monitor" THEN to ELSE m, IF p = "cmd1" THEN to ELSE c1,
               IF p = "cmd2" THEN to ELSE c2, IF p = "sh" THEN to ELSE sh)
    BY <1>0, <2>1, <2>2, <2>3
  <2> QED BY <1>5, <2>1, <2>4
<1>8. CASE Usage \/ MonitorFails
  <2>1. Goto("monitor", "start", "complain")
    BY <1>8 DEF Usage, MonitorFails
  <2>2. Staged("complain", c1, c2, sh)
    BY <1>0, <2>1 DEF Goto
  <2> QED BY <1>5, <2>1, <2>2 DEF Callers
<1>9. CASE CallMonitor
  <2>1. /\ AfterMonitor \in {"exec", "exit", "fork1", "complain"}
        /\ variant = 7 /\ AfterMonitor = "fork1" => Separators # {}
    BY <1>0 DEF AfterMonitor
  <2>2. Goto("monitor", "start", AfterMonitor)
    BY <1>9 DEF CallMonitor
  <2>3. Staged(AfterMonitor, c1, c2, sh)
    BY <1>0, <2>1, <2>2 DEF Goto
  <2> QED BY <1>5, <2>1, <2>2, <2>3 DEF Callers
<1>10. CASE ForkError
  <2>1. PICK from \in {"fork1", "fork2"}, to \in {"complain", "wait1", "wait2"} :
          Goto("monitor", from, to) /\ (to # "wait2" => from = "fork1") /\ (to = "wait2" => from = "fork2")
    BY <1>10 DEF ForkError
  <2>2. Staged(to, c1, c2, sh)
    BY <1>0, <2>1 DEF Goto
  <2>3. variant = 7 => Separators # {}
    BY <1>4, <2>1 DEF Goto
  <2> QED BY <1>5, <2>1, <2>2, <2>3 DEF Callers
<1>11. CASE Reap
  <2>1. PICK from \in {"wait1", "wait2"}, to \in {"exit", "fork2"} :
          Goto("monitor", from, to) /\ (to = "fork2" => from = "wait1")
    BY <1>11 DEF Reap
  <2>2. \A p \in Awaited : at[p] \in Over
    BY <1>11 DEF Reap
  <2>3. (m = "wait1" => c1 \in Over) /\ (m = "wait2" => c2 \in Over)
    BY <2>2 DEF Awaited
  <2>4. Staged(to, c1, c2, sh)
    BY <1>0, <2>1, <2>3 DEF Goto
  <2>5. variant = 7 => Separators # {}
    BY <1>4, <2>1 DEF Goto
  <2> QED BY <1>5, <2>1, <2>4, <2>5 DEF Callers
<1>12. CASE ShellWait
  <2>1. Goto("sh", "wait", "run")
    BY <1>12 DEF ShellWait
  <2>2. Staged(m, c1, c2, "run")
    BY <1>0
  <2> QED BY <1>5, <2>1, <2>2 DEF Callers
<1>13. CASE ForkFirst
  <2>1. m = "fork1" /\ at' = [at EXCEPT !["monitor"] = "wait1", !["cmd1"] = "exec"]
    BY <1>13 DEF ForkFirst, sys_fork
  <2>2. m' = "wait1" /\ c1' = "exec" /\ c2' = c2 /\ sh' = sh
    BY <1>0, <2>1 DEF Callers
  <2> QED BY <1>0, <1>3, <1>4, <2>1, <2>2
<1>14. CASE ForkSecond
  <2>1. m = "fork2" /\ at' = [at EXCEPT !["monitor"] = "wait2", !["cmd2"] = "exec"]
    BY <1>14 DEF ForkSecond, sys_fork
  <2>2. m' = "wait2" /\ c1' = c1 /\ c2' = "exec" /\ sh' = sh
    BY <1>0, <2>1 DEF Callers
  <2> QED BY <1>0, <1>3, <1>4, <2>1, <2>2
<1>15. ASSUME NEW p \in Callers, Spawn(p)
       PROVE  PlaceInv'
  <2>1. p # "sh" /\ p # "sub" /\ at[p] = "run" /\ at' = [at EXCEPT ![p] = "run", !["sub"] = "run"]
    BY <1>15 DEF Spawn, sys_fork
  <2>2. m' = m /\ c1' = c1 /\ c2' = c2 /\ sh' = sh
    BY <1>0, <2>1 DEF Callers
  <2> QED BY <1>0, <1>3, <1>4, <2>2
<1>16. UNCHANGED at \/ ~(Idle \/ \E p \in Callers : Reads(p))
  BY DEF Idle, Reads, monitorVars
<1> QED BY <1>6, <1>7, <1>8, <1>9, <1>10, <1>11, <1>12, <1>13, <1>14, <1>15, <1>16 DEF MonitorNext

\* Only exec changes ran.
LEMMA WordsStep ==
  ASSUME Inv, MonitorNext
  PROVE  WordsInv'
<1>1. variant' = variant /\ argv' = argv
  BY ArgsStep DEF inputs
<1>2. Separators' = Separators /\ \A p \in Callers : Command(p)' = Command(p)
  BY <1>1 DEF Separators, argc, Command, nargv, cmd1, cmd2
<1>3. CASE UNCHANGED ran
  BY <1>1, <1>2, <1>3 DEF Inv, WordsInv
<1>4. ASSUME NEW p \in Callers, Exec(p)
      PROVE  WordsInv'
  <2>1. ran' = [ran EXCEPT ![p] = Command(p)] /\ at[p] = "exec"
    BY <1>4 DEF Exec, Goto
  <2>2. variant = 7 /\ p \in {"cmd1", "cmd2"} => Separators # {}
    BY <2>1 DEF Inv, PlaceInv, StageInv, Split
  <2> QED BY <1>1, <1>2, <2>1, <2>2 DEF Inv, WordsInv
<1>5. UNCHANGED ran \/ \E p \in Callers : Exec(p)
  BY DEF MonitorNext, Usage, CallMonitor, MonitorFails, ForkFirst, ForkSecond, ForkError, Reap, ShellWait, Idle, monitorVars,
         Complain, ExecFails, Quit, Reads, Spawn, Ends, Plain, sys_fork
<1> QED BY <1>3, <1>4, <1>5

LEMMA Step ==
  ASSUME Inv, [MonitorNext]_monitorVars
  PROVE  Inv'
<1>1. ArgsInv'
  BY ArgsStep, AskedStays DEF Inv
<1>2. CASE MonitorNext
  BY <1>1, <1>2, TraceStep, PlaceStep, WordsStep DEF Inv
<1>3. CASE UNCHANGED monitorVars
  <2>1. GoesOn("sh", at["sh"])
    BY <1>3 DEF Inv, PlaceInv, StageInv, Staged, monitorVars, GoesOn, Callers, Places, Started
  <2>2. UNCHANGED <<inputs, proc, monitored, made, shown>>
    BY <1>3 DEF monitorVars
  <2>3. TraceInv'
    BY <2>1, <2>2, QuietKeeps DEF Inv
  <2>4. variant' = variant /\ argv' = argv
    BY <1>3 DEF monitorVars, inputs
  <2>5. Separators' = Separators /\ \A p \in Callers : Command(p)' = Command(p)
    BY <2>4 DEF Separators, argc, Command, nargv, cmd1, cmd2
  <2>6. PlaceInv' /\ WordsInv'
    BY <1>3, <2>4, <2>5 DEF Inv, PlaceInv, StageInv, Split, WordsInv, monitorVars
  <2> QED BY <1>1, <2>3, <2>6 DEF Inv
<1> QED BY <1>2, <1>3

\* The inductive invariant of the monitors: of each process, from which calls on it is
\* traced, that what it has printed is what was asked for, and how much of the limit is
\* left to it; where the parent is while its commands run, and what they were called with.
THEOREM Invariance == MonitorSpec => []Inv
<1>1. MonitorInit => Inv
  BY InitInv
<1>2. Inv /\ [MonitorNext]_monitorVars => Inv'
  BY Step
<1> QED BY <1>1, <1>2, PTL DEF MonitorSpec

\* Exactly the calls that were asked for are printed, of the program, its children and the
\* shell, with each way of writing a mask and on each of the three kernels, up to its limit.
THEOREM TracesAsAsked == MonitorSpec => []ShownAsAsked
<1>1. ASSUME Inv
      PROVE  ShownAsAsked
  <2>1. MonitorTypeOK
    BY <1>1 DEF Inv, ArgsInv, PlaceInv, TraceInv, Sound, Record, Places, MonitorTypeOK
  <2>2. ASSUME NEW p \in Callers
        PROVE  LET asked == {line \in made[p] : SYS[line.call] \in AskedOf(p, line)}
               IN  CASE kernel = "monitor8.c" -> shown[p] = {line \in asked : line.ok}
                     [] kernel = "monitor9.c" -> shown[p] = asked
                     [] OTHER -> shown[p] \subseteq asked /\ (proc[p].monitor_left # 0 => shown[p] = asked)
    <3> DEFINE asked == {line \in made[p] : SYS[line.call] \in AskedOf(p, line)}
    <3>1. Agrees(p, kernel, proc[p].monitor_left, made[p], shown[p], AskedBits, shmask)
      BY <1>1 DEF Inv, TraceInv, Sound
    <3>2. \A line : AskedIn(p, line, AskedBits, shmask) <=> SYS[line.call] \in AskedOf(p, line)
      BY DEF AskedIn, AskedOf
    <3>3. \A line : /\ line \in shown[p] => line \in asked /\ (kernel = "monitor8.c" => line.ok)
                    /\ /\ line \in asked
                       /\ kernel = "monitor8.c" => line.ok
                       /\ kernel = "monitor10.c" => proc[p].monitor_left # 0
                       => line \in shown[p]
      BY <3>1, <3>2 DEF Agrees
    <3> HIDE DEF asked
    <3>4. CASE kernel = "monitor8.c"
      <4>1. shown[p] = {line \in asked : line.ok}
        BY <3>3, <3>4
      <4> QED BY <3>4, <4>1 DEF asked
    <3>5. CASE kernel = "monitor9.c"
      <4>1. shown[p] = asked
        BY <3>3, <3>5
      <4> QED BY <3>5, <4>1 DEF asked
    <3>6. CASE kernel = "monitor10.c"
      <4>1. shown[p] \subseteq asked /\ (proc[p].monitor_left # 0 => shown[p] = asked)
        BY <3>3, <3>6
      <4> QED BY <3>6, <4>1 DEF asked
    <3> QED BY <3>4, <3>5, <3>6, <1>1 DEF Inv, ArgsInv
  <2> QED BY <2>1, <2>2 DEF ShownAsAsked
<1> QED BY <1>1, Invariance, PTL

\* No process prints more lines than the limit, those of its ancestors before its birth
\* among them: fork copies what is left, and exec does not begin anew.
THEOREM LimitKept == MonitorSpec => []LimitAlongForks
<1>1. ASSUME Inv
      PROVE  LimitAlongForks
  <2> SUFFICES ASSUME kernel = "monitor10.c", Limit >= 0, NEW p \in Callers
               PROVE  proc[p].lines <= Limit
    BY DEF LimitAlongForks
  <2>1. proc[p] \in Record /\ InBudget(kernel, proc[p]) /\ Limit \in Nat \cup {-1}
    BY <1>1, MonitorAssumption DEF Inv, TraceInv, Sound, MonitorAssumption
  <2>2. proc[p].lines \in Nat /\ proc[p].monitor_left \in {-1, 0} \cup 0 .. Limit
    BY <2>1 DEF Record
  <2> QED BY <2>1, <2>2 DEF InBudget
<1> QED BY <1>1, Invariance, PTL

(***************************************************************************)
(* The words of the commands, as parts of the command line.                *)
(***************************************************************************)
\* A full line does not come to the end of nargv, so nothing is cut off.
LEMMA WholeLine ==
  ASSUME ArgsInv
  PROVE  nargv = SubSeq(argv, 3, argc)
<1>1. argc \in Nat /\ MAXARG \in Nat /\ argc <= MAXARG
  BY MonitorAssumption DEF ArgsInv, MonitorAssumption, MAXARG
<1> QED BY <1>1, LeastOfTwo DEF nargv

\* The commands of monitor7.c are what stands before and after the first separator.
LEMMA AtSeparator ==
  ASSUME ArgsInv, Separators # {}
  PROVE  \E m \in 3 .. argc : /\ argv[m] = "--" /\ \A i \in 3 .. m - 1 : argv[i] # "--"
                             /\ cmd1 = SubSeq(argv, 3, m - 1) /\ cmd2 = SubSeq(argv, m + 1, argc)
<1>1. argc \in Nat /\ MAXARG \in Nat /\ argc <= MAXARG
  BY MonitorAssumption DEF ArgsInv, MonitorAssumption, MAXARG
<1>2. PICK m : m = Min(Separators)
  OBVIOUS
<1>3. m \in Separators /\ \A i \in Separators : m <= i
  <2>1. Separators \subseteq Nat
    BY <1>1 DEF Separators
  <2> QED BY <1>2, <2>1, Least
<1>4. m \in 3 .. argc /\ argv[m] = "--" /\ \A i \in 3 .. m - 1 : argv[i] # "--"
  <2>1. m \in 3 .. argc /\ argv[m] = "--"
    BY <1>3 DEF Separators
  <2>2. ASSUME NEW i \in 3 .. m - 1, argv[i] = "--"
        PROVE  FALSE
    <3>1. i \in Separators /\ i < m
      BY <1>1, <2>1, <2>2 DEF Separators
    <3> QED BY <1>3, <2>1, <3>1
  <2> QED BY <2>1, <2>2
<1>5. Min({m - 1, MAXARG + 1}) = m - 1
  BY <1>1, <1>4, LeastOfTwo
<1>6. Min({argc, m + MAXARG - 1}) = argc
  <2>1. m + MAXARG - 1 \in Nat /\ argc <= m + MAXARG - 1
    BY <1>1, <1>4
  <2> QED BY <1>1, <2>1, LeastOfTwo
<1>7. cmd1 = SubSeq(argv, 3, m - 1)
  BY <1>2, <1>5 DEF cmd1
<1>8. cmd2 = SubSeq(argv, m + 1, argc)
  BY <1>2, <1>6 DEF cmd2
<1> QED BY <1>4, <1>7, <1>8

\* A part of a sequence.
LEMMA Part ==
  ASSUME NEW S, NEW s \in Seq(S), NEW a \in 1 .. Len(s) + 1, NEW b \in a - 1 .. Len(s)
  PROVE  /\ SubSeq(s, a, b) \in Seq(S) /\ Len(SubSeq(s, a, b)) = b - a + 1
         /\ \A i \in 1 .. b - a + 1 : SubSeq(s, a, b)[i] = s[a + i - 1]
<1>1. \A i \in 1 .. Len(s) : s[i] \in S
  BY LenProperties
<1>2. a \in Int /\ b \in Int /\ \A i \in a .. b : s[i] \in S
  BY <1>1
<1> QED BY <1>2, SubSeqProperties

\* What monitor7.c gives to its first and to its second command.
LEMMA SplitWords ==
  ASSUME ArgsInv, Separators # {}, NEW typed, typed = SubSeq(argv, 3, argc)
  PROVE  /\ "--" \notin ToSet(cmd1) /\ IsPrefix(Append(cmd1, "--"), typed)
         /\ \E n \in DOMAIN typed : /\ typed = SubSeq(typed, 1, n) \o cmd2 /\ typed[n] = "--"
                                  /\ "--" \notin ToSet(SubSeq(typed, 1, n - 1))
<1>1. PICK m \in 3 .. argc : /\ argv[m] = "--" /\ \A i \in 3 .. m - 1 : argv[i] # "--"
                            /\ cmd1 = SubSeq(argv, 3, m - 1) /\ cmd2 = SubSeq(argv, m + 1, argc)
  BY AtSeparator
<1>2. argc \in Nat /\ "--" \in Arg /\ argv \in Seq(Arg) /\ Len(argv) = argc
  BY MonitorAssumption DEF ArgsInv, MonitorAssumption, MAXARG, Arg, argc
<1> DEFINE n == m - 2
<1>3. n \in Nat /\ n >= 1 /\ m = n + 2 /\ n <= argc - 2
  BY <1>1, <1>2
<1>4. /\ typed \in Seq(Arg) /\ Len(typed) = argc - 2 /\ DOMAIN typed = 1 .. argc - 2
      /\ \A i \in 1 .. argc - 2 : typed[i] = argv[i + 2]
  <2>1. 3 \in 1 .. argc + 1 /\ argc \in 3 - 1 .. argc /\ argc - 3 + 1 = argc - 2
    BY <1>2, <1>3
  <2>2. typed \in Seq(Arg) /\ Len(typed) = argc - 2 /\ \A i \in 1 .. argc - 2 : typed[i] = argv[3 + i - 1]
    BY <1>2, <2>1, Part
  <2>3. \A i \in 1 .. argc - 2 : 3 + i - 1 = i + 2
    BY <1>2
  <2> QED BY <2>2, <2>3, LenProperties
<1>5. /\ cmd1 \in Seq(Arg) /\ Len(cmd1) = n - 1 /\ DOMAIN cmd1 = 1 .. n - 1
      /\ \A i \in 1 .. n - 1 : cmd1[i] = argv[i + 2]
  <2>1. 3 \in 1 .. argc + 1 /\ m - 1 \in 3 - 1 .. argc /\ (m - 1) - 3 + 1 = n - 1
    BY <1>2, <1>3
  <2>2. cmd1 \in Seq(Arg) /\ Len(cmd1) = n - 1 /\ \A i \in 1 .. n - 1 : cmd1[i] = argv[3 + i - 1]
    BY <1>1, <1>2, <2>1, Part
  <2>3. \A i \in 1 .. n - 1 : 3 + i - 1 = i + 2
    BY <1>3
  <2> QED BY <2>2, <2>3, LenProperties
<1>6. /\ cmd2 \in Seq(Arg) /\ Len(cmd2) = argc - 2 - n /\ \A i \in 1 .. argc - 2 - n : cmd2[i] = argv[(n + i) + 2]
  <2>1. m + 1 \in 1 .. argc + 1 /\ argc \in (m + 1) - 1 .. argc /\ argc - (m + 1) + 1 = argc - 2 - n
    BY <1>2, <1>3
  <2>2. cmd2 \in Seq(Arg) /\ Len(cmd2) = argc - 2 - n /\ \A i \in 1 .. argc - 2 - n : cmd2[i] = argv[(m + 1) + i - 1]
    BY <1>1, <1>2, <2>1, Part
  <2>3. \A i \in 1 .. argc - 2 - n : (m + 1) + i - 1 = (n + i) + 2
    BY <1>2, <1>3
  <2> QED BY <2>2, <2>3
<1>7. typed[n] = "--" /\ \A i \in 1 .. n - 1 : typed[i] # "--"
  <2>1. n \in 1 .. argc - 2 /\ typed[n] = argv[n + 2]
    BY <1>2, <1>3, <1>4
  <2>2. ASSUME NEW i \in 1 .. n - 1
        PROVE  typed[i] # "--"
    <3>1. i + 2 \in 3 .. m - 1 /\ i \in 1 .. argc - 2
      BY <1>2, <1>3
    <3> QED BY <1>1, <1>4, <3>1
  <2> QED BY <1>1, <1>3, <2>1, <2>2
<1>8. \A k \in 0 .. argc - 2 : /\ SubSeq(typed, 1, k) \in Seq(Arg) /\ Len(SubSeq(typed, 1, k)) = k
                             /\ \A i \in 1 .. k : SubSeq(typed, 1, k)[i] = typed[i]
  <2> TAKE k \in 0 .. argc - 2
  <2>1. 1 \in 1 .. Len(typed) + 1 /\ k \in 1 - 1 .. Len(typed)
    BY <1>2, <1>4
  <2>2. /\ SubSeq(typed, 1, k) \in Seq(Arg) /\ Len(SubSeq(typed, 1, k)) = k - 1 + 1
        /\ \A i \in 1 .. k - 1 + 1 : SubSeq(typed, 1, k)[i] = typed[1 + i - 1]
    BY <1>4, <2>1, Part
  <2>3. k - 1 + 1 = k /\ \A i \in 1 .. k : 1 + i - 1 = i
    BY <1>2
  <2> QED BY <2>2, <2>3
<1> HIDE DEF n
<1>9. "--" \notin ToSet(cmd1)
  <2>1. \A i \in 1 .. n - 1 : i \in 1 .. argc - 2
    BY <1>2, <1>3
  <2> QED BY <1>4, <1>5, <1>7, <2>1 DEF ToSet
<1>10. IsPrefix(Append(cmd1, "--"), typed)
  <2> DEFINE s == Append(cmd1, "--")
  <2>1. s \in Seq(Arg) /\ Len(s) = n /\ \A i \in 1 .. n : s[i] = typed[i]
    <3>1. s \in Seq(Arg) /\ Len(s) = (n - 1) + 1 /\ s[(n - 1) + 1] = "--" /\ \A i \in 1 .. n - 1 : s[i] = cmd1[i]
      BY <1>2, <1>3, <1>5, AppendProperties
    <3>2. (n - 1) + 1 = n /\ \A i \in 1 .. n : i = n \/ i \in 1 .. n - 1
      BY <1>3
    <3>3. \A i \in 1 .. n - 1 : i \in 1 .. argc - 2
      BY <1>2, <1>3
    <3> HIDE DEF s
    <3> QED BY <3>1, <3>2, <3>3, <1>4, <1>5, <1>7
  <2>2. SubSeq(s, 1, Len(s)) = s
    <3> HIDE DEF s
    <3> QED BY <2>1, SubSeqFull
  <2>3. n \in 0 .. argc - 2 /\ \A i \in 1 .. n : i \in 1 .. argc - 2
    BY <1>2, <1>3
  <2>4. SubSeq(typed, 1, n) = s
    <3> DEFINE f == SubSeq(typed, 1, n)
    <3>1. f \in Seq(Arg) /\ Len(f) = n /\ \A i \in 1 .. n : f[i] = typed[i]
      BY <1>8, <2>3
    <3> HIDE DEF s, f
    <3>2. f = s
      BY <2>1, <3>1, SeqEqual
    <3> QED BY <3>2 DEF f
  <2> HIDE DEF s
  <2> QED BY <1>2, <1>3, <1>4, <2>1, <2>2, <2>4 DEF IsPrefix, s
<1>11. typed = SubSeq(typed, 1, n) \o cmd2
  <2> DEFINE f == SubSeq(typed, 1, n)
             t == f \o cmd2
  <2>1. n \in 0 .. argc - 2
    BY <1>2, <1>3
  <2>2. f \in Seq(Arg) /\ Len(f) = n /\ \A i \in 1 .. n : f[i] = typed[i]
    BY <1>8, <2>1
  <2> HIDE DEF f
  <2>3. /\ t \in Seq(Arg) /\ Len(t) = Len(f) + Len(cmd2)
        /\ \A i \in 1 .. Len(f) + Len(cmd2) : t[i] = IF i <= Len(f) THEN f[i] ELSE cmd2[i - Len(f)]
    BY <1>6, <2>2, ConcatProperties
  <2>4. Len(f) + Len(cmd2) = argc - 2
    BY <1>2, <1>3, <1>6, <2>2
  <2> HIDE DEF t
  <2>5. ASSUME NEW i \in 1 .. argc - 2
        PROVE  typed[i] = t[i]
    <3>1. CASE i <= n
      <4>1. i \in 1 .. n
        BY <1>2, <1>3, <3>1
      <4> QED BY <2>2, <2>3, <2>4, <3>1, <4>1
    <3>2. CASE ~(i <= n)
      <4>1. i - n \in 1 .. argc - 2 - n /\ (n + (i - n)) + 2 = i + 2
        BY <1>2, <1>3, <3>2
      <4>2. cmd2[i - n] = argv[i + 2]
        BY <1>6, <4>1
      <4> QED BY <1>4, <2>2, <2>3, <2>4, <3>2, <4>2
    <3> QED BY <3>1, <3>2
  <2>6. typed = t
    BY <1>4, <2>3, <2>4, <2>5, SeqEqual
  <2> QED BY <2>6 DEF t, f
<1>12. "--" \notin ToSet(SubSeq(typed, 1, n - 1))
  <2> DEFINE f == SubSeq(typed, 1, n - 1)
  <2>1. n - 1 \in 0 .. argc - 2
    BY <1>2, <1>3
  <2>2. f \in Seq(Arg) /\ Len(f) = n - 1 /\ \A i \in 1 .. n - 1 : f[i] = typed[i]
    BY <1>8, <2>1
  <2> HIDE DEF f
  <2>3. DOMAIN f = 1 .. n - 1
    BY <2>2, LenProperties
  <2>4. "--" \notin ToSet(f)
    BY <1>7, <2>2, <2>3 DEF ToSet
  <2> QED BY <2>4 DEF f
<1>13. n \in DOMAIN typed
  BY <1>2, <1>3, <1>4
<1> QED BY <1>7, <1>9, <1>10, <1>11, <1>12, <1>13

\* Each command gets the words that were typed for it, in order; the program runs them one
\* after the other, and ends after both.
THEOREM CommandsGetTheirWords == MonitorSpec => []CommandsRight
<1>1. ASSUME Inv
      PROVE  CommandsRight
  <2> DEFINE typed == SubSeq(argv, 3, argc)
  <2>1. variant # 7 => \A p \in Callers : ran[p] \in {<<>>, typed}
    <3>1. ASSUME variant # 7, NEW p
          PROVE  Command(p) = nargv
      BY <3>1 DEF Command
    <3>2. nargv = typed
      BY <1>1, WholeLine DEF Inv
    <3> HIDE DEF typed
    <3> QED BY <1>1, <3>1, <3>2 DEF Inv, WordsInv
  <2>2. ASSUME variant = 7
        PROVE  /\ ran["cmd1"] = <<>> \/ (ran["cmd1"] = cmd1 /\ Separators # {})
               /\ ran["cmd2"] = <<>> \/ (ran["cmd2"] = cmd2 /\ Separators # {})
    <3>1. Command("cmd1") = cmd1 /\ Command("cmd2") = cmd2
      BY <2>2 DEF Command
    <3> QED BY <1>1, <2>2, <3>1 DEF Inv, WordsInv, Callers
  <2>3. ToSet(<<>>) = {}
    BY DEF ToSet
  <2>4. Separators # {} =>
          /\ "--" \notin ToSet(cmd1) /\ IsPrefix(Append(cmd1, "--"), typed)
          /\ \E n \in DOMAIN typed : /\ typed = SubSeq(typed, 1, n) \o cmd2 /\ typed[n] = "--"
                                   /\ "--" \notin ToSet(SubSeq(typed, 1, n - 1))
    BY <1>1, SplitWords DEF Inv
  <2>5. variant = 7 =>
          /\ "--" \notin ToSet(ran["cmd1"])
          /\ ran["cmd1"] # <<>> => IsPrefix(Append(ran["cmd1"], "--"), typed)
          /\ ran["cmd2"] # <<>> => \E n \in DOMAIN typed :
                /\ typed = SubSeq(typed, 1, n) \o ran["cmd2"] /\ typed[n] = "--"
                /\ "--" \notin ToSet(SubSeq(typed, 1, n - 1))
    <3> HIDE DEF typed
    <3> QED BY <2>2, <2>3, <2>4
  <2>6. /\ at["cmd2"] # "unborn" => at["cmd1"] \in {"unborn", "ended"}
        /\ at["monitor"] = "ended" => at["cmd1"] \in {"unborn", "ended"} /\ at["cmd2"] \in {"unborn", "ended"}
    <3>1. at["monitor"] \in Places /\ Staged(at["monitor"], at["cmd1"], at["cmd2"], at["sh"])
      BY <1>1 DEF Inv, PlaceInv, StageInv, Callers
    <3> QED BY <3>1 DEF Places, Staged, Over
  <2> QED BY <2>1, <2>5, <2>6 DEF CommandsRight
<1> QED BY <1>1, Invariance, PTL
=============================================================================
