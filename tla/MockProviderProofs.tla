--------------------------- MODULE MockProviderProofs ---------------------------
(***************************************************************************)
(* Theorems about MockProvider, for every set of callers, every list of    *)
(* plans and every bound: what was sent for a run, and the requests of it, *)
(* are those of its plan, however the calls interleave.                    *)
(*                                                                         *)
(* First induction, and the selection from a list that grows at its end or *)
(* loses its head.  Then the types, the places of the channel, and what a  *)
(* call, a run and its faults may be between two steps.                    *)
(***************************************************************************)
EXTENDS MockProvider, FiniteSetTheorems, SequenceTheorems, TLAPS

-----------------------------------------------------------------------------
(* Induction over the numbers, stated for sets instead of predicates.      *)

(* A set of numbers that is not empty has a least one.                     *)
LEMMA LeastNumber ==
    ASSUME NEW T \in SUBSET Nat, T # {}
    PROVE  \E x \in T : \A y \in T : x <= y
  <1>1. \E x \in T : \A y \in T : ~ (<<y, x>> \in OpToRel(<, Nat))
    BY NatLessThanWellFounded, WFMin, Zenon
  <1>2. ASSUME NEW x \in T, NEW y \in T, ~ (<<y, x>> \in OpToRel(<, Nat))
        PROVE  x <= y
    BY <1>2 DEF OpToRel
  <1> QED BY <1>1, <1>2

(* A set of numbers with zero, and with every successor, has them all.     *)
LEMMA EveryNumber ==
    ASSUME NEW T \in SUBSET Nat, 0 \in T, \A n \in T : n + 1 \in T
    PROVE  T = Nat
  <1>1. SUFFICES ASSUME Nat \ T # {} PROVE FALSE
    OBVIOUS
  <1>2. PICK x \in Nat \ T : \A y \in Nat \ T : x <= y
    <2>1. Nat \ T \in SUBSET Nat
      OBVIOUS
    <2> QED BY <1>1, <2>1, LeastNumber
  <1>3. x # 0 /\ x - 1 \in Nat /\ x - 1 \notin Nat \ T
    BY <1>2
  <1> QED BY <1>2, <1>3

-----------------------------------------------------------------------------
(* The recursive function in Among.                                        *)

(* One value of the function, from those before.                           *)
AmongStep(seq, keep, upTo, n) ==
    IF n = 0 THEN <<>>
    ELSE IF seq[n] \in keep THEN Append(upTo[n - 1], seq[n])
    ELSE upTo[n - 1]

(* The recursion has a solution up to every number.                        *)
LEMMA AmongSolved ==
    ASSUME NEW seq, NEW keep
    PROVE  \A m \in Nat : \E f : f = [n \in 0..m |-> AmongStep(seq, keep, f, n)]
  <1> DEFINE T == {m \in Nat : \E f : f = [n \in 0..m |-> AmongStep(seq, keep, f, n)]}
  <1>1. 0 \in T
    <2> DEFINE f == [n \in 0..0 |-> <<>>]
    <2>1. f = [n \in 0..0 |-> AmongStep(seq, keep, f, n)]
      BY DEF AmongStep
    <2> QED BY <2>1
  <1>2. ASSUME NEW m \in T PROVE m + 1 \in T
    <2>1. PICK f : f = [n \in 0..m |-> AmongStep(seq, keep, f, n)]
      OBVIOUS
    <2> DEFINE g == [n \in 0..(m + 1) |->
                        IF n = m + 1 THEN AmongStep(seq, keep, f, m + 1) ELSE f[n]]
    <2>2. ASSUME NEW n \in 0..(m + 1) PROVE g[n] = AmongStep(seq, keep, g, n)
      <3>1. CASE n = m + 1
        BY <3>1 DEF AmongStep
      <3>2. CASE n # m + 1
        <4>1. f[n] = AmongStep(seq, keep, f, n)
          BY <2>1, <3>2
        <4> QED BY <4>1, <3>2 DEF AmongStep
      <3> QED BY <3>1, <3>2
    <2>3. g = [n \in 0..(m + 1) |-> AmongStep(seq, keep, g, n)]
      BY <2>2, Zenon
    <2> HIDE DEF g
    <2>4. \E h : h = [n \in 0..(m + 1) |-> AmongStep(seq, keep, h, n)]
      BY <2>3
    <2>5. m + 1 \in Nat
      OBVIOUS
    <2> QED BY <2>4, <2>5
  <1>3. T = Nat
    <2>1. T \in SUBSET Nat
      OBVIOUS
    <2> HIDE DEF T
    <2> QED BY <1>1, <1>2, <2>1, EveryNumber
  <1> QED BY <1>3

(* What is selected is the last value of a solution.                       *)
LEMMA AmongDefined ==
    ASSUME NEW seq, Len(seq) \in Nat, NEW keep
    PROVE  \E f : /\ f = [n \in 0..Len(seq) |-> AmongStep(seq, keep, f, n)]
                  /\ Among(seq, keep) = f[Len(seq)]
  <1> DEFINE f == CHOOSE f : f = [n \in 0..Len(seq) |-> AmongStep(seq, keep, f, n)]
  <1>1. f = [n \in 0..Len(seq) |-> AmongStep(seq, keep, f, n)]
    BY AmongSolved
  <1>2. Among(seq, keep) = f[Len(seq)]
    BY DEF Among, AmongStep
  <1> HIDE DEF f
  <1> QED BY <1>1, <1>2
-----------------------------------------------------------------------------
(* What Among selects from a list that grows, and from one without a head. *)

(* A selection from a list is a list of the same things.                   *)
LEMMA AmongType ==
    ASSUME NEW S, NEW seq \in Seq(S), NEW keep
    PROVE  Among(seq, keep) \in Seq(S)
  <1>1. PICK f : /\ f = [n \in 0..Len(seq) |-> AmongStep(seq, keep, f, n)]
                 /\ Among(seq, keep) = f[Len(seq)]
    <2>1. Len(seq) \in Nat
      OBVIOUS
    <2> QED BY <2>1, AmongDefined
  <1>2. \A n \in 0..Len(seq) : f[n] = AmongStep(seq, keep, f, n)
    BY <1>1
  <1> DEFINE T == {n \in Nat : n <= Len(seq) => f[n] \in Seq(S)}
  <1>3. 0 \in T
    <2>1. 0 \in 0..Len(seq) /\ <<>> \in Seq(S)
      OBVIOUS
    <2>2. f[0] = <<>>
      BY <1>2, <2>1 DEF AmongStep
    <2> QED BY <2>1, <2>2
  <1>4. ASSUME NEW n \in T PROVE n + 1 \in T
    <2> SUFFICES ASSUME n + 1 <= Len(seq) PROVE f[n + 1] \in Seq(S)
      OBVIOUS
    <2>1. f[n] \in Seq(S) /\ n + 1 \in 0..Len(seq) /\ (n + 1) - 1 = n /\ n + 1 # 0
      OBVIOUS
    <2>2. f[n + 1] = IF seq[n + 1] \in keep THEN Append(f[n], seq[n + 1]) ELSE f[n]
      BY <1>2, <2>1 DEF AmongStep
    <2>3. seq[n + 1] \in S
      OBVIOUS
    <2> QED BY <2>1, <2>2, <2>3
  <1>5. T = Nat
    <2>1. T \in SUBSET Nat
      OBVIOUS
    <2> HIDE DEF T
    <2> QED BY <1>3, <1>4, <2>1, EveryNumber
  <1>6. Len(seq) \in T
    BY <1>5
  <1> QED BY <1>1, <1>6

(* Nothing is selected from nothing.                                       *)
LEMMA AmongNone == \A keep : Among(<<>>, keep) = <<>>
  <1> SUFFICES ASSUME NEW keep PROVE Among(<<>>, keep) = <<>>
    OBVIOUS
  <1>1. Len(<<>>) = 0
    OBVIOUS
  <1>2. PICK f : /\ f = [n \in 0..0 |-> AmongStep(<<>>, keep, f, n)]
                 /\ Among(<<>>, keep) = f[0]
    BY <1>1, AmongDefined
  <1> QED BY <1>2 DEF AmongStep

(* A new last entry is selected last, if at all.                           *)
LEMMA AmongAppend ==
    ASSUME NEW S, NEW seq \in Seq(S), NEW e \in S, NEW keep
    PROVE  Among(Append(seq, e), keep) =
               IF e \in keep THEN Append(Among(seq, keep), e) ELSE Among(seq, keep)
  <1> DEFINE longer == Append(seq, e)
  <1>1. /\ Len(seq) \in Nat /\ Len(longer) = Len(seq) + 1
        /\ \A n \in 1..Len(seq) : longer[n] = seq[n]
        /\ longer[Len(seq) + 1] = e
    OBVIOUS
  <1> HIDE DEF longer
  <1>2. PICK f : /\ f = [n \in 0..Len(seq) |-> AmongStep(seq, keep, f, n)]
                 /\ Among(seq, keep) = f[Len(seq)]
    BY <1>1, AmongDefined
  <1>3. PICK g : /\ g = [n \in 0..Len(longer) |-> AmongStep(longer, keep, g, n)]
                 /\ Among(longer, keep) = g[Len(longer)]
    BY <1>1, AmongDefined
  <1>4. \A n \in 0..Len(seq) : f[n] = AmongStep(seq, keep, f, n)
    BY <1>2
  <1>5. \A n \in 0..(Len(seq) + 1) : g[n] = AmongStep(longer, keep, g, n)
    BY <1>1, <1>3
  <1> DEFINE T == {n \in Nat : n <= Len(seq) => f[n] = g[n]}
  <1>6. 0 \in T
    BY <1>1, <1>4, <1>5 DEF AmongStep
  <1>7. ASSUME NEW n \in T PROVE n + 1 \in T
    <2> SUFFICES ASSUME n + 1 <= Len(seq) PROVE f[n + 1] = g[n + 1]
      OBVIOUS
    <2>1. /\ f[n] = g[n] /\ n + 1 \in 0..Len(seq) /\ n + 1 \in 0..(Len(seq) + 1)
          /\ (n + 1) - 1 = n /\ n + 1 # 0 /\ longer[n + 1] = seq[n + 1]
      BY <1>1
    <2>2. f[n + 1] = AmongStep(seq, keep, f, n + 1) /\ g[n + 1] = AmongStep(longer, keep, g, n + 1)
      BY <1>4, <1>5, <2>1
    <2> QED BY <2>1, <2>2 DEF AmongStep
  <1>8. T = Nat
    <2>1. T \in SUBSET Nat
      OBVIOUS
    <2> HIDE DEF T
    <2> QED BY <1>6, <1>7, <2>1, EveryNumber
  <1>9. f[Len(seq)] = g[Len(seq)]
    BY <1>1, <1>8
  <1>10. g[Len(seq) + 1] = IF e \in keep THEN Append(g[Len(seq)], e) ELSE g[Len(seq)]
    <2>1. (Len(seq) + 1) - 1 = Len(seq) /\ Len(seq) + 1 # 0
      BY <1>1
    <2>2. g[Len(seq) + 1] = AmongStep(longer, keep, g, Len(seq) + 1)
      BY <1>1, <1>5
    <2> QED BY <1>1, <2>1, <2>2 DEF AmongStep
  <1> QED BY <1>1, <1>2, <1>3, <1>9, <1>10 DEF longer

(* The head of a list is selected first, if at all.                        *)
LEMMA AmongTail ==
    ASSUME NEW S, NEW seq \in Seq(S), seq # <<>>, NEW keep
    PROVE  Among(seq, keep) =
               (IF Head(seq) \in keep THEN <<Head(seq)>> ELSE <<>>) \o Among(Tail(seq), keep)
  <1> DEFINE rest == Tail(seq)
             first == IF Head(seq) \in keep THEN <<Head(seq)>> ELSE <<>>
  <1>1. /\ Len(rest) \in Nat /\ Len(seq) = Len(rest) + 1 /\ rest \in Seq(S)
        /\ \A n \in 1..Len(rest) : seq[n + 1] = rest[n] /\ rest[n] \in S
        /\ seq[1] = Head(seq) /\ first \in Seq(S)
    OBVIOUS
  <1>0. first = IF seq[1] \in keep THEN <<seq[1]>> ELSE <<>>
    BY <1>1
  <1> HIDE DEF rest, first
  <1>2. PICK f : /\ f = [n \in 0..Len(rest) |-> AmongStep(rest, keep, f, n)]
                 /\ Among(rest, keep) = f[Len(rest)]
    BY <1>1, AmongDefined
  <1>3. PICK g : /\ g = [n \in 0..Len(seq) |-> AmongStep(seq, keep, g, n)]
                 /\ Among(seq, keep) = g[Len(seq)]
    <2>1. Len(seq) \in Nat
      OBVIOUS
    <2> QED BY <2>1, AmongDefined, Zenon
  <1>4. \A n \in 0..Len(rest) : f[n] = AmongStep(rest, keep, f, n)
    BY <1>2
  <1>5. \A n \in 0..(Len(rest) + 1) : g[n] = AmongStep(seq, keep, g, n)
    BY <1>1, <1>3
  <1> DEFINE T == {n \in Nat : n <= Len(rest) => f[n] \in Seq(S) /\ g[n + 1] = first \o f[n]}
  <1>6. 0 \in T
    <2>1. f[0] = <<>> /\ g[0] = <<>>
      BY <1>1, <1>4, <1>5 DEF AmongStep
    <2>2. g[1] = AmongStep(seq, keep, g, 1)
      BY <1>1, <1>5
    <2>3. g[1] = IF seq[1] \in keep THEN Append(<<>>, seq[1]) ELSE <<>>
      <3>1. 1 - 1 = 0 /\ 1 # 0
        OBVIOUS
      <3> QED BY <2>1, <2>2, <3>1 DEF AmongStep
    <2>4. g[1] = first
      BY <2>3, <1>0
    <2>5. first \o <<>> = first /\ <<>> \in Seq(S) /\ 0 + 1 = 1
      BY <1>1
    <2> QED BY <2>1, <2>4, <2>5
  <1>7. ASSUME NEW n \in T PROVE n + 1 \in T
    <2> SUFFICES ASSUME n + 1 <= Len(rest)
                 PROVE  f[n + 1] \in Seq(S) /\ g[(n + 1) + 1] = first \o f[n + 1]
      OBVIOUS
    <2>1. /\ f[n] \in Seq(S) /\ g[n + 1] = first \o f[n]
          /\ n + 1 \in 0..Len(rest) /\ (n + 1) + 1 \in 0..(Len(rest) + 1)
          /\ (n + 1) - 1 = n /\ n + 1 # 0 /\ ((n + 1) + 1) - 1 = n + 1 /\ (n + 1) + 1 # 0
          /\ seq[(n + 1) + 1] = rest[n + 1] /\ rest[n + 1] \in S
      BY <1>1
    <2>2. f[n + 1] = AmongStep(rest, keep, f, n + 1)
          /\ g[(n + 1) + 1] = AmongStep(seq, keep, g, (n + 1) + 1)
      BY <1>4, <1>5, <2>1
    <2>3. f[n + 1] = IF rest[n + 1] \in keep THEN Append(f[n], rest[n + 1]) ELSE f[n]
      BY <2>1, <2>2 DEF AmongStep
    <2>4. g[(n + 1) + 1] = IF rest[n + 1] \in keep THEN Append(first \o f[n], rest[n + 1])
                                                  ELSE first \o f[n]
      BY <2>1, <2>2 DEF AmongStep
    <2>5. Append(f[n], rest[n + 1]) \in Seq(S)
      BY <2>1
    <2>6. Append(first \o f[n], rest[n + 1]) = first \o Append(f[n], rest[n + 1])
      <3> DEFINE e == rest[n + 1]
                 before == f[n]
      <3>1. e \in S /\ before \in Seq(S) /\ first \in Seq(S)
        BY <1>1, <2>1
      <3> HIDE DEF e, before, T
      <3>2. /\ first \o before \in Seq(S) /\ <<e>> \in Seq(S)
            /\ Append(first \o before, e) = (first \o before) \o <<e>>
            /\ Append(before, e) = before \o <<e>>
        BY <3>1, AppendIsConcat, ConcatProperties
      <3>3. (first \o before) \o <<e>> = first \o (before \o <<e>>)
        <4> DEFINE one == <<e>>
        <4>1. one \in Seq(S)
          BY <3>2
        <4> HIDE DEF one
        <4>2. (first \o before) \o one = first \o (before \o one)
          BY <3>1, <4>1, ConcatAssociative, SMTT(30)
        <4> QED BY <4>2 DEF one
      <3>4. Append(first \o before, e) = first \o Append(before, e)
        BY <3>2, <3>3
      <3> QED BY <3>4 DEF e, before
    <2>7. CASE rest[n + 1] \in keep
      BY <2>3, <2>4, <2>5, <2>6, <2>7
    <2>8. CASE rest[n + 1] \notin keep
      BY <2>1, <2>3, <2>4, <2>8
    <2> QED BY <2>7, <2>8
  <1>8. T = Nat
    <2>1. T \in SUBSET Nat
      OBVIOUS
    <2> HIDE DEF T
    <2> QED BY <1>6, <1>7, <2>1, EveryNumber
  <1>9. g[Len(rest) + 1] = first \o f[Len(rest)]
    BY <1>1, <1>8
  <1> QED BY <1>1, <1>2, <1>3, <1>9 DEF first, rest

-----------------------------------------------------------------------------
(* What the story of a run may be: the events that were sent for it, and   *)
(* its record.                                                             *)

Event == Step \cup Notes

Emit == [event |-> Note("fault"), commit |-> "standalone"]

(* What is left of the script is its end.                                  *)
RestInv(run) ==
    /\ Len(run.steps) <= Len(run.plan.steps)
    /\ \A i \in 1..Len(run.steps) :
           run.steps[i] = run.plan.steps[Len(run.plan.steps) - Len(run.steps) + i]

(* The fault of the plan: whether it is to come, is about to come, or has  *)
(* come, is told from what was sent last.                                  *)
FaultInv(said, run) ==
    /\ said # <<>>
    /\ run.pending \in {None, Crash, Emit}
    /\ run.pending # None => run.active
    /\ run.fault \in {run.plan.fault, None}
    /\ run.delayed => run.plan.fault = "delay"
    /\ run.plan.fault = "emit" /\ Len(said) = 1 <=> run.pending = Emit
    /\ run.plan.fault = "exit_mutation" /\ run.active =>
           /\ run.pending = None => run.fault = "exit_mutation"
           /\ Last(said).kind = "mutation" => run.pending = Crash

Story(said, run) ==
    /\ said \in Seq(Event) /\ run \in Run
    /\ InOrder(said, run) /\ RestInv(run) /\ FaultInv(said, run)

(* No two of these are the same.                                           *)
LEMMA Apart ==
    /\ None # Crash /\ None # Emit /\ Crash # Emit /\ Crash \in Delivery /\ Emit \in Delivery
    /\ \A kind : Note(kind).kind = kind
    /\ \A step \in Step : step.kind \in StepKinds
    /\ \A note \in Notes : note.kind \in {"accepted", "fault", "steer", "crashed", "interrupted"}
                           /\ note \notin Step
    /\ Spoken \subseteq Step
    /\ Step \subseteq Event /\ Notes \subseteq Event
    /\ \A kind \in {"accepted", "fault", "steer", "crashed", "interrupted"} : Note(kind) \in Notes
  <1>1. \A kind : Note(kind).kind = kind
    BY DEF Note
  <1>2. \A step \in Step : step.kind \in StepKinds
    BY DEF Step
  <1>3. \A kind \in {"accepted", "fault", "steer", "crashed", "interrupted"} : Note(kind) \in Notes
    BY DEF Notes
  <1>4. \A note \in Notes : note.kind \in {"accepted", "fault", "steer", "crashed", "interrupted"}
    BY <1>1 DEF Notes
  <1>5. \A note \in Notes : note \notin Step
    BY <1>2, <1>4 DEF StepKinds
  <1>6. Crash \in Delivery /\ Emit \in Delivery
    BY <1>3 DEF Crash, Emit, Delivery
  <1>7. None # Crash /\ None # Emit
    BY <1>6, MockAssumption
  <1>8. Crash # Emit
    BY DEF Crash, Emit
  <1> QED BY <1>1, <1>2, <1>3, <1>4, <1>5, <1>6, <1>7, <1>8 DEF Spoken, Event

(* The list of what was sent, when something more is sent of a run that is *)
(* active.                                                                 *)
Follows(said, run, e) ==
    /\ e # Note("accepted")
    /\ e = Note("fault") <=> Len(said) = 1 /\ run.plan.fault = "emit"
    /\ Last(said).kind = "mutation" /\ run.plan.fault = "exit_mutation" => e = Note("crashed")

(* With such an event the list is in order at every place.                 *)
LEMMA SaidMore ==
    ASSUME NEW said, NEW run, Story(said, run), run.active,
           NEW e \in Event, Follows(said, run, e)
    PROVE  LET more == Append(said, e) IN
           /\ more \in Seq(Event) /\ more # <<>> /\ Len(more) = Len(said) + 1 /\ Len(more) # 1
           /\ Last(more) = e
           /\ \A i \in DOMAIN more :
                 /\ more[i] = Note("accepted") <=> i = 1
                 /\ more[i] = Note("fault") <=> i = 2 /\ run.plan.fault = "emit"
                 /\ Ending(more[i]) => i = Len(more)
                 /\ more[i].kind = "mutation" /\ run.plan.fault = "exit_mutation" /\ i < Len(more)
                        => more[i + 1] = Note("crashed")
  <1> DEFINE more == Append(said, e)
  <1>1. /\ said \in Seq(Event) /\ Len(said) \in Nat \ {0} /\ DOMAIN said = 1..Len(said)
        /\ Last(said) = said[Len(said)]
    BY DEF Story, FaultInv, Last
  <1>2. /\ more \in Seq(Event) /\ more # <<>> /\ Len(more) = Len(said) + 1 /\ DOMAIN more = 1..Len(more)
        /\ more[Len(more)] = e /\ \A i \in 1..Len(said) : more[i] = said[i]
    BY <1>1
  <1> HIDE DEF more
  <1>3. /\ \A i \in 1..Len(said) :
           /\ said[i] = Note("accepted") <=> i = 1
           /\ said[i] = Note("fault") <=> i = 2 /\ run.plan.fault = "emit"
           /\ Ending(said[i]) => i = Len(said)
           /\ said[i].kind = "mutation" /\ run.plan.fault = "exit_mutation" /\ i < Len(said)
                  => said[i + 1] = Note("crashed")
        /\ ~Ending(said[Len(said)])
    BY <1>1 DEF Story, InOrder
  <1>4. ASSUME NEW i \in DOMAIN more
        PROVE  /\ more[i] = Note("accepted") <=> i = 1
               /\ more[i] = Note("fault") <=> i = 2 /\ run.plan.fault = "emit"
               /\ Ending(more[i]) => i = Len(more)
               /\ more[i].kind = "mutation" /\ run.plan.fault = "exit_mutation" /\ i < Len(more)
                      => more[i + 1] = Note("crashed")
    <2>1. CASE i = Len(more)
      <3>1. i = 2 <=> Len(said) = 1
        BY <1>1, <1>2, <2>1
      <3>2. i # 1 /\ ~(i < Len(more)) /\ more[i] = e
        BY <1>1, <1>2, <2>1
      <3> QED BY <2>1, <3>1, <3>2 DEF Follows
    <2>2. CASE i = Len(said)
      <3>1. /\ more[i] = said[i] /\ i \in 1..Len(said) /\ more[i + 1] = e /\ ~Ending(said[i])
            /\ said[i] = Last(said)
        BY <1>1, <1>2, <1>3, <2>2
      <3> QED BY <1>3, <3>1 DEF Follows
    <2>3. CASE i # Len(said) /\ i # Len(more)
      <3>1. /\ more[i] = said[i] /\ i \in 1..Len(said) /\ i < Len(said) /\ i + 1 \in 1..Len(said)
            /\ more[i + 1] = said[i + 1]
        BY <1>1, <1>2, <2>3
      <3>2. ~Ending(said[i])
        BY <1>3, <3>1
      <3> QED BY <1>3, <3>1, <3>2
    <2> QED BY <2>1, <2>2, <2>3
  <1>5. Last(more) = e /\ Len(more) # 1
    BY <1>1, <1>2 DEF Last
  <1> QED BY <1>2, <1>4, <1>5 DEF more

(* What an event that is sent makes of a story, if what is said of the     *)
(* record after it fits.                                                   *)
LEMMA Told ==
    ASSUME NEW said, NEW run, Story(said, run), run.active,
           NEW e \in Event, Follows(said, run, e),
           NEW next \in Run, next.plan = run.plan, RestInv(next),
           Among(Append(said, e), Step) \o Among(next.steps, Spoken)
               = Among(run.plan.steps, Spoken),
           next.active <=> ~Ending(e),
           next.pending \in {None, Crash}, next.pending # None => next.active,
           next.fault \in {run.plan.fault, None},
           next.delayed => run.plan.fault = "delay",
           run.plan.fault = "exit_mutation" /\ next.active =>
               /\ next.pending = None => next.fault = "exit_mutation"
               /\ e.kind = "mutation" => next.pending = Crash
    PROVE  Story(Append(said, e), next)
  <1> DEFINE more == Append(said, e)
  <1>1. /\ more \in Seq(Event) /\ more # <<>> /\ Len(more) # 1 /\ Last(more) = e
        /\ \A i \in DOMAIN more :
              /\ more[i] = Note("accepted") <=> i = 1
              /\ more[i] = Note("fault") <=> i = 2 /\ run.plan.fault = "emit"
              /\ Ending(more[i]) => i = Len(more)
              /\ more[i].kind = "mutation" /\ run.plan.fault = "exit_mutation" /\ i < Len(more)
                     => more[i + 1] = Note("crashed")
    BY SaidMore, SMTT(30)
  <1> HIDE DEF more
  <1>2. InOrder(more, next)
    BY <1>1 DEF InOrder, more
  <1>3. FaultInv(more, next)
    BY <1>1, Apart DEF FaultInv
  <1>4. Story(more, next)
    BY <1>1, <1>2, <1>3 DEF Story
  <1> QED BY <1>4 DEF more

(* A note selects nothing of the script.                                   *)
LEMMA NotesAreNoSteps ==
    ASSUME NEW said \in Seq(Event), NEW e \in Notes
    PROVE  Among(Append(said, e), Step) = Among(said, Step)
  <1>1. e \in Event /\ e \notin Step
    BY Apart
  <1> QED BY <1>1, AmongAppend

(* A plan is accepted.                                                     *)
LEMMA Accepts ==
    ASSUME NEW plan \in Plan
    PROVE  Story(<<Note("accepted")>>, Accepted(plan))
  <1> DEFINE said == <<Note("accepted")>>
             run == Accepted(plan)
  <1>1. FirstPending(plan.fault) \in {None, Crash, Emit} /\ FirstPending(plan.fault) \in Delivery \cup {None}
    BY Apart DEF FirstPending, Emit
  <1>2. plan.fault = "emit" <=> FirstPending(plan.fault) = Emit
    BY Apart DEF FirstPending, Emit
  <1>3. plan.steps \in Seq(Step) /\ plan.fault \in Faults \cup {None}
    BY DEF Plan
  <1>4. /\ run.active = TRUE /\ run.delayed = FALSE /\ run.steps = plan.steps /\ run.plan = plan
        /\ run.fault = plan.fault /\ run.pending = FirstPending(plan.fault)
    BY DEF Accepted
  <1>5. run \in Run
    BY <1>1, <1>3 DEF Accepted, Run
  <1>6. /\ said \in Seq(Event) /\ said # <<>> /\ Len(said) = 1 /\ DOMAIN said = {1}
        /\ said[1] = Note("accepted") /\ Last(said) = Note("accepted")
    BY Apart DEF Last
  <1> HIDE DEF said, run
  <1>7. Among(said, Step) = <<>>
    <2>1. said = Append(<<>>, Note("accepted")) /\ <<>> \in Seq(Event) /\ Note("accepted") \in Notes
      BY Apart DEF said
    <2> QED BY <2>1, NotesAreNoSteps, AmongNone
  <1>8. Among(plan.steps, Spoken) \in Seq(Step)
    BY <1>3, AmongType
  <1>9. InOrder(said, run)
    <2>1. Among(said, Step) \o Among(run.steps, Spoken) = Among(run.plan.steps, Spoken)
      BY <1>4, <1>7, <1>8
    <2>2. /\ Note("accepted").kind = "accepted" /\ Note("accepted") # Note("fault")
          /\ ~Ending(Note("accepted"))
      BY Apart DEF Ending, Terminals
    <2> QED BY <1>4, <1>6, <2>1, <2>2, Apart DEF InOrder
  <1>10. RestInv(run)
    BY <1>3, <1>4 DEF RestInv
  <1>11. FaultInv(said, run)
    BY <1>1, <1>2, <1>4, <1>6, Apart DEF FaultInv
  <1>12. Story(said, run)
    BY <1>5, <1>6, <1>9, <1>10, <1>11 DEF Story
  <1> QED BY <1>12 DEF said, run

(* A note is delivered that is not the acceptance: something is steered    *)
(* in, the fault of the plan comes, or the run ends.                       *)
LEMMA NoteTold ==
    ASSUME NEW said, NEW run, Story(said, run), run.active,
           NEW kind \in {"steer", "fault", "crashed", "interrupted"}, NEW next \in Run,
           \/ run.pending = None /\ kind \in {"steer", "interrupted"}
           \/ run.pending = Emit /\ kind = "fault"
           \/ run.pending = Crash /\ kind = "crashed",
           /\ next.plan = run.plan /\ next.steps = run.steps /\ next.fault = run.fault
           /\ next.delayed = run.delayed /\ next.pending = None,
           next.active <=> kind \in {"steer", "fault"}
    PROVE  Story(Append(said, Note(kind)), next)
  <1> DEFINE e == Note(kind)
  <1>1. e \in Notes /\ e \in Event /\ e.kind = kind
    BY Apart
  <1>2. e # Note("accepted") /\ (e = Note("fault") <=> kind = "fault")
        /\ (e = Note("crashed") <=> kind = "crashed")
    BY <1>1, Apart
  <1> HIDE DEF e
  <1>3. Follows(said, run, e)
    BY <1>2, Apart DEF Follows, Story, FaultInv
  <1>4. RestInv(next)
    BY DEF Story, RestInv
  <1>5. Among(Append(said, e), Step) \o Among(next.steps, Spoken) = Among(run.plan.steps, Spoken)
    BY <1>1, NotesAreNoSteps DEF Story, InOrder
  <1>6. next.active <=> ~Ending(e)
    BY <1>1 DEF Ending, Terminals
  <1>7. /\ next.fault \in {run.plan.fault, None}
        /\ next.delayed => run.plan.fault = "delay"
        /\ run.plan.fault = "exit_mutation" /\ next.active =>
               /\ next.pending = None => next.fault = "exit_mutation"
               /\ e.kind = "mutation" => next.pending = Crash
    BY <1>1, Apart DEF Story, FaultInv
  <1>8. Story(Append(said, e), next)
    BY <1>1, <1>3, <1>4, <1>5, <1>6, <1>7, Told
  <1> QED BY <1>8 DEF e

(* What is left of the script without its head.                            *)
LEMMA RestTail ==
    ASSUME NEW run \in Run, RestInv(run), run.steps # <<>>,
           NEW next, next.steps = Tail(run.steps), next.plan = run.plan
    PROVE  RestInv(next)
  <1> DEFINE m == Len(run.plan.steps)
             k == Len(run.steps)
  <1>1. run.steps \in Seq(Step) /\ m \in Nat /\ k \in Nat /\ k <= m
    BY DEF Run, Plan, RestInv
  <1>2. k # 0 /\ Len(next.steps) = k - 1 /\ \A i \in 1..(k - 1) : next.steps[i] = run.steps[i + 1]
    BY <1>1
  <1>3. \A i \in 1..k : run.steps[i] = run.plan.steps[m - k + i]
    BY DEF RestInv
  <1>4. Len(next.plan.steps) = m
    OBVIOUS
  <1> HIDE DEF m, k
  <1>5. ASSUME NEW i \in 1..(k - 1) PROVE next.steps[i] = run.plan.steps[m - (k - 1) + i]
    <2>1. i + 1 \in 1..k /\ m - k + (i + 1) = m - (k - 1) + i
      BY <1>1, <1>2
    <2> QED BY <1>2, <1>3, <2>1
  <1> QED BY <1>1, <1>2, <1>4, <1>5 DEF RestInv

(* An answer that is awaited is there: the run goes on.                    *)
LEMMA Awaited ==
    ASSUME NEW said, NEW run, Story(said, run), run.steps # <<>>,
           Head(run.steps).kind = "await"
    PROVE  Story(said, [run EXCEPT !.steps = Tail(@)])
  <1> DEFINE next == [run EXCEPT !.steps = Tail(@)]
  <1>1. run \in Run /\ run.steps \in Seq(Step)
    BY DEF Story, Run
  <1>2. /\ next.active = run.active /\ next.delayed = run.delayed /\ next.steps = Tail(run.steps)
        /\ next.plan = run.plan /\ next.fault = run.fault /\ next.pending = run.pending
    BY <1>1 DEF Run
  <1>3. next \in Run
    <2>1. Tail(run.steps) \in Seq(Step)
      BY <1>1
    <2> QED BY <1>1, <2>1 DEF Run
  <1> HIDE DEF next
  <1>4. Among(run.steps, Spoken) = Among(next.steps, Spoken)
    <2>1. Head(run.steps) \notin Spoken
      BY DEF Spoken
    <2>2. Among(Tail(run.steps), Spoken) \in Seq(Step)
      <3>1. Tail(run.steps) \in Seq(Step)
        BY <1>1
      <3> QED BY <3>1, AmongType
    <2>3. Among(run.steps, Spoken) = <<>> \o Among(Tail(run.steps), Spoken)
      BY <1>1, <2>1, AmongTail
    <2> QED BY <1>2, <2>2, <2>3, ConcatEmptySeq
  <1>5. InOrder(said, next)
    BY <1>2, <1>4 DEF Story, InOrder
  <1>6. RestInv(next)
    BY <1>1, <1>2, RestTail DEF Story
  <1>7. FaultInv(said, next)
    BY <1>2 DEF Story, FaultInv
  <1>8. Story(said, next)
    BY <1>3, <1>5, <1>6, <1>7 DEF Story
  <1> QED BY <1>8 DEF next

(* The release of the approval is waited for.                              *)
LEMMA Delayed ==
    ASSUME NEW said, NEW run, Story(said, run), run.fault = "delay"
    PROVE  Story(said, [run EXCEPT !.delayed = TRUE])
  <1> DEFINE next == [run EXCEPT !.delayed = TRUE]
  <1>1. run \in Run
    BY DEF Story
  <1>2. /\ next.active = run.active /\ next.delayed = TRUE /\ next.steps = run.steps
        /\ next.plan = run.plan /\ next.fault = run.fault /\ next.pending = run.pending
        /\ next \in Run
    BY <1>1 DEF Run
  <1> HIDE DEF next
  <1>3. run.plan.fault = "delay"
    <2>1. None # "delay"
      <3>1. None \notin Faults
        BY MockAssumption
      <3> QED BY <3>1 DEF Faults
    <2> QED BY <2>1 DEF Story, FaultInv
  <1>4. InOrder(said, next) /\ RestInv(next)
    <2>1. InOrder(said, run) /\ RestInv(run)
      BY DEF Story
    <2>2. InOrder(said, next)
      BY <1>2, <2>1 DEF InOrder
    <2>3. RestInv(next)
      BY <1>2, <2>1 DEF RestInv
    <2> QED BY <2>2, <2>3
  <1>5. FaultInv(said, next)
    BY <1>2, <1>3 DEF Story, FaultInv
  <1>6. Story(said, next)
    BY <1>2, <1>4, <1>5 DEF Story
  <1> QED BY <1>6 DEF next

(* A step of the script is delivered.                                      *)
LEMMA Speaks ==
    ASSUME NEW said, NEW run, Story(said, run), run.active, run.pending = None,
           run.steps # <<>>, NEW step, step = Head(run.steps), step.kind # "await",
           NEW released,
           \/ released = run
           \/ /\ released = [run EXCEPT !.delayed = FALSE, !.fault = None]
              /\ run.plan.fault = "delay"
    PROVE  Story(Append(said, step), Committed(released, DeliveryOf(run, step)))
  <1> DEFINE next == Committed(released, DeliveryOf(run, step))
  <1>1. run \in Run /\ run.steps \in Seq(Step) /\ step \in Step /\ Tail(run.steps) \in Seq(Step)
    BY DEF Story, Run
  <1>2. /\ released \in Run /\ released.active = run.active /\ released.steps = run.steps
        /\ released.plan = run.plan
        /\ released.delayed => run.delayed
        /\ released.fault = run.fault \/ (released.fault = None /\ run.plan.fault = "delay")
    BY <1>1 DEF Run
  <1>3. step \in Spoken /\ step \in Event /\ step \notin Notes
    BY <1>1, Apart DEF Spoken
  <1>4. DeliveryOf(run, step).commit =
            IF step.kind = "complete" THEN "consume"
            ELSE IF step.kind = "mutation" /\ run.fault = "exit_mutation" THEN "exit" ELSE "step"
    BY DEF DeliveryOf
  <1>5. next = IF step.kind = "complete"
               THEN [released EXCEPT !.steps = Tail(@), !.pending = None, !.active = FALSE]
               ELSE IF step.kind = "mutation" /\ run.fault = "exit_mutation"
               THEN [released EXCEPT !.steps = Tail(@), !.pending = Crash, !.fault = None]
               ELSE [released EXCEPT !.steps = Tail(@), !.pending = None]
    BY <1>4 DEF Committed
  <1> HIDE DEF next
  <1>6. /\ next \in Run /\ next.steps = Tail(run.steps) /\ next.plan = run.plan
        /\ next.delayed = released.delayed
        /\ next.active <=> step.kind # "complete"
        /\ next.pending = IF step.kind = "mutation" /\ run.fault = "exit_mutation"
                          THEN Crash ELSE None
        /\ next.fault = IF step.kind = "mutation" /\ run.fault = "exit_mutation"
                        THEN None ELSE released.fault
    <2>1. Crash \in Delivery
      BY Apart
    <2>5. released \in Run /\ Tail(released.steps) \in Seq(Step)
          /\ None \in Delivery \cup {None} /\ Crash \in Delivery \cup {None}
      BY <1>1, <1>2, <2>1
    <2>6. Tail(released.steps) = Tail(run.steps) /\ released.plan = run.plan
      BY <1>2
    <2>2. CASE step.kind = "complete"
      <3>1. next = [released EXCEPT !.steps = Tail(@), !.pending = None, !.active = FALSE]
        BY <1>5, <2>2
      <3>2. /\ next \in Run /\ next.steps = Tail(run.steps) /\ next.plan = run.plan
            /\ next.delayed = released.delayed /\ next.active = FALSE
            /\ next.pending = None /\ next.fault = released.fault
        BY <2>5, <2>6, <3>1 DEF Run
      <3> QED BY <2>2, <3>2
    <2>3. CASE step.kind = "mutation" /\ run.fault = "exit_mutation"
      <3>1. next = [released EXCEPT !.steps = Tail(@), !.pending = Crash, !.fault = None]
        BY <1>5, <2>3
      <3>2. /\ next \in Run /\ next.steps = Tail(run.steps) /\ next.plan = run.plan
            /\ next.delayed = released.delayed /\ next.active = released.active
            /\ next.pending = Crash /\ next.fault = None
        BY <2>5, <2>6, <3>1 DEF Run
      <3> QED BY <1>2, <2>3, <3>2
    <2>4. CASE step.kind # "complete" /\ ~(step.kind = "mutation" /\ run.fault = "exit_mutation")
      <3>1. next = [released EXCEPT !.steps = Tail(@), !.pending = None]
        BY <1>5, <2>4
      <3>2. /\ next \in Run /\ next.steps = Tail(run.steps) /\ next.plan = run.plan
            /\ next.delayed = released.delayed /\ next.active = released.active
            /\ next.pending = None /\ next.fault = released.fault
        BY <2>5, <2>6, <3>1 DEF Run
      <3> QED BY <1>2, <2>4, <3>2
    <2> QED BY <2>2, <2>3, <2>4
  <1>7. Follows(said, run, step)
    <2>1. step # Note("accepted") /\ step # Note("fault")
      BY <1>3, Apart
    <2> QED BY <2>1, Apart DEF Follows, Story, FaultInv
  <1>8. RestInv(next)
    BY <1>1, <1>6, RestTail DEF Story
  <1>9. Among(Append(said, step), Step) \o Among(next.steps, Spoken)
            = Among(run.plan.steps, Spoken)
    <2> DEFINE before == Among(said, Step)
               after == Among(next.steps, Spoken)
    <2>1. said \in Seq(Event)
      BY DEF Story
    <2>2. before \in Seq(Event) /\ after \in Seq(Event) /\ <<step>> \in Seq(Event)
      <3>1. after \in Seq(Step)
        BY <1>1, <1>6, AmongType
      <3>2. Seq(Step) \subseteq Seq(Event)
        BY Apart
      <3> QED BY <1>3, <2>1, <3>1, <3>2, AmongType
    <2>3. Among(Append(said, step), Step) = Append(before, step)
      BY <1>1, <1>3, <2>1, AmongAppend
    <2>4. Among(run.steps, Spoken) = <<step>> \o after
      BY <1>1, <1>3, <1>6, AmongTail
    <2>5. before \o Among(run.steps, Spoken) = Among(run.plan.steps, Spoken)
      BY DEF Story, InOrder
    <2> HIDE DEF before, after
    <2>6. Append(before, step) = before \o <<step>>
      BY <1>3, <2>2, AppendIsConcat
    <2>7. (before \o <<step>>) \o after = before \o (<<step>> \o after)
      BY <2>2, ConcatAssociative
    <2> QED BY <2>3, <2>4, <2>5, <2>6, <2>7 DEF after
  <1>10. next.active <=> ~Ending(step)
    BY <1>1, <1>6, Apart DEF Ending, Terminals, StepKinds
  <1>11. /\ next.pending \in {None, Crash} /\ next.pending # None => next.active
         /\ next.fault \in {run.plan.fault, None}
         /\ next.delayed => run.plan.fault = "delay"
    BY <1>2, <1>6 DEF Story, FaultInv
  <1>12. run.plan.fault = "exit_mutation" /\ next.active =>
               /\ next.pending = None => next.fault = "exit_mutation"
               /\ step.kind = "mutation" => next.pending = Crash
    BY <1>2, <1>6, Apart DEF Story, FaultInv
  <1>13. Story(Append(said, step), next)
    BY <1>3, <1>6, <1>7, <1>8, <1>9, <1>10, <1>11, <1>12, Told
  <1> QED BY <1>13 DEF next

-----------------------------------------------------------------------------
(* The runs that were accepted, with their stories and their requests.     *)

RequestsType ==
    /\ DOMAIN requests \subseteq (DOMAIN runs) \X Ids
    /\ \A q \in DOMAIN requests : requests[q] \in Answers \cup {None}

(* What was asked and what was answered, of any function of the requests.  *)
AskedAre(asked, r, said) ==
    \A id \in Ids :
        <<r, id>> \in DOMAIN asked <=> \E i \in DOMAIN said : said[i].kind \in Asks /\ said[i].id = id

Behind(run) == Len(run.plan.steps) - Len(run.steps)

Replied(asked, r, step) ==
    <<r, step.id>> \in DOMAIN asked /\ asked[<<r, step.id>>] # None

AwaitedAre(asked, r, run) ==
    \A i \in 1..Behind(run) :
        run.plan.steps[i].kind = "await" => Replied(asked, r, run.plan.steps[i])

RunsInv ==
    /\ runs \in Seq(Run) /\ sent \in Seq(Seq(Event)) /\ Len(sent) = Len(runs)
    /\ RequestsType
    /\ \A r \in DOMAIN runs :
           Story(sent[r], runs[r]) /\ AskedAre(requests, r, sent[r]) /\ AwaitedAre(requests, r, runs[r])

(* What is left behind, by its places.                                     *)
LEMMA LeftBehindIs ==
    ASSUME NEW r, NEW run \in Run, RestInv(run)
    PROVE  /\ Behind(run) \in 0..Len(run.plan.steps)
           /\ AwaitedAre(requests, r, run) <=>
                 \A i \in DOMAIN LeftBehind(run) :
                     LET step == LeftBehind(run)[i] IN step.kind = "await" => Answered(r, step)
  <1> DEFINE left == LeftBehind(run)
  <1>1. run.plan.steps \in Seq(Step) /\ run.steps \in Seq(Step) /\ Len(run.steps) <= Len(run.plan.steps)
    BY DEF Run, Plan, RestInv
  <1>2. Behind(run) \in 0..Len(run.plan.steps)
    <2> DEFINE a == Len(run.plan.steps)
               b == Len(run.steps)
    <2>1. a \in Nat /\ b \in Nat /\ b <= a /\ Behind(run) = a - b
      BY <1>1 DEF Behind
    <2> HIDE DEF a, b
    <2>2. Behind(run) \in 0..a
      BY <2>1
    <2> QED BY <2>2 DEF a
  <1>3. DOMAIN left = 1..Behind(run) /\ \A i \in 1..Behind(run) : left[i] = run.plan.steps[i]
    <2> DEFINE s == run.plan.steps
               n == Behind(run)
    <2>1. s \in Seq(Step) /\ n \in 0..Len(s) /\ left = SubSeq(s, 1, n)
      BY <1>1, <1>2 DEF LeftBehind, Behind
    <2> HIDE DEF s, n, left
    <2>2. DOMAIN left = 1..n /\ \A i \in 1..n : left[i] = s[i]
      BY <2>1
    <2> QED BY <2>2 DEF s, n
  <1> HIDE DEF left
  <1>4. AwaitedAre(requests, r, run) <=> \A i \in DOMAIN left : left[i].kind = "await" => Answered(r, left[i])
    BY <1>3 DEF AwaitedAre, Answered, Replied
  <1> QED BY <1>2, <1>4 DEF left

(* That is what the property says.                                         *)
LEMMA RunsFollow ==
    ASSUME RunsInv
    PROVE  \A r \in DOMAIN runs : InOrder(sent[r], runs[r]) /\ RequestsAreOffered(r)
  <1> SUFFICES ASSUME NEW r \in DOMAIN runs
               PROVE  InOrder(sent[r], runs[r]) /\ RequestsAreOffered(r)
    OBVIOUS
  <1>1. Story(sent[r], runs[r]) /\ AskedAre(requests, r, sent[r]) /\ AwaitedAre(requests, r, runs[r])
    BY DEF RunsInv
  <1>2. runs[r] \in Run /\ RestInv(runs[r]) /\ InOrder(sent[r], runs[r])
    BY <1>1 DEF Story
  <1>3. \A i \in DOMAIN LeftBehind(runs[r]) :
            LET step == LeftBehind(runs[r])[i] IN step.kind = "await" => Answered(r, step)
    BY <1>1, <1>2, LeftBehindIs
  <1> QED BY <1>1, <1>2, <1>3 DEF RequestsAreOffered, AskedAre

(* Requests are not forgotten, nor answers.                                *)
RequestsStay ==
    \A q \in DOMAIN requests :
        q \in DOMAIN requests' /\ (requests[q] # None => requests'[q] # None)

PlansStay ==
    /\ DOMAIN runs \subseteq DOMAIN runs'
    /\ \A r \in DOMAIN runs : runs'[r].plan = runs[r].plan

(* A request that was answered stays answered.                             *)
LEMMA AnswersStay ==
    ASSUME RequestsStay, NEW r, NEW step, Replied(requests, r, step)
    PROVE  Replied(requests', r, step)
  BY DEF RequestsStay, Replied

(* One run goes on, and the others stay as they were.                      *)
LEMMA OneRun ==
    ASSUME RunsInv, RequestsStay, NEW r \in DOMAIN runs, NEW said, NEW next, Story(said, next),
           runs' = [runs EXCEPT ![r] = next], sent' = [sent EXCEPT ![r] = said],
           next.plan = runs[r].plan, RequestsType',
           \A x, id : x # r /\ <<x, id>> \in DOMAIN requests' => <<x, id>> \in DOMAIN requests,
           AskedAre(requests', r, said),
           \/ next.steps = runs[r].steps
           \/ /\ runs[r].steps # <<>> /\ next.steps = Tail(runs[r].steps)
              /\ Head(runs[r].steps).kind = "await" => Replied(requests, r, Head(runs[r].steps))
    PROVE  RunsInv' /\ PlansStay
  <1> DEFINE S == Seq(Event)
  <1>1. runs \in Seq(Run) /\ sent \in Seq(S) /\ Len(sent) = Len(runs) /\ next \in Run /\ said \in S
    BY DEF RunsInv, Story
  <1> HIDE DEF S
  <1>2. /\ runs' \in Seq(Run) /\ sent' \in Seq(S) /\ Len(sent') = Len(runs')
        /\ DOMAIN runs' = DOMAIN runs /\ runs'[r] = next /\ sent'[r] = said
        /\ \A x \in DOMAIN runs : x # r => runs'[x] = runs[x] /\ sent'[x] = sent[x]
    BY <1>1
  <1>3. PlansStay
    BY <1>2 DEF PlansStay
  <1>4. AwaitedAre(requests', r, next)
    <2> DEFINE plan == runs[r].plan.steps
               rest == runs[r].steps
    <2>1. plan \in Seq(Step) /\ rest \in Seq(Step) /\ Len(rest) <= Len(plan)
          /\ \A i \in 1..Len(rest) : rest[i] = plan[Len(plan) - Len(rest) + i]
      BY <1>1 DEF Run, Plan, RunsInv, Story, RestInv
    <2>2. \A i \in 1..(Len(plan) - Len(rest)) : plan[i].kind = "await" => Replied(requests', r, plan[i])
      BY AnswersStay DEF RunsInv, AwaitedAre, Behind
    <2>3. next.plan.steps = plan
      OBVIOUS
    <2>4. CASE next.steps = rest
      BY <2>2, <2>3, <2>4 DEF AwaitedAre, Behind
    <2>5. CASE /\ rest # <<>> /\ next.steps = Tail(rest)
               /\ Head(rest).kind = "await" => Replied(requests, r, Head(rest))
      <3> HIDE DEF plan, rest
      <3>1. /\ Len(plan) - Len(next.steps) = Len(plan) - Len(rest) + 1
            /\ plan[Len(plan) - Len(rest) + 1] = Head(rest)
            /\ Len(plan) - Len(rest) \in Nat
        <4>1. /\ Len(plan) \in Nat /\ Len(rest) \in Nat \ {0} /\ Len(Tail(rest)) = Len(rest) - 1
              /\ Head(rest) = rest[1]
          BY <2>1, <2>5
        <4>2. rest[1] = plan[Len(plan) - Len(rest) + 1]
          BY <2>1, <4>1
        <4>3. Len(next.steps) = Len(rest) - 1 /\ Len(rest) <= Len(plan)
          BY <2>1, <2>5, <4>1
        <4>4. plan[Len(plan) - Len(rest) + 1] = Head(rest)
          BY <4>1, <4>2
        <4>5. Len(plan) - Len(rest) \in Nat
          <5> DEFINE a == Len(plan)
                     b == Len(rest)
          <5>1. a \in Nat /\ b \in Nat /\ b <= a
            BY <4>1, <4>3
          <5> HIDE DEF a, b
          <5>2. a - b \in Nat
            BY <5>1
          <5> QED BY <5>2 DEF a, b
        <4>6. Len(plan) - (Len(rest) - 1) = Len(plan) - Len(rest) + 1
          BY <4>1
        <4> QED BY <4>3, <4>4, <4>5, <4>6
      <3>0. Head(rest).kind = "await" => Replied(requests', r, Head(rest))
        BY <2>5, AnswersStay
      <3>2. ASSUME NEW i \in 1..(Len(plan) - Len(rest) + 1), plan[i].kind = "await"
            PROVE  Replied(requests', r, plan[i])
        <4>1. CASE i \in 1..(Len(plan) - Len(rest))
          BY <2>2, <3>2, <4>1
        <4>2. CASE i = Len(plan) - Len(rest) + 1
          BY <3>0, <3>1, <3>2, <4>2
        <4> QED BY <3>1, <3>2, <4>1, <4>2
      <3> QED BY <2>3, <3>1, <3>2 DEF AwaitedAre, Behind
    <2> QED BY <2>4, <2>5
  <1>5. ASSUME NEW x \in DOMAIN runs, x # r
        PROVE  Story(sent'[x], runs'[x]) /\ AskedAre(requests', x, sent'[x]) /\ AwaitedAre(requests', x, runs'[x])
    <2>1. Story(sent[x], runs[x]) /\ AskedAre(requests, x, sent[x]) /\ AwaitedAre(requests, x, runs[x])
      BY DEF RunsInv
    <2>2. sent'[x] = sent[x] /\ runs'[x] = runs[x]
      BY <1>2, <1>5
    <2>3. \A id \in Ids : <<x, id>> \in DOMAIN requests' <=> <<x, id>> \in DOMAIN requests
      BY <1>5 DEF RequestsStay
    <2>4. \A step : Replied(requests, x, step) => Replied(requests', x, step)
      BY AnswersStay
    <2> QED BY <2>1, <2>2, <2>3, <2>4 DEF AskedAre, AwaitedAre
  <1>6. \A x \in DOMAIN runs' :
            Story(sent'[x], runs'[x]) /\ AskedAre(requests', x, sent'[x]) /\ AwaitedAre(requests', x, runs'[x])
    <2> SUFFICES ASSUME NEW x \in DOMAIN runs
                 PROVE  Story(sent'[x], runs'[x]) /\ AskedAre(requests', x, sent'[x]) /\ AwaitedAre(requests', x, runs'[x])
      BY <1>2
    <2>1. CASE x = r
      BY <1>2, <1>4, <2>1 DEF AskedAre, AwaitedAre
    <2>2. CASE x # r
      BY <1>2, <1>5, <2>2
    <2> QED BY <2>1, <2>2
  <1> QED BY <1>2, <1>3, <1>6 DEF RunsInv, S

-----------------------------------------------------------------------------
(* What a call knows, and how the actions keep the stories.                *)

CallFits(records, x) ==
    x.at # "idle" =>
        /\ x.kind = "start" =>
              /\ x.at \in {"check", "reserve", "commit"}
              /\ ~x.release /\ x.delivery = None /\ x.step = None
        /\ x.kind # "start" => x.run \in DOMAIN records
        /\ x.release => records[x.run].plan.fault = "delay"
        /\ x.step # None => x.step.kind # "await"

CallsInv ==
    /\ call \in [Callers -> Call]
    /\ \A c \in Callers : CallFits(runs, call[c])

(* Nothing is sent or asked, and no record changes.                        *)
LEMMA RunsKept ==
    ASSUME RunsInv, UNCHANGED <<runs, sent, requests>>
    PROVE  RunsInv' /\ PlansStay
  BY DEF RunsInv, PlansStay, RequestsType, Story, AskedAre, AwaitedAre

(* What is said of a run is a list of events, and begins.                  *)
LEMMA RunOf ==
    ASSUME RunsInv, NEW r \in DOMAIN runs
    PROVE  /\ Story(sent[r], runs[r]) /\ AskedAre(requests, r, sent[r])
           /\ sent[r] \in Seq(Event) /\ runs[r] \in Run /\ sent = [sent EXCEPT ![r] = sent[r]]
           /\ r \in Nat /\ DOMAIN sent = DOMAIN runs
  <1>1. Story(sent[r], runs[r]) /\ AskedAre(requests, r, sent[r])
    BY DEF RunsInv
  <1> DEFINE S == Seq(Event)
  <1>2. runs \in Seq(Run) /\ sent \in Seq(S) /\ Len(sent) = Len(runs)
    BY DEF RunsInv
  <1> HIDE DEF S
  <1>3. sent = [sent EXCEPT ![r] = sent[r]] /\ r \in Nat /\ DOMAIN sent = DOMAIN runs
    BY <1>2
  <1> QED BY <1>1, <1>3 DEF Story

(* An event that asks nothing.                                             *)
LEMMA AsksNothing ==
    ASSUME NEW r, NEW said \in Seq(Event), AskedAre(requests, r, said), NEW e \in Event,
           e.kind \notin Asks
    PROVE  AskedAre(requests, r, Append(said, e))
  <1> DEFINE more == Append(said, e)
  <1>1. /\ DOMAIN more = 1..(Len(said) + 1) /\ DOMAIN said = 1..Len(said) /\ Len(said) \in Nat
        /\ more[Len(said) + 1] = e /\ \A i \in 1..Len(said) : more[i] = said[i]
    OBVIOUS
  <1> HIDE DEF more
  <1>2. ASSUME NEW id
        PROVE  (\E i \in DOMAIN more : more[i].kind \in Asks /\ more[i].id = id)
                   <=> \E i \in DOMAIN said : said[i].kind \in Asks /\ said[i].id = id
    <2>1. ASSUME NEW i \in DOMAIN more, more[i].kind \in Asks PROVE i \in DOMAIN said /\ more[i] = said[i]
      <3>1. i # Len(said) + 1
        BY <1>1, <2>1
      <3> QED BY <1>1, <3>1
    <2>2. ASSUME NEW i \in DOMAIN said PROVE i \in DOMAIN more /\ more[i] = said[i]
      BY <1>1
    <2> QED BY <2>1, <2>2
  <1> QED BY <1>2 DEF AskedAre, more

(* A note of a run is delivered.                                           *)
LEMMA NoteRuns ==
    ASSUME RunsInv, NEW r \in DOMAIN runs, NEW kind, NEW next,
           Story(Append(sent[r], Note(kind)), next),
           kind \in {"steer", "fault", "crashed", "interrupted"},
           next.plan = runs[r].plan, next.steps = runs[r].steps,
           runs' = [runs EXCEPT ![r] = next],
           sent' = [sent EXCEPT ![r] = Append(@, Note(kind))],
           requests' = requests
    PROVE  RunsInv' /\ PlansStay
  <1> DEFINE said == Append(sent[r], Note(kind))
  <1>1. AskedAre(requests, r, said)
    <2>1. Note(kind) \in Event /\ Note(kind).kind \notin Asks
      BY Apart DEF Asks
    <2> QED BY <2>1, RunOf, AsksNothing
  <1>2. sent' = [sent EXCEPT ![r] = said]
    BY RunOf
  <1>3. RequestsStay
    BY DEF RequestsStay
  <1>4. RequestsType'
    <2>1. DOMAIN runs' = DOMAIN runs
      BY DEF RunsInv
    <2> QED BY <2>1 DEF RunsInv, RequestsType
  <1> HIDE DEF said
  <1>5. Story(said, next)
    BY DEF said
  <1> QED BY <1>1, <1>2, <1>3, <1>4, <1>5, OneRun

(* A pending delivery is made by whoever finds it first, once.             *)
LEMMA CommitFlushRuns ==
    ASSUME RunsInv, CallsInv, NEW c \in Callers, CommitFlush(c)
    PROVE  RunsInv' /\ PlansStay
  <1> DEFINE r == call[c].run
             delivery == call[c].delivery
             next == Committed(runs[r], delivery)
  <1>1. r \in DOMAIN runs
    BY DEF CommitFlush, At, CallsInv, CallFits
  <1>2. CASE runs[r].pending # delivery
    BY <1>2, RunsKept DEF CommitFlush
  <1>3. CASE runs[r].pending = delivery
    <2> DEFINE kind == IF delivery = Crash THEN "crashed" ELSE "fault"
    <2>1. Story(sent[r], runs[r]) /\ runs[r] \in Run
      BY <1>1, RunOf
    <2>2. delivery # None /\ delivery \in {Crash, Emit} /\ runs[r].active
      BY <1>3, <2>1 DEF Story, FaultInv, CommitFlush
    <2>3. delivery.event = Note(kind)
      BY <2>2 DEF Crash, Emit
    <2>4. next = IF delivery = Crash THEN [runs[r] EXCEPT !.pending = None, !.active = FALSE]
                                     ELSE [runs[r] EXCEPT !.pending = None]
      BY <2>2, Apart DEF Committed, Crash, Emit
    <2>5. /\ runs' = [runs EXCEPT ![r] = next] /\ requests' = requests
          /\ sent' = [sent EXCEPT ![r] = Append(@, Note(kind))]
      BY <1>3, <2>3 DEF CommitFlush, Delivers, Send
    <2> HIDE DEF next, r, delivery
    <2>6. /\ next \in Run /\ next.plan = runs[r].plan /\ next.steps = runs[r].steps
          /\ next.fault = runs[r].fault /\ next.delayed = runs[r].delayed /\ next.pending = None
          /\ next.active <=> delivery # Crash
      BY <2>1, <2>2, <2>4 DEF Run
    <2>7. Story(Append(sent[r], Note(kind)), next)
      <3>1. \/ runs[r].pending = Emit /\ kind = "fault"
            \/ runs[r].pending = Crash /\ kind = "crashed"
        BY <1>3, <2>2
      <3>2. next.active <=> kind \in {"steer", "fault"}
        BY <2>6
      <3>3. kind \in {"steer", "fault", "crashed", "interrupted"}
        OBVIOUS
      <3> HIDE DEF kind
      <3> QED BY <2>1, <2>2, <2>6, <3>1, <3>2, <3>3, NoteTold
    <2>8. kind \in {"steer", "fault", "crashed", "interrupted"}
      OBVIOUS
    <2> HIDE DEF kind
    <2> QED BY <1>1, <2>5, <2>6, <2>7, <2>8, NoteRuns DEF r
  <1> QED BY <1>2, <1>3

(* steer and interrupt, once they have a place in the channel.             *)
LEMMA CommitControlRuns ==
    ASSUME RunsInv, CallsInv, NEW c \in Callers, CommitControl(c)
    PROVE  RunsInv' /\ PlansStay
  <1> DEFINE r == call[c].run
  <1>1. r \in DOMAIN runs
    BY DEF CommitControl, At, CallsInv, CallFits
  <1>2. Story(sent[r], runs[r]) /\ runs[r] \in Run
    BY <1>1, RunOf
  <1>3. requests' = requests
    BY DEF CommitControl
  <1>4. CASE UNCHANGED <<runs, sent>>
    BY <1>3, <1>4, RunsKept
  <1>5. CASE /\ runs[r].active /\ runs[r].pending = None
             /\ Send(r, Note("steer")) /\ UNCHANGED runs
    <2>1. runs' = [runs EXCEPT ![r] = runs[r]]
      BY <1>1, <1>5 DEF RunsInv
    <2>2. sent' = [sent EXCEPT ![r] = Append(@, Note("steer"))]
      BY <1>5 DEF Send
    <2> HIDE DEF r
    <2>3. Story(Append(sent[r], Note("steer")), runs[r])
      <3> DEFINE kind == "steer"
      <3>1. kind \in {"steer", "interrupted"} /\ kind \in {"steer", "fault", "crashed", "interrupted"}
            /\ kind \in {"steer", "fault"}
        OBVIOUS
      <3> HIDE DEF kind
      <3>2. Story(Append(sent[r], Note(kind)), runs[r])
        BY <1>2, <1>5, <3>1, NoteTold
      <3> QED BY <3>2 DEF kind
    <2> QED BY <1>1, <1>3, <2>1, <2>2, <2>3, NoteRuns
  <1>6. CASE /\ runs[r].active /\ runs[r].pending = None
             /\ Delivers(c, r, runs[r], [event |-> Note("interrupted"), commit |-> "terminal"])
    <2> DEFINE next == [runs[r] EXCEPT !.pending = None, !.active = FALSE]
    <2>1. /\ runs' = [runs EXCEPT ![r] = next]
          /\ sent' = [sent EXCEPT ![r] = Append(@, Note("interrupted"))]
      BY <1>6 DEF Delivers, Send, Committed
    <2> HIDE DEF r
    <2>2. /\ next \in Run /\ next.plan = runs[r].plan /\ next.steps = runs[r].steps
          /\ next.fault = runs[r].fault /\ next.delayed = runs[r].delayed /\ next.pending = None
          /\ next.active = FALSE
      BY <1>2 DEF Run
    <2> HIDE DEF next
    <2>3. Story(Append(sent[r], Note("interrupted")), next)
      <3> DEFINE kind == "interrupted"
      <3>1. kind \in {"steer", "interrupted"} /\ kind \in {"steer", "fault", "crashed", "interrupted"}
            /\ kind \notin {"steer", "fault"}
        OBVIOUS
      <3> HIDE DEF kind
      <3>2. Story(Append(sent[r], Note(kind)), next)
        BY <1>2, <1>6, <2>2, <3>1, NoteTold
      <3> QED BY <3>2 DEF kind
    <2> QED BY <1>1, <1>3, <2>1, <2>2, <2>3, NoteRuns
  <1> QED BY <1>4, <1>5, <1>6 DEF CommitControl

(* drive_run before it waits for a place: the release of an approval is    *)
(* awaited, or an answer has come.                                         *)
LEMMA LookRuns ==
    ASSUME RunsInv, CallsInv, NEW c \in Callers, Look(c)
    PROVE  RunsInv' /\ PlansStay
  <1> DEFINE r == call[c].run
             run == runs[r]
  <1>1. r \in DOMAIN runs
    BY DEF Look, At, CallsInv, CallFits
  <1>2. /\ Story(sent[r], run) /\ run \in Run /\ AskedAre(requests, r, sent[r])
        /\ sent = [sent EXCEPT ![r] = sent[r]]
    BY <1>1, RunOf
  <1>3. requests' = requests /\ sent' = sent
    BY DEF Look
  <1>4. \/ UNCHANGED runs
        \/ run.fault = "delay" /\ runs' = [runs EXCEPT ![r].delayed = TRUE]
        \/ /\ run.steps # <<>> /\ Head(run.steps).kind = "await" /\ Answered(r, Head(run.steps))
           /\ runs' = [runs EXCEPT ![r].steps = Tail(@)]
    BY DEF Look, Held
  <1>5. CASE UNCHANGED runs
    BY <1>3, <1>5, RunsKept
  <1>6. RequestsStay
    BY <1>3 DEF RequestsStay
  <1>7. CASE run.fault = "delay" /\ runs' = [runs EXCEPT ![r].delayed = TRUE]
    <2> DEFINE next == [run EXCEPT !.delayed = TRUE]
    <2>1. Story(sent[r], next)
      BY <1>2, <1>7, Delayed
    <2>2. next.plan = run.plan /\ next.steps = run.steps
      BY <1>2 DEF Run
    <2>3. runs' = [runs EXCEPT ![r] = next]
      BY <1>7
    <2>4. RequestsType'
      BY <1>3, <1>7 DEF RequestsType, RunsInv
    <2> HIDE DEF next, r
    <2> QED BY <1>1, <1>2, <1>3, <1>6, <2>1, <2>2, <2>3, <2>4, OneRun
  <1>8. CASE /\ run.steps # <<>> /\ Head(run.steps).kind = "await" /\ Answered(r, Head(run.steps))
             /\ runs' = [runs EXCEPT ![r].steps = Tail(@)]
    <2> DEFINE next == [run EXCEPT !.steps = Tail(@)]
    <2>1. Story(sent[r], next)
      BY <1>2, <1>8, Awaited
    <2>2. next.plan = run.plan /\ next.steps = Tail(run.steps)
      BY <1>2 DEF Run
    <2>3. runs' = [runs EXCEPT ![r] = next]
      BY <1>8
    <2>4. RequestsType'
      BY <1>3, <1>8 DEF RequestsType, RunsInv
    <2>5. Replied(requests, r, Head(run.steps))
      BY <1>8 DEF Answered, Replied
    <2> HIDE DEF next, r
    <2> QED BY <1>1, <1>2, <1>3, <1>6, <1>8, <2>1, <2>2, <2>3, <2>4, <2>5, OneRun
  <1> QED BY <1>4, <1>5, <1>7, <1>8

(* An event that is a step of the script, and what it asks.                *)
LEMMA StepAsks ==
    ASSUME NEW r, NEW said \in Seq(Event), AskedAre(requests, r, said), NEW step \in Step,
           NEW asked,
           DOMAIN asked = DOMAIN requests \cup (IF step.kind \in Asks THEN {<<r, step.id>>} ELSE {})
    PROVE  AskedAre(asked, r, Append(said, step))
  <1> DEFINE more == Append(said, step)
  <1>0. step \in Event
    BY Apart
  <1>1. /\ DOMAIN more = 1..(Len(said) + 1) /\ DOMAIN said = 1..Len(said) /\ Len(said) \in Nat
        /\ more[Len(said) + 1] = step /\ \A i \in 1..Len(said) : more[i] = said[i]
    BY <1>0
  <1> HIDE DEF more
  <1>2. ASSUME NEW id
        PROVE  (\E i \in DOMAIN more : more[i].kind \in Asks /\ more[i].id = id)
                   <=> \/ \E i \in DOMAIN said : said[i].kind \in Asks /\ said[i].id = id
                       \/ step.kind \in Asks /\ step.id = id
    <2>1. ASSUME NEW i \in DOMAIN more, i # Len(said) + 1 PROVE i \in DOMAIN said /\ more[i] = said[i]
      BY <1>1, <2>1
    <2>2. ASSUME NEW i \in DOMAIN said PROVE i \in DOMAIN more /\ more[i] = said[i]
      BY <1>1
    <2>3. Len(said) + 1 \in DOMAIN more
      BY <1>1
    <2> QED BY <1>1, <2>1, <2>2, <2>3
  <1>3. \A id : <<r, id>> \in DOMAIN asked <=>
                    <<r, id>> \in DOMAIN requests \/ (step.kind \in Asks /\ step.id = id)
    OBVIOUS
  <1> QED BY <1>2, <1>3 DEF AskedAre, more

(* A step of the script is sent, asked and left behind together, if the    *)
(* run is still before it.                                                 *)
LEMMA CommitStepRuns ==
    ASSUME RunsInv, CallsInv, NEW c \in Callers, CommitStep(c)
    PROVE  RunsInv' /\ PlansStay
  <1> DEFINE r == call[c].run
             run == runs[r]
             step == call[c].step
  <1>0. /\ call[c].at # "idle" /\ step # None
        /\ call[c].kind # "start" /\ r \in DOMAIN runs /\ step.kind # "await"
        /\ call[c].release => run.plan.fault = "delay"
    BY DEF CommitStep, At, CallsInv, CallFits
  <1>1. CASE UNCHANGED <<runs, requests, sent>>
    BY <1>1, RunsKept
  <1>2. CASE /\ run.active /\ ~Stale(run, step) /\ ~Known(r, step)
             /\ requests' = [q \in DOMAIN requests \cup
                                 (IF step.kind \in Asks THEN {<<r, step.id>>} ELSE {}) |->
                                IF q \in DOMAIN requests THEN requests[q] ELSE None]
             /\ Delivers(c, r, Released(c, run, step), DeliveryOf(run, step))
    <2> DEFINE released == Released(c, run, step)
               next == Committed(released, DeliveryOf(run, step))
    <2>1. /\ Story(sent[r], run) /\ run \in Run /\ AskedAre(requests, r, sent[r])
          /\ sent[r] \in Seq(Event) /\ r \in DOMAIN sent
      BY <1>0, RunOf
    <2>2. run.pending = None /\ run.steps # <<>> /\ step = Head(run.steps)
      BY <1>2 DEF Stale
    <2>3. step \in Step
      BY <2>1, <2>2 DEF Run
    <2>4. \/ released = run
          \/ released = [run EXCEPT !.delayed = FALSE, !.fault = None] /\ run.plan.fault = "delay"
      BY <1>0 DEF Released
    <2>5. /\ runs' = [runs EXCEPT ![r] = next]
          /\ sent' = [sent EXCEPT ![r] = Append(sent[r], step)]
      BY <1>2, <2>1 DEF Delivers, Send, DeliveryOf
    <2>6. Story(Append(sent[r], step), next)
      <3> HIDE DEF run, r, step, released
      <3> QED BY <1>0, <1>2, <2>1, <2>2, <2>4, Speaks
    <2>7. next.plan = run.plan /\ next.steps = Tail(run.steps)
      <3>1. /\ released.plan = run.plan /\ released.steps = run.steps /\ released \in Run
        BY <2>1, <2>4 DEF Run
      <3>2. DeliveryOf(run, step).commit \in {"consume", "exit", "step"}
        BY DEF DeliveryOf
      <3> HIDE DEF released
      <3> QED BY <3>1, <3>2 DEF Committed, Run
    <2>8. DOMAIN requests' = DOMAIN requests \cup (IF step.kind \in Asks THEN {<<r, step.id>>} ELSE {})
      BY <1>2
    <2>9. AskedAre(requests', r, Append(sent[r], step))
      BY <2>1, <2>3, <2>8, StepAsks
    <2>10. \A q \in DOMAIN requests : q \in DOMAIN requests' /\ requests'[q] = requests[q]
      BY <1>2
    <2>11. RequestsStay
      BY <2>10 DEF RequestsStay
    <2>12. RequestsType'
      <3>1. DOMAIN runs' = DOMAIN runs
        BY <2>5 DEF RunsInv
      <3>2. step.kind \in Asks => step.id \in Ids
        BY <2>3 DEF Step
      <3>3. DOMAIN requests' \subseteq (DOMAIN runs) \X Ids
        BY <1>0, <2>8, <3>2 DEF RunsInv, RequestsType
      <3>4. \A q \in DOMAIN requests' : requests'[q] \in Answers \cup {None}
        BY <1>2 DEF RunsInv, RequestsType
      <3> QED BY <3>1, <3>3, <3>4 DEF RequestsType
    <2>13. \A x, id : x # r /\ <<x, id>> \in DOMAIN requests' => <<x, id>> \in DOMAIN requests
      BY <2>8
    <2> HIDE DEF next, run, step, r
    <2>14. /\ run.steps # <<>> /\ next.steps = Tail(run.steps)
           /\ Head(run.steps).kind # "await" /\ r \in DOMAIN runs
      BY <1>0, <2>2, <2>7
    <2> QED BY <2>5, <2>6, <2>7, <2>9, <2>11, <2>12, <2>13, <2>14, OneRun DEF run
  <1> QED BY <1>1, <1>2 DEF CommitStep

(* A start takes a plan, records its run and sends the acceptance, or does *)
(* none of it.                                                             *)
LEMMA CommitStartRuns ==
    ASSUME RunsInv, plans \in Seq(Plan), NEW c \in Callers, CommitStart(c)
    PROVE  /\ RunsInv' /\ PlansStay /\ plans' \in Seq(Plan)
           /\ \/ UNCHANGED <<runs, sent, buffered>> /\ call' = [call EXCEPT ![c] = Idle]
              \/ /\ Len(runs') = Len(runs) + 1 /\ Len(runs') \in DOMAIN runs'
                 /\ buffered' = buffered + 1
                 /\ call' = [call EXCEPT ![c] =
                        IF NextPlan.fault = "never" THEN Idle
                        ELSE [@ EXCEPT !.at = "flush", !.kind = "drive", !.run = Len(runs')]]
  <1>1. requests' = requests
    BY DEF CommitStart
  <1>2. CASE Rejects
    <2>1. UNCHANGED <<runs, sent, requests, plans, buffered>> /\ call' = [call EXCEPT ![c] = Idle]
      BY <1>1, <1>2 DEF CommitStart, Returns
    <2> QED BY <2>1, RunsKept
  <1>3. CASE ~Rejects
    <2> DEFINE first == <<Note("accepted")>>
               next == Accepted(NextPlan)
               n == Len(runs) + 1
    <2>1. NextPlan \in Plan /\ plans' \in Seq(Plan)
      <3>1. CASE plans = <<>>
        <4>1. [kind |-> "complete", id |-> None] \in Step
          BY DEF Step, StepKinds, Asks
        <4>2. <<[kind |-> "complete", id |-> None]>> \in Seq(Step)
          BY <4>1
        <4>3. NextPlan \in Plan
          BY <3>1, <4>2 DEF NextPlan, Plan
        <4> QED BY <1>3, <3>1, <4>3 DEF CommitStart
      <3>2. CASE plans # <<>>
        <4>1. Head(plans) \in Plan /\ Tail(plans) \in Seq(Plan)
          BY <3>2
        <4> QED BY <1>3, <3>2, <4>1 DEF CommitStart, NextPlan
      <3> QED BY <3>1, <3>2
    <2>2. /\ runs' = Append(runs, next) /\ sent' = Append(sent, first)
          /\ buffered' = buffered + 1
          /\ call' = [call EXCEPT ![c] =
                        IF NextPlan.fault = "never" THEN Idle
                        ELSE [@ EXCEPT !.at = "flush", !.kind = "drive", !.run = Len(runs')]]
      BY <1>3 DEF CommitStart
    <2>3. Story(first, next)
      BY <2>1, Accepts
    <2>4. next.steps = next.plan.steps
      BY DEF Accepted
    <2> DEFINE S == Seq(Event)
    <2>5. runs \in Seq(Run) /\ sent \in Seq(S) /\ Len(sent) = Len(runs) /\ next \in Run /\ first \in S
      BY <2>3 DEF RunsInv, Story
    <2> HIDE DEF S, next, first
    <2>6. /\ runs' \in Seq(Run) /\ sent' \in Seq(S) /\ Len(sent') = Len(runs') /\ Len(runs') = n
          /\ DOMAIN runs = 1..Len(runs) /\ Len(runs) \in Nat
          /\ DOMAIN runs' = DOMAIN runs \cup {n} /\ n \notin DOMAIN runs
          /\ runs'[n] = next /\ sent'[n] = first
          /\ \A x \in DOMAIN runs : runs'[x] = runs[x] /\ sent'[x] = sent[x]
      BY <2>2, <2>5
    <2>7. PlansStay
      BY <2>6 DEF PlansStay
    <2>8. RequestsType'
      BY <1>1, <2>6 DEF RunsInv, RequestsType
    <2>9. AskedAre(requests, n, first)
      <3>1. \A id : <<n, id>> \notin DOMAIN requests
        BY <2>6 DEF RunsInv, RequestsType
      <3>2. \A i \in DOMAIN first : first[i].kind \notin Asks
        <4>1. Note("accepted").kind \notin Asks
          BY Apart DEF Asks
        <4> QED BY <4>1 DEF first
      <3> QED BY <3>1, <3>2 DEF AskedAre
    <2>10. AwaitedAre(requests, n, next)
      <3>1. next.steps \in Seq(Step)
        BY <2>5 DEF Run
      <3>2. Behind(next) = 0
        BY <2>4, <3>1 DEF Behind
      <3> QED BY <3>2 DEF AwaitedAre
    <2>11. \A x \in DOMAIN runs' :
               Story(sent'[x], runs'[x]) /\ AskedAre(requests', x, sent'[x])
                   /\ AwaitedAre(requests', x, runs'[x])
      BY <1>1, <2>3, <2>6, <2>9, <2>10 DEF RunsInv
    <2>12. RunsInv'
      BY <2>6, <2>8, <2>11 DEF RunsInv, S
    <2>13. Len(runs') = Len(runs) + 1 /\ Len(runs') \in DOMAIN runs'
      BY <2>6
    <2> QED BY <2>1, <2>2, <2>7, <2>12, <2>13
  <1> QED BY <1>2, <1>3

(* An answer is recorded for a request that was sent.                      *)
LEMMA RespondRuns ==
    ASSUME RunsInv, NEW c \in Callers, NEW q \in DOMAIN requests, NEW answer \in Answers,
           Respond(c, q, answer)
    PROVE  RunsInv' /\ PlansStay
  <1>1. UNCHANGED <<runs, sent>> /\ requests' = [requests EXCEPT ![q] = answer]
    BY DEF Respond
  <1>2. DOMAIN requests' = DOMAIN requests /\ RequestsStay
    BY <1>1, MockAssumption DEF RequestsStay
  <1>3. RequestsType'
    BY <1>1, <1>2 DEF RunsInv, RequestsType
  <1>4. PlansStay
    BY <1>1 DEF PlansStay
  <1>5. ASSUME NEW x \in DOMAIN runs
        PROVE  /\ Story(sent[x], runs[x]) /\ AskedAre(requests', x, sent[x])
               /\ AwaitedAre(requests', x, runs[x])
    <2>1. Story(sent[x], runs[x]) /\ AskedAre(requests, x, sent[x]) /\ AwaitedAre(requests, x, runs[x])
      BY DEF RunsInv
    <2>2. \A step : Replied(requests, x, step) => Replied(requests', x, step)
      BY <1>2, AnswersStay
    <2> QED BY <1>2, <2>1, <2>2 DEF AskedAre, AwaitedAre
  <1>6. \A x \in DOMAIN runs' :
            Story(sent'[x], runs'[x]) /\ AskedAre(requests', x, sent'[x])
                /\ AwaitedAre(requests', x, runs'[x])
    BY <1>1, <1>5
  <1> QED BY <1>1, <1>3, <1>4, <1>6 DEF RunsInv

-----------------------------------------------------------------------------
(* The calls, and the places that they hold.                               *)

PlacesInv ==
    /\ buffered \in Nat /\ buffered + Permits <= Capacity
    /\ Len(runs) + Cardinality(Starting) <= MaxRuns

(* Two sets that differ in one element at most.                            *)
LEMMA CountMoves ==
    ASSUME NEW S, IsFiniteSet(S), NEW T, NEW c, S \ {c} = T \ {c}
    PROVE  /\ IsFiniteSet(T) /\ Cardinality(S) \in Nat /\ Cardinality(T) \in Nat
           /\ c \in S /\ c \in T => Cardinality(T) = Cardinality(S)
           /\ c \in S /\ c \notin T => Cardinality(T) = Cardinality(S) - 1
           /\ c \notin S /\ c \in T => Cardinality(T) = Cardinality(S) + 1
           /\ c \notin S /\ c \notin T => Cardinality(T) = Cardinality(S)
  <1>1. /\ IsFiniteSet(S \ {c}) /\ Cardinality(S) \in Nat
        /\ Cardinality(S \ {c}) = IF c \in S THEN Cardinality(S) - 1 ELSE Cardinality(S)
    BY FS_RemoveElement, FS_CardinalityType
  <1>2. CASE c \in T
    <2>1. T = (S \ {c}) \cup {c}
      BY <1>2
    <2>2. IsFiniteSet(T) /\ Cardinality(T) = Cardinality(S \ {c}) + 1
      BY <1>1, <2>1, FS_AddElement
    <2>3. Cardinality(T) \in Nat
      BY <2>2, FS_CardinalityType
    <2> QED BY <1>1, <1>2, <2>2, <2>3
  <1>3. CASE c \notin T
    <2>1. T = S \ {c}
      BY <1>3
    <2>2. Cardinality(T) \in Nat
      BY <1>1, <2>1, FS_CardinalityType
    <2> QED BY <1>1, <1>3, <2>1, <2>2
  <1> QED BY <1>2, <1>3

(* What one call's move does to the permits and to the starts in flight.   *)
LEMMA PlacesMove ==
    ASSUME CallsInv, NEW c \in Callers, NEW x, call' = [call EXCEPT ![c] = x]
    PROVE  /\ Permits \in Nat /\ Permits' \in Nat
           /\ At(c, "commit") /\ x.at = "commit" => Permits' = Permits
           /\ At(c, "commit") /\ x.at # "commit" => Permits' = Permits - 1
           /\ ~At(c, "commit") /\ x.at = "commit" => Permits' = Permits + 1
           /\ ~At(c, "commit") /\ x.at # "commit" => Permits' = Permits
           /\ Cardinality(Starting) \in Nat /\ Cardinality(Starting') \in Nat
           /\ LET starts == x.at # "idle" /\ x.kind = "start" IN
              /\ c \in Starting /\ starts => Cardinality(Starting') = Cardinality(Starting)
              /\ c \in Starting /\ ~starts => Cardinality(Starting') = Cardinality(Starting) - 1
              /\ c \notin Starting /\ starts => Cardinality(Starting') = Cardinality(Starting) + 1
              /\ c \notin Starting /\ ~starts => Cardinality(Starting') = Cardinality(Starting)
  <1> DEFINE S == {d \in Callers : At(d, "commit")}
             T == {d \in Callers : call'[d].at = "commit"}
             U == Starting
             V == {d \in Callers : call'[d].at # "idle" /\ call'[d].kind = "start"}
  <1>1. IsFiniteSet(Callers)
    BY MockAssumption
  <1>2. IsFiniteSet(S) /\ IsFiniteSet(U)
    <2>1. S \subseteq Callers /\ U \subseteq Callers
      BY DEF Starting
    <2> QED BY <1>1, <2>1, FS_Subset
  <1>3. call'[c] = x /\ \A d \in Callers \ {c} : call'[d] = call[d]
    BY DEF CallsInv
  <1>4. S \ {c} = T \ {c} /\ (c \in S <=> At(c, "commit")) /\ (c \in T <=> x.at = "commit")
    BY <1>3 DEF At
  <1>5. U \ {c} = V \ {c} /\ (c \in V <=> x.at # "idle" /\ x.kind = "start")
    BY <1>3 DEF At, Starting
  <1>6. Permits = Cardinality(S) /\ Permits' = Cardinality(T) /\ Starting' = V
    BY DEF Permits, At, Starting
  <1> HIDE DEF S, T, U, V
  <1>7. /\ Permits \in Nat /\ Permits' \in Nat
        /\ At(c, "commit") /\ x.at = "commit" => Permits' = Permits
        /\ At(c, "commit") /\ x.at # "commit" => Permits' = Permits - 1
        /\ ~At(c, "commit") /\ x.at = "commit" => Permits' = Permits + 1
        /\ ~At(c, "commit") /\ x.at # "commit" => Permits' = Permits
    BY <1>2, <1>4, <1>6, CountMoves
  <1>8. /\ Cardinality(U) \in Nat /\ Cardinality(V) \in Nat
        /\ c \in U /\ c \in V => Cardinality(V) = Cardinality(U)
        /\ c \in U /\ c \notin V => Cardinality(V) = Cardinality(U) - 1
        /\ c \notin U /\ c \in V => Cardinality(V) = Cardinality(U) + 1
        /\ c \notin U /\ c \notin V => Cardinality(V) = Cardinality(U)
    BY <1>2, <1>5, CountMoves
  <1> QED BY <1>5, <1>6, <1>7, <1>8 DEF U

(* A call that goes on, or starts, still knows of a run.                   *)
LEMMA CallsMove ==
    ASSUME RunsInv, CallsInv, PlansStay, NEW c \in Callers, NEW x \in Call, CallFits(runs', x),
           call' = [call EXCEPT ![c] = x]
    PROVE  CallsInv'
  <1>1. call'[c] = x /\ \A d \in Callers \ {c} : call'[d] = call[d]
    BY DEF CallsInv
  <1>2. call' \in [Callers -> Call]
    BY DEF CallsInv
  <1>3. ASSUME NEW d \in Callers, d # c PROVE CallFits(runs', call[d])
    <2>1. CallFits(runs, call[d])
      BY DEF CallsInv
    <2> QED BY <2>1 DEF CallFits, PlansStay
  <1>4. \A d \in Callers : CallFits(runs', call'[d])
    BY <1>1, <1>3
  <1> QED BY <1>2, <1>4 DEF CallsInv

(* It has no permit after that; it had one if an event was sent.           *)
LEMMA CallStep ==
    ASSUME RunsInv, CallsInv, PlacesInv, PlansStay, Len(runs') = Len(runs),
           NEW c \in Callers, NEW x \in Call, CallFits(runs', x),
           call' = [call EXCEPT ![c] = x],
           x.at # "commit", x.at # "idle" /\ x.kind = "start" => c \in Starting,
           \/ buffered' = buffered
           \/ At(c, "commit") /\ buffered' = buffered + 1
    PROVE  CallsInv' /\ PlacesInv'
  <1>1. CallsInv'
    BY CallsMove
  <1>2. /\ Permits \in Nat /\ Permits' \in Nat
        /\ At(c, "commit") => Permits' = Permits - 1
        /\ ~At(c, "commit") => Permits' = Permits
    BY PlacesMove
  <1>3. /\ Cardinality(Starting) \in Nat /\ Cardinality(Starting') \in Nat
        /\ Cardinality(Starting') <= Cardinality(Starting)
    <2> DEFINE starts == x.at # "idle" /\ x.kind = "start"
               before == Cardinality(Starting)
               after == Cardinality(Starting')
    <2>1. /\ before \in Nat /\ after \in Nat /\ (starts => c \in Starting)
          /\ c \in Starting /\ starts => after = before
          /\ c \in Starting /\ ~starts => after = before - 1
          /\ c \notin Starting /\ ~starts => after = before
      BY PlacesMove
    <2> HIDE DEF starts, before, after
    <2>2. after <= before
      BY <2>1
    <2> QED BY <2>1, <2>2 DEF before, after
  <1>4. buffered' \in Nat /\ buffered' + Permits' <= Capacity
    BY <1>2, MockAssumption DEF PlacesInv
  <1>5. Len(runs) \in Nat
    BY DEF RunsInv
  <1>6. Len(runs') + Cardinality(Starting') <= MaxRuns
    BY <1>3, <1>5, MockAssumption DEF PlacesInv
  <1> QED BY <1>1, <1>4, <1>6 DEF PlacesInv

(* The record of a call that is under way.                                 *)
Under ==
    [at : {"check", "flush", "look", "reserve", "commit"},
     kind : {"start", "drive", "steer", "interrupt"}, run : 1..MaxRuns \cup {None},
     release : BOOLEAN, delivery : Delivery \cup {None}, step : Step \cup {None}]

(* What is known of a call by where it is.                                 *)
LEMMA UnderWay ==
    ASSUME CallsInv, NEW c \in Callers
    PROVE  /\ ~At(c, "idle") => call[c] \in Under
           /\ Under \subseteq Call /\ Idle \in Call /\ Idle.at = "idle"
           /\ At(c, "idle") => c \notin Starting
           /\ ~At(c, "idle") => (c \in Starting <=> call[c].kind = "start")
           /\ CallFits(runs, call[c])
  BY DEF Under, Call, Idle, CallsInv, At, Starting

(* A call returns, or is dropped, and gives its place back.                *)
LEMMA ReturnsKeeps ==
    ASSUME RunsInv, CallsInv, PlacesInv, PlansStay, Len(runs') = Len(runs),
           NEW c \in Callers, call' = [call EXCEPT ![c] = Idle],
           \/ buffered' = buffered
           \/ At(c, "commit") /\ buffered' = buffered + 1
    PROVE  CallsInv' /\ PlacesInv'
  <1>1. Idle \in Call /\ CallFits(runs', Idle) /\ Idle.at = "idle"
    BY UnderWay DEF CallFits, Idle
  <1> QED BY <1>1, CallStep

(* A call begins again, or goes on without a place.                        *)
LEMMA GoesKeeps ==
    ASSUME RunsInv, CallsInv, PlacesInv, PlansStay, Len(runs') = Len(runs),
           NEW c \in Callers, NEW at \in {"flush", "look"},
           ~At(c, "idle"), call[c].kind # "start", Goes(c, at),
           \/ buffered' = buffered
           \/ At(c, "commit") /\ buffered' = buffered + 1
    PROVE  CallsInv' /\ PlacesInv'
  <1> DEFINE x == [call[c] EXCEPT !.at = at, !.delivery = None, !.step = None]
  <1>1. call[c] \in Under /\ CallFits(runs, call[c]) /\ Under \subseteq Call
    BY UnderWay
  <1>2. /\ x \in Under /\ x.at = at /\ x.kind = call[c].kind /\ x.run = call[c].run
        /\ x.release = call[c].release /\ x.delivery = None /\ x.step = None
    BY <1>1 DEF Under
  <1>3. call' = [call EXCEPT ![c] = x]
    BY DEF Goes
  <1> HIDE DEF x
  <1>4. CallFits(runs', x)
    BY <1>1, <1>2 DEF CallFits, At, PlansStay
  <1> QED BY <1>1, <1>2, <1>3, <1>4, CallStep

(* A call waits for a place for what it has seen.                          *)
LEMMA SeesKeeps ==
    ASSUME RunsInv, CallsInv, PlacesInv, PlansStay, Len(runs') = Len(runs), buffered' = buffered,
           NEW c \in Callers, NEW delivery \in Delivery \cup {None}, NEW step \in Step \cup {None},
           ~At(c, "idle"), Sees(c, delivery, step),
           step # None => step.kind # "await",
           call[c].kind = "start" => delivery = None /\ step = None
    PROVE  CallsInv' /\ PlacesInv'
  <1> DEFINE x == [call[c] EXCEPT !.at = "reserve", !.delivery = delivery, !.step = step]
  <1>1. call[c] \in Under /\ CallFits(runs, call[c]) /\ Under \subseteq Call
        /\ (c \in Starting <=> call[c].kind = "start")
    BY UnderWay
  <1>2. /\ x \in Under /\ x.at = "reserve" /\ x.kind = call[c].kind /\ x.run = call[c].run
        /\ x.release = call[c].release /\ x.delivery = delivery /\ x.step = step
    BY <1>1 DEF Under
  <1>3. call' = [call EXCEPT ![c] = x]
    BY DEF Sees
  <1> HIDE DEF x
  <1>4. CallFits(runs', x)
    BY <1>1, <1>2 DEF CallFits, At, PlansStay
  <1> QED BY <1>1, <1>2, <1>3, <1>4, CallStep

(* A call about a run begins.                                              *)
LEMMA EntersKeeps ==
    ASSUME RunsInv, CallsInv, PlacesInv, PlansStay, Len(runs') = Len(runs), buffered' = buffered,
           NEW c \in Callers, NEW kind \in {"drive", "steer", "interrupt"},
           NEW r \in DOMAIN runs, NEW release \in BOOLEAN,
           Enters(c, "flush", kind, r, release),
           release => runs[r].plan.fault = "delay"
    PROVE  CallsInv' /\ PlacesInv'
  <1> DEFINE x == [at |-> "flush", kind |-> kind, run |-> r, release |-> release,
                   delivery |-> None, step |-> None]
  <1>1. Under \subseteq Call
    BY UnderWay
  <1>2. r \in 1..MaxRuns
    <2>1. Cardinality(Starting) \in Nat
      BY PlacesMove DEF Enters
    <2> QED BY <2>1, MockAssumption DEF PlacesInv, RunsInv
  <1>3. x \in Under
    BY <1>2 DEF Under
  <1>4. CallFits(runs', x)
    BY DEF CallFits, PlansStay
  <1>5. call' = [call EXCEPT ![c] = x]
    BY DEF Enters
  <1>6. x.at = "flush" /\ x.kind # "start"
    OBVIOUS
  <1> HIDE DEF x
  <1> QED BY <1>1, <1>3, <1>4, <1>5, <1>6, CallStep

-----------------------------------------------------------------------------
(* The inductive invariant.                                                *)

RestType == plans \in Seq(Plan) /\ refusals \in 0..MaxRefusals /\ calls \in 0..MaxCalls

ProviderInv == RunsInv /\ CallsInv /\ PlacesInv /\ RestType

(* There are finitely many permits and starts.                             *)
LEMMA PlacesCount ==
    /\ Permits \in Nat
    /\ Cardinality(Starting) \in Nat
  <1>1. /\ {c \in Callers : At(c, "commit")} \subseteq Callers /\ Starting \subseteq Callers
    BY DEF Starting
  <1>2. /\ IsFiniteSet({c \in Callers : At(c, "commit")}) /\ IsFiniteSet(Starting)
    BY <1>1, MockAssumption, FS_Subset
  <1> QED BY <1>2, FS_CardinalityType DEF Permits

(* The invariant says what the property says.                              *)
LEMMA InvFollows == ProviderInv => ScriptsAreFollowed
  <1> SUFFICES ASSUME ProviderInv PROVE ScriptsAreFollowed
    OBVIOUS
  <1>1. RunsInv /\ CallsInv /\ PlacesInv /\ RestType
    BY DEF ProviderInv
  <1>2. Len(runs) \in Nat /\ Len(runs) <= MaxRuns /\ DOMAIN runs \subseteq 1..MaxRuns
    <2>1. Len(runs) \in Nat /\ DOMAIN runs = 1..Len(runs)
      BY <1>1 DEF RunsInv
    <2>2. Len(runs) <= MaxRuns
      BY <1>1, <2>1, PlacesCount, MockAssumption DEF PlacesInv
    <2> QED BY <2>1, <2>2, MockAssumption
  <1>3. buffered \in 0..Capacity
    BY <1>1, PlacesCount, MockAssumption DEF PlacesInv
  <1>4. DOMAIN requests \subseteq (1..MaxRuns) \X Ids
    BY <1>1, <1>2 DEF RunsInv, RequestsType
  <1>5. TypeOK
    BY <1>1, <1>2, <1>3, <1>4 DEF TypeOK, RunsInv, RequestsType, CallsInv, RestType, Event
  <1> QED BY <1>1, <1>5, RunsFollow DEF ScriptsAreFollowed

(* The invariant holds before the first call.                              *)
LEMMA InvInit == Init => ProviderInv
  <1> SUFFICES ASSUME Init PROVE ProviderInv
    OBVIOUS
  <1> USE DEF Init
  <1>1. RunsInv
    <2> DEFINE S == Seq(Event)
    <2>1. /\ <<>> \in Seq(Run) /\ <<>> \in Seq(S) /\ Len(<<>>) = 0 /\ DOMAIN <<>> = {}
      OBVIOUS
    <2> QED BY <2>1 DEF RunsInv, RequestsType
  <1>2. CallsInv
    BY DEF CallsInv, Call, CallFits, Idle
  <1>3. PlacesInv
    <2>1. Permits = 0 /\ Cardinality(Starting) = 0
      <3>1. {c \in Callers : At(c, "commit")} = {} /\ Starting = {}
        BY DEF At, Starting, Idle
      <3> QED BY <3>1, FS_EmptySet DEF Permits
    <2> QED BY <2>1, MockAssumption DEF PlacesInv
  <1>4. RestType
    BY MockAssumption DEF RestType
  <1> QED BY <1>1, <1>2, <1>3, <1>4 DEF ProviderInv

(* Nothing happens to the runs.                                            *)
LEMMA Looking ==
    ASSUME RunsInv, Looks
    PROVE  RunsInv' /\ PlansStay /\ Len(runs') = Len(runs) /\ buffered' = buffered
           /\ UNCHANGED <<plans, refusals>>
  BY RunsKept DEF Looks

(* Every step of a caller and of the subscriber keeps the invariant.       *)
LEMMA InvStep == ProviderInv /\ [Next]_vars => ProviderInv'
  <1> SUFFICES ASSUME ProviderInv, [Next]_vars PROVE ProviderInv'
    OBVIOUS
  <1>0. RunsInv /\ CallsInv /\ PlacesInv /\ RestType
    BY DEF ProviderInv
  <1>1. ASSUME RunsInv', CallsInv' /\ PlacesInv', UNCHANGED calls, UNCHANGED <<plans, refusals>>
        PROVE  ProviderInv'
    BY <1>0, <1>1 DEF ProviderInv, RestType
  <1>2. CASE UNCHANGED vars
    <2>1. Permits' = Permits /\ Starting' = Starting
      BY <1>2 DEF vars, Permits, Starting, At
    <2>2. RunsInv'
      BY <1>0, <1>2, RunsKept DEF vars
    <2>3. CallsInv' /\ PlacesInv'
      BY <1>0, <1>2, <2>1 DEF vars, CallsInv, PlacesInv
    <2> QED BY <1>1, <1>2, <2>2, <2>3 DEF vars
  <1>3. CASE Receive
    <2>1. Permits' = Permits /\ Starting' = Starting /\ Permits \in Nat
      BY <1>3, PlacesCount DEF Receive, Permits, Starting, At
    <2>2. RunsInv'
      BY <1>0, <1>3, RunsKept DEF Receive
    <2>3. CallsInv' /\ PlacesInv'
      BY <1>0, <1>3, <2>1, MockAssumption DEF Receive, CallsInv, PlacesInv
    <2> QED BY <1>1, <1>3, <2>2, <2>3 DEF Receive
  <1>4. ASSUME NEW c \in Callers, StartRun(c) PROVE ProviderInv'
    <2> DEFINE x == [at |-> "check", kind |-> "start", run |-> None, release |-> FALSE,
                     delivery |-> None, step |-> None]
    <2>1. /\ call' = [call EXCEPT ![c] = x] /\ calls' = calls + 1 /\ calls < MaxCalls
          /\ At(c, "idle") /\ Looks /\ Len(runs) + Cardinality(Starting) < MaxRuns
      BY <1>4 DEF StartRun, Enters
    <2>2. /\ RunsInv' /\ PlansStay /\ Len(runs') = Len(runs) /\ buffered' = buffered
          /\ UNCHANGED <<plans, refusals>>
      BY <1>0, <2>1, Looking
    <2>3. x \in Under
      BY DEF Under
    <2>4. x \in Call /\ CallFits(runs', x) /\ x.at = "check" /\ x.kind = "start"
      BY <1>0, <2>3, UnderWay DEF CallFits
    <2> HIDE DEF x
    <2>5. CallsInv'
      BY <1>0, <2>1, <2>2, <2>4, CallsMove
    <2>6. Permits' = Permits /\ Cardinality(Starting') = Cardinality(Starting) + 1
      <3>1. c \notin Starting /\ ~At(c, "commit")
        BY <2>1 DEF Starting, At
      <3> QED BY <1>0, <2>1, <2>4, <3>1, PlacesMove
    <2>7. PlacesInv'
      <3>1. Len(runs) \in Nat /\ Cardinality(Starting) \in Nat
        BY <1>0, PlacesCount DEF RunsInv
      <3>2. Len(runs') + Cardinality(Starting') <= MaxRuns
        BY <2>1, <2>2, <2>6, <3>1, MockAssumption
      <3> QED BY <1>0, <2>2, <2>6, <3>2 DEF PlacesInv
    <2>8. RestType'
      BY <1>0, <2>1, <2>2, MockAssumption DEF RestType
    <2> QED BY <2>2, <2>5, <2>7, <2>8 DEF ProviderInv
  <1>5. ASSUME NEW c \in Callers, Refuse(c) PROVE ProviderInv'
    <2>1. Permits' = Permits /\ Starting' = Starting
      BY <1>5 DEF Refuse, Permits, Starting, At
    <2>2. RunsInv'
      BY <1>0, <1>5, RunsKept DEF Refuse
    <2>3. CallsInv' /\ PlacesInv'
      BY <1>0, <1>5, <2>1 DEF Refuse, CallsInv, PlacesInv
    <2>4. RestType'
      BY <1>0, <1>5, MockAssumption DEF Refuse, RestType
    <2> QED BY <2>2, <2>3, <2>4 DEF ProviderInv
  <1>6. ASSUME RunsInv', PlansStay, Len(runs') = Len(runs), buffered' = buffered,
               UNCHANGED <<plans, refusals>>,
               NEW c \in Callers, NEW kind \in {"drive", "steer", "interrupt"},
               NEW r \in DOMAIN runs, NEW release \in BOOLEAN,
               Enters(c, "flush", kind, r, release),
               release => runs[r].plan.fault = "delay"
        PROVE  ProviderInv'
    <2>1. CallsInv' /\ PlacesInv'
      BY <1>0, <1>6, EntersKeeps
    <2>2. RestType'
      BY <1>0, <1>6, MockAssumption DEF Enters, RestType
    <2> QED BY <1>6, <2>1, <2>2 DEF ProviderInv
  <1>7. ASSUME NEW c \in Callers, Release(c) PROVE ProviderInv'
    <2>1. PICK r \in DOMAIN runs : runs[r].delayed /\ Enters(c, "flush", "drive", r, TRUE)
      BY <1>7 DEF Release
    <2>2. runs[r].plan.fault = "delay"
      BY <1>0, <2>1, RunOf DEF Story, FaultInv
    <2>3. Looks
      BY <1>7 DEF Release
    <2> QED BY <1>0, <1>6, <2>1, <2>2, <2>3, Looking
  <1>8. ASSUME NEW c \in Callers, NEW q \in DOMAIN requests, NEW answer \in Answers,
               Respond(c, q, answer)
        PROVE  ProviderInv'
    <2>1. RunsInv' /\ PlansStay
      BY <1>0, <1>8, RespondRuns
    <2>2. q[1] \in DOMAIN runs
      BY <1>0 DEF RunsInv, RequestsType
    <2>3. /\ UNCHANGED <<plans, runs, buffered, refusals>>
          /\ Enters(c, "flush", "drive", q[1], FALSE)
      BY <1>8 DEF Respond
    <2> QED BY <1>6, <2>1, <2>2, <2>3
  <1>9. ASSUME NEW c \in Callers, NEW kind \in {"steer", "interrupt"}, NEW r, Control(c, kind, r)
        PROVE  ProviderInv'
    <2>1. r \in DOMAIN runs /\ Enters(c, "flush", kind, r, FALSE) /\ Looks
      BY <1>9 DEF Control
    <2> QED BY <1>0, <1>6, <2>1, Looking
  <1>10. ASSUME NEW c \in Callers, Cancel(c) PROVE ProviderInv'
    <2>1. Looks /\ call' = [call EXCEPT ![c] = Idle] /\ UNCHANGED calls
      BY <1>10 DEF Cancel, Returns
    <2> QED BY <1>0, <1>1, <2>1, Looking, ReturnsKeeps
  <1>11. ASSUME NEW c \in Callers, Check(c) PROVE ProviderInv'
    <2>1. Looks /\ ~At(c, "idle") /\ (Returns(c) \/ Sees(c, None, None))
      BY <1>11 DEF Check, At
    <2>2. CASE Returns(c)
      BY <1>0, <1>1, <2>1, <2>2, Looking, ReturnsKeeps DEF Returns
    <2>3. CASE Sees(c, None, None)
      <3>1. UNCHANGED calls
        BY <2>3 DEF Sees
      <3> QED BY <1>0, <1>1, <2>1, <2>3, <3>1, Looking, SeesKeeps
    <2> QED BY <2>1, <2>2, <2>3
  <1>12. ASSUME NEW c \in Callers, Reserve(c) PROVE ProviderInv'
    <2> DEFINE x == [call[c] EXCEPT !.at = "commit"]
    <2>1. /\ Looks /\ UNCHANGED calls /\ At(c, "reserve") /\ buffered + Permits < Capacity
          /\ call' = [call EXCEPT ![c] = x]
      BY <1>12 DEF Reserve
    <2>2. /\ RunsInv' /\ PlansStay /\ Len(runs') = Len(runs) /\ buffered' = buffered
          /\ UNCHANGED <<plans, refusals>>
      BY <1>0, <2>1, Looking
    <2>3. /\ call[c] \in Under /\ CallFits(runs, call[c]) /\ Under \subseteq Call
          /\ (c \in Starting <=> call[c].kind = "start")
      BY <1>0, <2>1, UnderWay DEF At
    <2>4. /\ x \in Under /\ x.at = "commit" /\ x.kind = call[c].kind /\ x.run = call[c].run
          /\ x.release = call[c].release /\ x.delivery = call[c].delivery /\ x.step = call[c].step
      BY <2>3 DEF Under
    <2> HIDE DEF x
    <2>5. CallFits(runs', x)
      BY <2>1, <2>2, <2>3, <2>4 DEF CallFits, At, PlansStay
    <2>6. CallsInv'
      BY <1>0, <2>1, <2>2, <2>3, <2>4, <2>5, CallsMove
    <2>7. Permits' = Permits + 1 /\ Permits \in Nat
      BY <1>0, <2>1, <2>4, PlacesMove DEF At
    <2>8. Cardinality(Starting') = Cardinality(Starting)
      <3>1. c \in Starting <=> x.at # "idle" /\ x.kind = "start"
        BY <2>3, <2>4
      <3> QED BY <1>0, <2>1, <3>1, PlacesMove
    <2>9. PlacesInv'
      BY <1>0, <2>1, <2>2, <2>7, <2>8, MockAssumption DEF PlacesInv
    <2> QED BY <1>1, <2>1, <2>2, <2>6, <2>9
  <1>13. ASSUME NEW c \in Callers, CommitStart(c) PROVE ProviderInv'
    <2>1. /\ RunsInv' /\ PlansStay /\ plans' \in Seq(Plan)
          /\ \/ UNCHANGED <<runs, sent, buffered>> /\ call' = [call EXCEPT ![c] = Idle]
             \/ /\ Len(runs') = Len(runs) + 1 /\ Len(runs') \in DOMAIN runs'
                /\ buffered' = buffered + 1
                /\ call' = [call EXCEPT ![c] =
                       IF NextPlan.fault = "never" THEN Idle
                       ELSE [@ EXCEPT !.at = "flush", !.kind = "drive", !.run = Len(runs')]]
      BY <1>0, <1>13, CommitStartRuns DEF RestType
    <2>2. RestType'
      BY <1>0, <1>13, <2>1 DEF CommitStart, RestType, Returns
    <2>3. CASE UNCHANGED <<runs, sent, buffered>> /\ call' = [call EXCEPT ![c] = Idle]
      <3>1. CallsInv' /\ PlacesInv'
        BY <1>0, <2>1, <2>3, ReturnsKeeps
      <3> QED BY <2>1, <2>2, <3>1 DEF ProviderInv
    <2>4. CASE /\ Len(runs') = Len(runs) + 1 /\ Len(runs') \in DOMAIN runs'
               /\ buffered' = buffered + 1
               /\ call' = [call EXCEPT ![c] =
                       IF NextPlan.fault = "never" THEN Idle
                       ELSE [@ EXCEPT !.at = "flush", !.kind = "drive", !.run = Len(runs')]]
      <3> DEFINE n == Len(runs')
                 x == IF NextPlan.fault = "never" THEN Idle
                      ELSE [call[c] EXCEPT !.at = "flush", !.kind = "drive", !.run = n]
      <3>1. /\ call[c] \in Under /\ CallFits(runs, call[c]) /\ Under \subseteq Call
            /\ c \in Starting /\ At(c, "commit") /\ call[c].kind = "start"
            /\ Idle \in Call /\ Idle.at = "idle"
        BY <1>0, <1>13, UnderWay DEF CommitStart, At
      <3>2. /\ Len(runs) \in Nat /\ Cardinality(Starting) \in Nat /\ Permits \in Nat
        BY <1>0, PlacesCount DEF RunsInv
      <3>3. call' = [call EXCEPT ![c] = x] /\ n = Len(runs) + 1 /\ n \in DOMAIN runs'
        BY <2>4
      <3>4. x.at # "commit" /\ (x.at # "idle" => x.kind # "start") /\ x.at \in {"idle", "flush"}
        BY <3>1 DEF Under
      <3>5. Permits' = Permits - 1 /\ Cardinality(Starting') = Cardinality(Starting) - 1
            /\ Cardinality(Starting') \in Nat /\ Permits' \in Nat
        <4> HIDE DEF x
        <4> QED BY <1>0, <3>1, <3>3, <3>4, PlacesMove
      <3>6. PlacesInv'
        <4>1. Len(runs') = Len(runs) + 1 /\ buffered' = buffered + 1
          BY <2>4
        <4>2. /\ buffered \in Nat /\ buffered + Permits <= Capacity
              /\ Len(runs) + Cardinality(Starting) <= MaxRuns
          BY <1>0 DEF PlacesInv
        <4>3. Capacity \in Nat /\ MaxRuns \in Nat
          BY MockAssumption
        <4>4. buffered' \in Nat /\ buffered' + Permits' <= Capacity
          BY <3>2, <3>5, <4>1, <4>2, <4>3
        <4>5. Len(runs') + Cardinality(Starting') <= MaxRuns
          BY <3>2, <3>5, <4>1, <4>2, <4>3
        <4> QED BY <4>4, <4>5 DEF PlacesInv
      <3>7. x \in Call
        <4>1. n \in 1..MaxRuns
          BY <3>2, <3>3, <3>5, <3>6, MockAssumption DEF PlacesInv
        <4> HIDE DEF n
        <4>2. [call[c] EXCEPT !.at = "flush", !.kind = "drive", !.run = n] \in Under
          BY <3>1, <4>1 DEF Under
        <4> QED BY <3>1, <4>2
      <3>8. CallFits(runs', x)
        <4>1. CASE NextPlan.fault = "never"
          BY <3>1, <4>1 DEF CallFits
        <4>2. CASE NextPlan.fault # "never"
          <5> HIDE DEF n
          <5>1. /\ x.kind = "drive" /\ x.run = n /\ x.release = call[c].release
                /\ x.step = call[c].step
            BY <3>1, <4>2 DEF Under
          <5>2. ~call[c].release /\ call[c].step = None
            BY <3>1 DEF CallFits, At
          <5> HIDE DEF x
          <5> QED BY <3>3, <5>1, <5>2 DEF CallFits
        <4> QED BY <4>1, <4>2
      <3>9. CallsInv'
        <4> HIDE DEF x
        <4> QED BY <1>0, <2>1, <3>3, <3>7, <3>8, CallsMove
      <3> QED BY <2>1, <2>2, <3>6, <3>9 DEF ProviderInv
    <2> QED BY <2>1, <2>3, <2>4
  <1>14. ASSUME NEW c \in Callers, Flush(c) PROVE ProviderInv'
    <2> DEFINE pending == runs[call[c].run].pending
    <2>1. /\ Looks /\ ~At(c, "idle") /\ call[c].kind # "start" /\ call[c].run \in DOMAIN runs
          /\ (Goes(c, "look") \/ Sees(c, pending, None))
      BY <1>0, <1>14 DEF Flush, At, CallsInv, CallFits
    <2>2. pending \in Delivery \cup {None}
      <3>1. runs[call[c].run] \in Run
        BY <1>0, <2>1, RunOf
      <3> QED BY <3>1 DEF Run
    <2> HIDE DEF pending
    <2>3. CASE Goes(c, "look")
      <3>1. UNCHANGED calls
        BY <2>3 DEF Goes
      <3> QED BY <1>0, <1>1, <2>1, <2>3, <3>1, Looking, GoesKeeps
    <2>4. CASE Sees(c, pending, None)
      <3>1. UNCHANGED calls
        BY <2>4 DEF Sees
      <3> QED BY <1>0, <1>1, <2>1, <2>2, <2>4, <3>1, Looking, SeesKeeps
    <2> QED BY <2>1, <2>3, <2>4
  <1>15. ASSUME NEW c \in Callers, LookAtRun(c) PROVE ProviderInv'
    <2>1. Looks /\ ~At(c, "idle") /\ call[c].kind # "start" /\ (Returns(c) \/ Sees(c, None, None))
      BY <1>15 DEF LookAtRun, At
    <2>2. CASE Returns(c)
      BY <1>0, <1>1, <2>1, <2>2, Looking, ReturnsKeeps DEF Returns
    <2>3. CASE Sees(c, None, None)
      <3>1. UNCHANGED calls
        BY <2>3 DEF Sees
      <3> QED BY <1>0, <1>1, <2>1, <2>3, <3>1, Looking, SeesKeeps
    <2> QED BY <2>1, <2>2, <2>3
  <1>16. ASSUME RunsInv', PlansStay, Len(runs') = Len(runs), UNCHANGED <<plans, refusals>>,
                NEW c \in Callers, ~At(c, "idle"), call[c].kind # "start",
                Returns(c) \/ Goes(c, "flush"),
                buffered' = buffered \/ (At(c, "commit") /\ buffered' = buffered + 1)
         PROVE  ProviderInv'
    <2>1. UNCHANGED calls
      BY <1>16 DEF Returns, Goes
    <2>2. CASE Returns(c)
      <3>1. CallsInv' /\ PlacesInv'
        BY <1>0, <1>16, <2>2, ReturnsKeeps DEF Returns
      <3> QED BY <1>1, <1>16, <2>1, <3>1
    <2>3. CASE Goes(c, "flush")
      <3>1. CallsInv' /\ PlacesInv'
        BY <1>0, <1>16, <2>3, GoesKeeps
      <3> QED BY <1>1, <1>16, <2>1, <3>1
    <2> QED BY <1>16, <2>2, <2>3
  <1>17. ASSUME RunsInv', NEW r, NEW next, runs' = [runs EXCEPT ![r] = next]
         PROVE  Len(runs') = Len(runs)
    BY <1>0, <1>17 DEF RunsInv
  <1>18. ASSUME NEW c \in Callers, CommitFlush(c) PROVE ProviderInv'
    <2>1. RunsInv' /\ PlansStay
      BY <1>0, <1>18, CommitFlushRuns
    <2>2. /\ ~At(c, "idle") /\ call[c].kind # "start" /\ At(c, "commit")
          /\ UNCHANGED <<plans, refusals>> /\ (Returns(c) \/ Goes(c, "flush"))
          /\ (buffered' = buffered \/ buffered' = buffered + 1)
      BY <1>0, <1>18 DEF CommitFlush, At, CallsInv, CallFits, Delivers, Send
    <2>3. Len(runs') = Len(runs)
      BY <1>17, <1>18, <2>1 DEF CommitFlush, Delivers
    <2> QED BY <1>16, <2>1, <2>2, <2>3
  <1>19. ASSUME NEW c \in Callers, CommitControl(c) PROVE ProviderInv'
    <2>1. RunsInv' /\ PlansStay
      BY <1>0, <1>19, CommitControlRuns
    <2>2. /\ ~At(c, "idle") /\ call[c].kind # "start" /\ At(c, "commit")
          /\ UNCHANGED <<plans, refusals>> /\ (Returns(c) \/ Goes(c, "flush"))
          /\ (buffered' = buffered \/ buffered' = buffered + 1)
      BY <1>19 DEF CommitControl, At, Delivers, Send
    <2>3. Len(runs') = Len(runs)
      BY <1>17, <1>19, <2>1 DEF CommitControl, Delivers
    <2> QED BY <1>16, <2>1, <2>2, <2>3
  <1>20. ASSUME NEW c \in Callers, CommitStep(c) PROVE ProviderInv'
    <2>1. RunsInv' /\ PlansStay
      BY <1>0, <1>20, CommitStepRuns
    <2>2. /\ ~At(c, "idle") /\ call[c].kind # "start" /\ At(c, "commit")
          /\ UNCHANGED <<plans, refusals>> /\ (Returns(c) \/ Goes(c, "flush"))
          /\ (buffered' = buffered \/ buffered' = buffered + 1)
      BY <1>0, <1>20 DEF CommitStep, At, CallsInv, CallFits, Delivers, Send
    <2>3. Len(runs') = Len(runs)
      BY <1>17, <1>20, <2>1 DEF CommitStep, Delivers
    <2> QED BY <1>16, <2>1, <2>2, <2>3
  <1>21. ASSUME NEW c \in Callers, Look(c) PROVE ProviderInv'
    <2> DEFINE r == call[c].run
               run == runs[r]
    <2>1. RunsInv' /\ PlansStay
      BY <1>0, <1>21, LookRuns
    <2>2. /\ ~At(c, "idle") /\ call[c].kind # "start" /\ r \in DOMAIN runs
          /\ UNCHANGED <<plans, refusals>> /\ buffered' = buffered
      BY <1>0, <1>21 DEF Look, At, CallsInv, CallFits
    <2>3. \/ UNCHANGED runs \/ runs' = [runs EXCEPT ![r].delayed = TRUE]
          \/ runs' = [runs EXCEPT ![r].steps = Tail(@)]
      BY <1>21 DEF Look
    <2>4. Len(runs') = Len(runs)
      BY <1>17, <2>1, <2>3
    <2>5. \/ Returns(c) \/ Goes(c, "flush")
          \/ run.steps # <<>> /\ Head(run.steps).kind # "await" /\ Sees(c, None, Head(run.steps))
      BY <1>21 DEF Look
    <2>6. CASE Returns(c) \/ Goes(c, "flush")
      BY <1>16, <2>1, <2>2, <2>4, <2>6
    <2>7. CASE run.steps # <<>> /\ Head(run.steps).kind # "await" /\ Sees(c, None, Head(run.steps))
      <3>1. UNCHANGED calls
        BY <2>7 DEF Sees
      <3>2. Head(run.steps) \in Step \cup {None}
        <4>1. run \in Run
          BY <1>0, <2>2, RunOf
        <4> QED BY <2>7, <4>1 DEF Run
      <3> HIDE DEF run
      <3>3. CallsInv' /\ PlacesInv'
        BY <1>0, <2>1, <2>2, <2>4, <2>7, <3>2, SeesKeeps
      <3> QED BY <1>1, <2>1, <2>2, <3>1, <3>3
    <2> QED BY <2>5, <2>6, <2>7
  <1>22. ASSUME NEW c \in Callers, Polled(c) PROVE ProviderInv'
    BY <1>11, <1>12, <1>13, <1>14, <1>15, <1>18, <1>19, <1>20, <1>21, <1>22 DEF Polled
  <1>23. CASE Next
    BY <1>3, <1>4, <1>5, <1>7, <1>8, <1>9, <1>10, <1>22, <1>23 DEF Next
  <1> QED BY <1>2, <1>23

(* Whatever the calls on a run are, however they interleave and wherever   *)
(* they are dropped: what is sent for a run is its acceptance, the fault   *)
(* of its plan and the script as far as it has gone, in order, each step   *)
(* once, closed by one terminal event; its requests are those it has sent, *)
(* and it goes past the point where it awaits an answer only with one.     *)
(* (start_run, drive_run, flush_pending, respond_to_request, steer,        *)
(* interrupt, release_delayed_approval.)                                   *)
THEOREM ScriptsStayFollowed == Spec => []ScriptsAreFollowed
  <1>1. Init => ProviderInv
    BY InvInit
  <1>2. ProviderInv /\ [Next]_vars => ProviderInv'
    BY InvStep
  <1>3. ProviderInv => ScriptsAreFollowed
    BY InvFollows
  <1> QED BY <1>1, <1>2, <1>3, PTL DEF Spec

=================================================================================
