-------------------------- MODULE ToolLoop_proofs --------------------------
(***************************************************************************)
(* For every alphabet, set of texts, fragment length and number of         *)
(* iterations: what the signer wrapped is recorded, and no tool runs with  *)
(* an argument that quotes it.  The heart is a fact about the gate's       *)
(* fragments: 2 * MinLen - 1 characters in a row always hold a whole one.  *)
(***************************************************************************)
EXTENDS ToolLoop, SequenceTheorems, WellFoundedInduction, TLAPS

(* A set of naturals has a least element.                                  *)
LEMMA LeastExists ==
  ASSUME NEW T \in SUBSET Nat, T # {}
  PROVE  \E x \in T : \A y \in T : x <= y
<1> DEFINE R == OpToRel(<, Nat)
<1>1. IsWellFoundedOn(R, Nat)
  BY NatLessThanWellFounded
<1>2. \A x, y \in Nat : y < x => <<y, x>> \in R
  BY DEF OpToRel
<1> HIDE DEF R
<1>3. \E x \in T : \A y \in T : ~ (<<y, x>> \in R)
  BY <1>1, WFMin
<1>4. \E x \in T : \A y \in T : ~ (y < x)
  BY <1>2, <1>3, Zenon
<1> QED
  BY <1>4

(* What is left of a text after strip is a text.                           *)
LEMMA StripIsText ==
  ASSUME NEW t \in Seq(Chars)
  PROVE  Strip(t) \in Seq(Chars)
<1>1. CASE Solid(t) = {}
  BY <1>1 DEF Strip
<1>2. CASE Solid(t) # {}
  <2> DEFINE first == CHOOSE i \in Solid(t) : \A j \in Solid(t) : i <= j
             last  == CHOOSE i \in Solid(t) : \A j \in Solid(t) : j <= i
  <2>1. Solid(t) \subseteq 1..Len(t)
    BY DEF Solid
  <2>2. first \in Solid(t)
    <3>1. \E i \in Solid(t) : \A j \in Solid(t) : i <= j
      BY <1>2, <2>1, LeastExists
    <3> QED
      BY <3>1
  <2>3. last \in Solid(t)
    <3> DEFINE M == {n \in Nat : \E j \in Solid(t) : n = Len(t) - j}
    <3>1. M # {}
      BY <1>2, <2>1
    <3>2. PICK n \in M : \A m \in M : n <= m
      <4> HIDE DEF M
      <4>1. M \in SUBSET Nat
        BY DEF M
      <4> QED
        BY <3>1, <4>1, LeastExists
    <3>3. PICK i \in Solid(t) : n = Len(t) - i
      BY <3>2
    <3>4. \A j \in Solid(t) : j <= i
      <4>1. \A j \in Solid(t) : Len(t) - j \in M
        BY <2>1
      <4>2. \A j \in Solid(t) : n <= Len(t) - j
        BY <3>2, <4>1
      <4> HIDE DEF M, last
      <4> QED
        BY <2>1, <3>3, <4>2
    <3> QED
      BY <3>3, <3>4
  <2>4. Strip(t) = SubSeq(t, first, last)
    BY <1>2 DEF Strip
  <2> HIDE DEF first, last
  <2>5. first \in 1..Len(t) /\ last \in 1..Len(t)
    BY <2>1, <2>2, <2>3
  <2>6. \A i \in first..last : t[i] \in Chars
    BY <2>5
  <2> QED
    BY <2>4, <2>5, <2>6, SubSeqProperties
<1> QED
  BY <1>1, <1>2

(* Where a piece of a text occurs, every piece of that piece does.         *)
LEMMA PartOccurs ==
  ASSUME NEW v \in Seq(Chars), NEW t \in Seq(Chars),
         NEW i \in Nat, NEW n \in Nat, i + n <= Len(t),
         Occurs(Piece(t, i, n), v),
         NEW j \in Nat, NEW m \in Nat \ {0}, i <= j, j + m <= i + n
  PROVE  Occurs(Piece(t, j, m), v) /\ m <= Len(v)
<1>1. Len(Piece(t, i, n)) = n /\ Len(Piece(t, j, m)) = m
  <2>1. \A k \in (i + 1)..(i + n) : t[k] \in Chars
    OBVIOUS
  <2>2. \A k \in (j + 1)..(j + m) : t[k] \in Chars
    OBVIOUS
  <2> QED
    BY <2>1, <2>2, SubSeqProperties DEF Piece
<1>2. PICK p \in 0..(Len(v) - n) : Piece(v, p, n) = Piece(t, i, n)
  BY <1>1 DEF Occurs
<1> DEFINE q == p + (j - i)
<1>3. q \in 0..(Len(v) - m)
  OBVIOUS
<1>4. Piece(Piece(t, i, n), j - i, m) = Piece(t, j, m)
  <2>1. /\ i + 1 \in 1..Len(t) /\ i + n \in 1..Len(t)
        /\ j - i + 1 \in 1..((i + n) - (i + 1) + 1)
        /\ j - i + m \in 1..((i + n) - (i + 1) + 1)
    OBVIOUS
  <2>2. SubSeq(SubSeq(t, i + 1, i + n), j - i + 1, j - i + m)
          = SubSeq(t, (i + 1) + (j - i + 1) - 1, (i + 1) + (j - i + m) - 1)
    BY <2>1, SubSeqOfSubSeq
  <2>3. (i + 1) + (j - i + 1) - 1 = j + 1 /\ (i + 1) + (j - i + m) - 1 = j + m
    OBVIOUS
  <2> QED
    BY <2>2, <2>3 DEF Piece
<1>5. Piece(Piece(v, p, n), j - i, m) = Piece(v, q, m)
  <2>1. /\ p + 1 \in 1..Len(v) /\ p + n \in 1..Len(v)
        /\ j - i + 1 \in 1..((p + n) - (p + 1) + 1)
        /\ j - i + m \in 1..((p + n) - (p + 1) + 1)
    OBVIOUS
  <2>2. SubSeq(SubSeq(v, p + 1, p + n), j - i + 1, j - i + m)
          = SubSeq(v, (p + 1) + (j - i + 1) - 1, (p + 1) + (j - i + m) - 1)
    BY <2>1, SubSeqOfSubSeq
  <2>3. (p + 1) + (j - i + 1) - 1 = q + 1 /\ (p + 1) + (j - i + m) - 1 = q + m
    OBVIOUS
  <2> QED
    BY <2>2, <2>3 DEF Piece
<1> QED
  BY <1>1, <1>2, <1>3, <1>4, <1>5 DEF Occurs

(* From any place in a text the next multiple of the length is less than   *)
(* the length away.                                                        *)
LEMMA NextMultiple ==
  ASSUME NEW i \in Nat, NEW n \in Nat \ {0}
  PROVE  \E k \in Nat : k <= i /\ i <= k * n /\ k * n <= i + n - 1
<1> DEFINE k == (i + n - 1) \div n
           r == (i + n - 1) % n
<1>1. k \in Nat /\ r \in 0..(n - 1)
  BY Z3
<1>2. i + n - 1 = k * n + r
  BY Z3
<1>3. k * n \in Nat
  BY <1>1, Z3
<1>4. k <= i
  BY Z3
<1> HIDE DEF k, r
<1>5. i <= k * n /\ k * n <= i + n - 1
  BY <1>1, <1>2, <1>3, Z3
<1> QED
  BY <1>1, <1>4, <1>5

(* A value that quotes a recorded text is caught: a text that is quoted    *)
(* whole has its first fragment in it, and 2 * MinLen - 1 characters hold  *)
(* the fragment at the next multiple of MinLen.                            *)
LEMMA QuoteIsGuarded ==
  ASSUME NEW v \in Seq(Chars), NEW t \in Seq(Chars), t \in seen, Quotes(v, t)
  PROVE  Guarded(v)
<1> USE LoopAssumption
<1>1. \A k \in Nat :
        k <= Len(t) /\ (k + 1) * MinLen <= Len(t) =>
          Piece(t, k * MinLen, MinLen) \in Fragments(t)
  BY DEF Fragments
<1>2. CASE Len(t) >= MinLen /\ Occurs(t, v)
  <2>1. Piece(t, 0, Len(t)) = t
    BY SubSeqFull DEF Piece
  <2>2. Occurs(Piece(t, 0, MinLen), v) /\ MinLen <= Len(v)
    <3>1. /\ 0 \in Nat /\ Len(t) \in Nat /\ 0 + Len(t) <= Len(t)
          /\ 0 <= 0 /\ 0 + MinLen <= 0 + Len(t)
      BY <1>2
    <3>2. Occurs(Piece(t, 0, Len(t)), v)
      BY <1>2, <2>1
    <3> QED
      BY <3>1, <3>2, PartOccurs
  <2>3. Piece(t, 0, MinLen) \in Fragments(t)
    <3>1. 0 * MinLen = 0 /\ (0 + 1) * MinLen = MinLen
      OBVIOUS
    <3>2. Piece(t, 0 * MinLen, MinLen) \in Fragments(t)
      BY <1>1, <1>2, <3>1
    <3> QED
      BY <3>1, <3>2
  <2> QED
    BY <2>2, <2>3 DEF Guarded
<1>3. ASSUME NEW i \in 0..Len(t), i + 2 * MinLen - 1 <= Len(t),
             Occurs(Piece(t, i, 2 * MinLen - 1), v)
      PROVE  Guarded(v)
  <2>0. i \in Nat /\ MinLen \in Nat \ {0} /\ 2 * MinLen - 1 \in Nat
    OBVIOUS
  <2>1. PICK k \in Nat : k <= i /\ i <= k * MinLen /\ k * MinLen <= i + MinLen - 1
    BY <2>0, NextMultiple, Zenon
  <2> DEFINE j == k * MinLen
             n == 2 * MinLen - 1
  <2>2. j \in Nat /\ (k + 1) * MinLen = j + MinLen
    OBVIOUS
  <2>3. i <= j /\ j + MinLen <= i + n /\ k <= Len(t)
    BY <2>1, <2>2
  <2>6. n \in Nat /\ i + n <= Len(t) /\ Occurs(Piece(t, i, n), v)
    BY <1>3, <2>0
  <2>7. j + MinLen <= Len(t)
    BY <2>3, <2>6, <2>2
  <2> HIDE DEF j, n
  <2>4. Occurs(Piece(t, j, MinLen), v) /\ MinLen <= Len(v)
    BY <2>0, <2>2, <2>3, <2>6, PartOccurs
  <2>5. Piece(t, j, MinLen) \in Fragments(t)
    <3>1. (k + 1) * MinLen <= Len(t)
      BY <2>2, <2>7
    <3> QED
      BY <1>1, <2>3, <3>1 DEF j
  <2> QED
    BY <2>4, <2>5 DEF Guarded
<1> QED
  BY <1>2, <1>3 DEF Quotes

(* A text with one character at its two ends and another one, everywhere   *)
(* between them; and that middle, quoted by itself.                        *)
Edged(a, b) == [i \in 1..(2 * MinLen) |-> IF i \in {1, 2 * MinLen} THEN b ELSE a]
Middle(a) == [i \in 1..(2 * MinLen - 2) |-> a]

(* The bound of QuoteIsGuarded is sharp for every fragment length: a value *)
(* that has 2 * MinLen - 2 characters of a recorded text in a row, one     *)
(* less, may hold none of its fragments, so the gate lets it through       *)
(* (GuardBandProvenanceGate._arg_is_guarded).                              *)
THEOREM QuoteBoundIsSharp ==
  ASSUME NEW a \in Chars, NEW b \in Chars, a # b, MinLen > 1
  PROVE  /\ Edged(a, b) \in Seq(Chars) /\ Middle(a) \in Seq(Chars)
         /\ Occurs(Piece(Edged(a, b), 1, 2 * MinLen - 2), Middle(a))
         /\ seen = {Edged(a, b)} => ~Guarded(Middle(a))
<1> DEFINE t == Edged(a, b)
           v == Middle(a)
           n == 2 * MinLen - 2
<1> USE LoopAssumption
<1>1. /\ t \in Seq(Chars) /\ Len(t) = 2 * MinLen
      /\ v \in Seq(Chars) /\ Len(v) = n /\ n \in Nat \ {0}
      /\ \A i \in 1..n : v[i] = a
      /\ t[1] = b /\ t[2 * MinLen] = b
      /\ \A i \in 2..(2 * MinLen - 1) : t[i] = a
  BY DEF Edged, Middle
<1> HIDE DEF t, v
<1>2. Piece(t, 1, n) = v /\ Piece(v, 0, n) = v
  <2>1. \A i \in 2..(n + 1) : t[i] \in Chars
    BY <1>1
  <2>2. /\ Piece(t, 1, n) \in Seq(Chars) /\ Len(Piece(t, 1, n)) = n
        /\ \A i \in 1..n : Piece(t, 1, n)[i] = t[i + 1]
    BY <1>1, <2>1, SubSeqProperties DEF Piece
  <2>3. Piece(t, 1, n) = v
    BY <1>1, <2>2, SeqEqual
  <2>4. Piece(v, 0, n) = v
    BY <1>1, SubSeqFull DEF Piece
  <2> QED
    BY <2>3, <2>4
<1>3. Occurs(Piece(t, 1, n), v)
  BY <1>1, <1>2 DEF Occurs
<1>4. ASSUME NEW f \in Fragments(t)
      PROVE  ~Occurs(f, v)
  <2>1. PICK k \in 0..Len(t) : /\ (k + 1) * MinLen <= Len(t)
                               /\ f = Piece(t, k * MinLen, MinLen)
    BY DEF Fragments
  <2>2. k = 0 \/ k = 1
    BY <1>1, <2>1, Z3
  <2>3. /\ k * MinLen \in Nat /\ k * MinLen + MinLen <= Len(t)
        /\ k = 0 => k * MinLen = 0
        /\ k = 1 => k * MinLen = MinLen
    BY <1>1, <2>2
  <2>4. PICK j \in {0, MinLen} :
          Len(f) = MinLen /\ \A i \in 1..MinLen : f[i] = t[j + i]
    <3> DEFINE j == k * MinLen
    <3>1. j \in {0, MinLen} /\ j + MinLen <= Len(t)
      BY <2>2, <2>3
    <3>2. f = SubSeq(t, j + 1, j + MinLen)
      BY <2>1 DEF Piece
    <3> HIDE DEF j
    <3>3. \A i \in (j + 1)..(j + MinLen) : t[i] \in Chars
      BY <1>1, <3>1, SMTT(30)
    <3>4. /\ Len(f) = MinLen
          /\ \A i \in 1..MinLen : f[i] = t[j + i]
      BY <3>1, <3>2, <3>3, SubSeqProperties
    <3> QED
      BY <3>1, <3>4
  <2>5. \E i \in 1..MinLen : f[i] = b
    <3>1. CASE j = 0
      <4>1. 1 \in 1..MinLen /\ f[1] = t[1]
        BY <2>4, <3>1
      <4> QED
        BY <1>1, <4>1
    <3>2. CASE j = MinLen
      <4>1. MinLen \in 1..MinLen /\ f[MinLen] = t[2 * MinLen]
        BY <2>4, <3>2
      <4> QED
        BY <1>1, <4>1
    <3> QED
      BY <3>1, <3>2
  <2>6. ASSUME NEW p \in 0..(Len(v) - MinLen), Piece(v, p, MinLen) = f
        PROVE  FALSE
    <3>0. p \in Nat /\ p + MinLen <= n
      BY <1>1
    <3>1. \A i \in (p + 1)..(p + MinLen) : v[i] \in Chars
      BY <1>1, <3>0
    <3>2. \A i \in 1..MinLen : Piece(v, p, MinLen)[i] = v[p + i]
      BY <1>1, <3>0, <3>1, SubSeqProperties DEF Piece
    <3>3. PICK i \in 1..MinLen : f[i] = b
      BY <2>5
    <3>4. p + i \in 1..n
      BY <3>0
    <3> QED
      BY <1>1, <2>6, <3>2, <3>3, <3>4
  <2> QED
    BY <2>4, <2>6 DEF Occurs
<1>5. seen = {t} => ~Guarded(v)
  BY <1>4 DEF Guarded
<1> QED
  BY <1>1, <1>3, <1>5 DEF t, v

-----------------------------------------------------------------------------
(* Every step keeps the variables in their types.                          *)
LEMMA TypeStep == TypeOK /\ ShownInv /\ [Next]_vars => TypeOK'
<1> SUFFICES ASSUME TypeOK, ShownInv, [Next]_vars PROVE TypeOK'
  OBVIOUS
<1> USE LoopAssumption DEF TypeOK, Stages
<1>1. CASE UNCHANGED vars
  BY <1>1 DEF vars
<1>2. CASE Begin
  BY <1>2 DEF Begin
<1>3. CASE FirstAnswer \/ Answer
  BY <1>3 DEF FirstAnswer, Answer
<1>4. CASE RunTools
  BY <1>4 DEF RunTools
<1>5. CASE Finish \/ Abort
  BY <1>5 DEF Finish, Abort
<1>6. CASE SignResults
  <2>1. \A m \in history :
          ~Skipped(m) => [m EXCEPT !.bands = @ + 1] \in [text : Texts, bands : {0, 1}]
    <3> SUFFICES ASSUME NEW m \in history, ~Skipped(m)
                 PROVE  [m EXCEPT !.bands = @ + 1] \in [text : Texts, bands : {0, 1}]
      OBVIOUS
    <3>1. m \in [text : Texts, bands : {0, 1}] /\ m.bands = 0
      BY DEF Skipped
    <3> QED
      BY <3>1
  <2>2. history' \subseteq [text : Texts, bands : {0, 1}]
    BY <1>6, <2>1 DEF SignResults
  <2>3. \A m \in history : Strip(m.text) \in Seq(Chars)
    BY StripIsText
  <2> QED
    BY <1>6, <2>2, <2>3 DEF SignResults
<1>7. CASE Gate
  BY <1>7 DEF Gate
<1> QED
  BY <1>1, <1>2, <1>3, <1>4, <1>5, <1>6, <1>7 DEF Next

(* Whatever the model has been shown is recorded, whoever runs next.       *)
LEMMA ShownStep == TypeOK /\ ShownInv /\ [Next]_vars => ShownInv'
<1> SUFFICES ASSUME TypeOK, ShownInv, [Next]_vars PROVE ShownInv'
  OBVIOUS
<1> USE DEF TypeOK, ShownInv, Shown
<1>1. CASE UNCHANGED vars
  BY <1>1 DEF vars
<1>2. CASE Begin
  BY <1>2 DEF Begin
<1>3. CASE FirstAnswer
  BY <1>3 DEF FirstAnswer
<1>4. CASE RunTools
  <2>1. \A m \in history' : m \in history \/ m.bands = 0
    BY <1>4 DEF RunTools
  <2> QED
    BY <1>4, <2>1 DEF RunTools
<1>5. CASE Finish \/ Abort
  BY <1>5 DEF Finish, Abort
<1>6. CASE SignResults
  <2> DEFINE Signed(m) == IF Skipped(m) THEN m ELSE [m EXCEPT !.bands = @ + 1]
  <2>1. ASSUME NEW m \in history
        PROVE  /\ Signed(m).text = m.text
               /\ Signed(m).bands > 0 => Strip(m.text) \in seen'
               /\ [Signed(m) EXCEPT !.bands = 0] = [m EXCEPT !.bands = 0]
               /\ Skipped([m EXCEPT !.bands = 0]) => Signed(m).bands = 0
               /\ Signed(m).bands = 1 \/ Skipped([m EXCEPT !.bands = 0])
    <3>0. m \in [text : Texts, bands : {0, 1}]
      BY <2>1
    <3>1. CASE Skipped(m)
      <4>1. m.bands > 0 => Strip(m.text) \in seen
        BY <2>1
      <4>2. m.bands = 0 => Skipped([m EXCEPT !.bands = 0])
        BY <3>0, <3>1 DEF Skipped
      <4>3. Signed(m) = m /\ seen \subseteq seen'
        BY <1>6, <3>1 DEF SignResults
      <4>4. Skipped([m EXCEPT !.bands = 0]) => m.bands = 0
        BY <2>1
      <4> HIDE DEF Signed
      <4> QED
        BY <3>0, <4>1, <4>2, <4>3, <4>4
    <3>2. CASE ~Skipped(m)
      <4>1. m.bands = 0 /\ ~Skipped([m EXCEPT !.bands = 0])
        BY <3>0, <3>2 DEF Skipped
      <4>2. Signed(m) = [text |-> m.text, bands |-> 1]
        BY <3>0, <3>2, <4>1
      <4>3. Strip(m.text) \in seen'
        BY <1>6, <3>2 DEF SignResults
      <4>4. [Signed(m) EXCEPT !.bands = 0] = [m EXCEPT !.bands = 0]
        BY <3>0, <4>2
      <4> HIDE DEF Signed
      <4> QED
        BY <4>1, <4>2, <4>3, <4>4
    <3> QED
      BY <3>1, <3>2
  <2>2. \A n \in history' : \E m \in history : n = Signed(m)
    BY <1>6 DEF SignResults
  <2> HIDE DEF Signed
  <2>3. ASSUME NEW n \in history'
        PROVE  /\ n.bands > 0 => Strip(n.text) \in seen'
               /\ Skipped([n EXCEPT !.bands = 0]) => n.bands = 0
               /\ n.bands = 1 \/ Skipped([n EXCEPT !.bands = 0])
    <3>1. PICK m \in history : n = Signed(m)
      BY <2>2, <2>3
    <3> QED
      BY <2>1, <3>1
  <2>4. stage' = "model"
    BY <1>6 DEF SignResults
  <2> QED
    BY <2>3, <2>4
<1>7. CASE Answer
  BY <1>7 DEF Answer
<1>8. CASE Gate
  BY <1>8 DEF Gate
<1> QED
  BY <1>1, <1>2, <1>3, <1>4, <1>5, <1>6, <1>7, <1>8 DEF Next

(* What runs next has been through the gate, or nothing was to be guarded. *)
LEMMA GateStep == LoopInv /\ [Next]_vars => GateInv'
<1> SUFFICES ASSUME LoopInv, [Next]_vars PROVE GateInv'
  OBVIOUS
<1> USE DEF LoopInv, GateInv
<1>1. CASE UNCHANGED vars
  BY <1>1 DEF vars, Guarded
<1>2. CASE FirstAnswer
  BY <1>2 DEF FirstAnswer, ShownInv
<1>3. CASE Gate
  BY <1>3 DEF Gate, Guarded
<1>4. CASE Begin \/ RunTools \/ Finish \/ SignResults \/ Answer \/ Abort
  BY <1>4 DEF Begin, RunTools, Finish, SignResults, Answer, Abort
<1> QED
  BY <1>1, <1>2, <1>3, <1>4 DEF Next

(* The inductive invariant of the loop.                                    *)
THEOREM LoopInvariant == Spec => []LoopInv
<1>1. Init => LoopInv
  BY LoopAssumption
  DEF Init, LoopInv, TypeOK, Stages, ShownInv, Shown, GateInv
<1>2. LoopInv /\ [Next]_vars => LoopInv'
  BY TypeStep, ShownStep, GateStep DEF LoopInv
<1> QED
  BY <1>1, <1>2, PTL DEF Spec

(* No tool runs with an argument that quotes a wrapped result of the       *)
(* conversation, from whatever offset (GuardBandProvenanceGate).           *)
THEOREM QuotesAreBlocked == Spec => []QuotedDataIsNotRun
<1>1. LoopInv => QuotedDataIsNotRun
  <2> SUFFICES ASSUME LoopInv, stage = "tools",
                      NEW c \in pending \ blocked, NEW v \in c, NEW t \in Shown
               PROVE  ~Quotes(v, t)
    BY DEF QuotedDataIsNotRun
  <2>1. history # {} /\ t \in seen
    BY DEF LoopInv, ShownInv, Shown
  <2>2. ~Guarded(v)
    BY <2>1 DEF LoopInv, GateInv
  <2>3. v \in Seq(Chars) /\ t \in Seq(Chars)
    BY <2>1, LoopAssumption DEF LoopInv, TypeOK
  <2> QED
    BY <2>1, <2>2, <2>3, QuoteIsGuarded
<1> QED
  BY <1>1, LoopInvariant, PTL

(* When the model is asked, every result but those the signer skips is     *)
(* wrapped once and recorded, whatever iteration it came in.               *)
THEOREM ResultsAreWrappedOnce == Spec => []WrappedOnceAndRecorded
<1>1. LoopInv => WrappedOnceAndRecorded
  <2> SUFFICES ASSUME LoopInv, stage = "model", NEW m \in history
               PROVE  IF Skipped([m EXCEPT !.bands = 0]) THEN m.bands = 0
                      ELSE m.bands = 1 /\ Strip(m.text) \in seen
    BY DEF WrappedOnceAndRecorded
  <2>1. m.bands = 1 => Strip(m.text) \in seen
    BY DEF LoopInv, ShownInv, Shown
  <2>2. /\ Skipped([m EXCEPT !.bands = 0]) => m.bands = 0
        /\ m.bands = 1 \/ Skipped([m EXCEPT !.bands = 0])
    BY DEF LoopInv, ShownInv
  <2> QED
    BY <2>1, <2>2
<1> QED
  BY <1>1, LoopInvariant, PTL
=============================================================================
