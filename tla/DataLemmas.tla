----------------------------- MODULE DataLemmas -----------------------------
(***************************************************************************)
(* Facts about the data the specifications are built from: what Weigh      *)
(* computes, for every finite set and every assignment of sizes, and the   *)
(* elements of a sequence without repetitions that is used as a queue.     *)
(***************************************************************************)
EXTENDS Weights, SequencesExt, FiniteSetTheorems, SequenceTheorems, TLAPS

(* The units of a finite set are finitely many, so Weigh is a number. *)
LEMMA WeighType ==
  ASSUME NEW T, NEW w \in [T -> Nat], NEW S \in SUBSET T, IsFiniteSet(S)
  PROVE  /\ IsFiniteSet(Units(S, w))
         /\ Weigh(S, w) \in Nat
<1> DEFINE Block(x) == {x} \X (1 .. w[x])
           Blocks == {Block(x) : x \in S}
           f == [x \in S |-> Block(x)]
<1>1. f \in Surjection(S, Blocks)
  BY DEF Surjection
<1>2. IsFiniteSet(Blocks)
  <2> HIDE DEF f, Blocks
  <2> QED BY <1>1, FS_Surjection
<1>3. \A x \in S : IsFiniteSet(Block(x))
  <2> TAKE x \in S
  <2>1. IsFiniteSet({x})
    BY FS_Singleton
  <2>2. w[x] \in Nat
    OBVIOUS
  <2>3. IsFiniteSet(1 .. w[x])
    BY <2>2, FS_Interval
  <2> QED BY <2>1, <2>3, FS_Product
<1>4. IsFiniteSet(UNION Blocks)
  <2>1. \A B \in Blocks : IsFiniteSet(B)
    BY <1>3
  <2> HIDE DEF Blocks
  <2> QED BY <2>1, <1>2, FS_UNION
<1>5. UNION Blocks = Units(S, w)
  BY DEF Units
<1> QED BY <1>4, <1>5, FS_CardinalityType DEF Weigh

(* Nothing weighs nothing. *)
LEMMA WeighEmpty ==
  ASSUME NEW w
  PROVE  Weigh({}, w) = 0
<1>1. Units({}, w) = {}
  BY DEF Units
<1> QED BY <1>1, FS_EmptySet DEF Weigh

(* A new element adds its own size. *)
LEMMA WeighAdd ==
  ASSUME NEW T, NEW w \in [T -> Nat], NEW S \in SUBSET T, IsFiniteSet(S),
         NEW x \in T, x \notin S
  PROVE  Weigh(S \cup {x}, w) = Weigh(S, w) + w[x]
<1> DEFINE B == {x} \X (1 .. w[x])
<1>1. Units(S \cup {x}, w) = Units(S, w) \cup B
  BY DEF Units
<1>2. Units(S, w) \cap B = {}
  BY DEF Units
<1>3. /\ IsFiniteSet(B)
      /\ Cardinality(B) = w[x]
  <2>1. IsFiniteSet({x}) /\ Cardinality({x}) = 1
    BY FS_Singleton
  <2>2. w[x] \in Nat
    OBVIOUS
  <2>3. IsFiniteSet(1 .. w[x]) /\ Cardinality(1 .. w[x]) = w[x]
    BY <2>2, FS_Interval
  <2>4. IsFiniteSet(B) /\ Cardinality(B) = Cardinality({x}) * Cardinality(1 .. w[x])
    BY <2>1, <2>3, FS_Product
  <2> QED BY <2>1, <2>2, <2>3, <2>4
<1>4. IsFiniteSet(Units(S, w)) /\ Cardinality(Units(S, w)) \in Nat
  BY WeighType DEF Weigh
<1>5. Cardinality(Units(S, w) \cup B) = Cardinality(Units(S, w)) + Cardinality(B)
  <2> HIDE DEF B
  <2>1. Cardinality(Units(S, w) \cup B)
          = Cardinality(Units(S, w)) + Cardinality(B) - Cardinality(Units(S, w) \cap B)
    BY <1>3, <1>4, FS_Union
  <2>2. Cardinality(Units(S, w) \cap B) = 0
    BY <1>2, FS_EmptySet
  <2>3. Cardinality(B) \in Nat
    BY <1>3, FS_CardinalityType
  <2> QED BY <2>1, <2>2, <2>3, <1>4
<1> QED BY <1>1, <1>3, <1>5 DEF Weigh

(* An element that leaves takes its own size with it. *)
LEMMA WeighRemove ==
  ASSUME NEW T, NEW w \in [T -> Nat], NEW S \in SUBSET T, IsFiniteSet(S),
         NEW x \in S
  PROVE  Weigh(S \ {x}, w) = Weigh(S, w) - w[x]
<1> DEFINE R == S \ {x}
<1>1. IsFiniteSet(R)
  BY FS_RemoveElement
<1>2. R \in SUBSET T /\ x \in T /\ x \notin R /\ R \cup {x} = S
  OBVIOUS
<1>3. Weigh(R, w) \in Nat /\ w[x] \in Nat
  BY <1>1, <1>2, WeighType
<1>4. Weigh(R \cup {x}, w) = Weigh(R, w) + w[x]
  <2> HIDE DEF R
  <2> QED BY <1>1, <1>2, WeighAdd
<1>5. Weigh(S, w) = Weigh(R, w) + w[x]
  BY <1>2, <1>4
<1> QED
  <2> HIDE DEF Weigh
  <2> QED BY <1>3, <1>5

(* A part weighs no more than the whole. *)
LEMMA WeighSubset ==
  ASSUME NEW T, NEW w \in [T -> Nat], NEW S \in SUBSET T, IsFiniteSet(S),
         NEW R \in SUBSET S
  PROVE  Weigh(R, w) <= Weigh(S, w)
<1>1. Units(R, w) \subseteq Units(S, w)
  BY DEF Units
<1>2. IsFiniteSet(Units(S, w))
  BY WeighType
<1> QED BY <1>1, <1>2, FS_Subset DEF Weigh

-----------------------------------------------------------------------------
Distinct(s) == \A i, j \in 1 .. Len(s) : i # j => s[i] # s[j]

(* The elements of a sequence, by index. *)
LEMMA ToSetElements ==
  ASSUME NEW T, NEW s \in Seq(T)
  PROVE  /\ ToSet(s) \subseteq T
         /\ ToSet(s) = {s[i] : i \in 1 .. Len(s)}
  BY DEF ToSet

(* A sequence has finitely many elements. *)
LEMMA ToSetFinite ==
  ASSUME NEW T, NEW s \in Seq(T)
  PROVE  IsFiniteSet(ToSet(s))
<1>1. s \in Surjection(1 .. Len(s), ToSet(s))
  BY DEF Surjection, ToSet
<1>2. IsFiniteSet(1 .. Len(s))
  BY FS_Interval
<1> QED BY <1>1, <1>2, FS_Surjection

LEMMA ToSetEmpty == ToSet(<<>>) = {} /\ Distinct(<<>>)
  BY DEF ToSet, Distinct

(* Taking the head off a queue without repetitions removes just that one. *)
LEMMA ToSetTail ==
  ASSUME NEW T, NEW s \in Seq(T), s # <<>>
  PROVE  /\ Head(s) \in ToSet(s)
         /\ Tail(s) \in Seq(T)
         /\ ToSet(Tail(s)) \subseteq ToSet(s)
         /\ Distinct(s) => /\ ToSet(Tail(s)) = ToSet(s) \ {Head(s)}
                           /\ Distinct(Tail(s))
<1>1. /\ Len(s) \in Nat \ {0}
      /\ Head(s) = s[1]
      /\ Tail(s) \in Seq(T)
      /\ Len(Tail(s)) = Len(s) - 1
      /\ \A i \in 1 .. Len(s) - 1 : Tail(s)[i] = s[i + 1]
  BY HeadTailProperties, EmptySeq
<1>2. Head(s) \in ToSet(s)
  BY <1>1, ToSetElements
<1>3. ToSet(Tail(s)) = {s[i + 1] : i \in 1 .. Len(s) - 1}
  <2>1. ToSet(Tail(s)) = {Tail(s)[i] : i \in 1 .. Len(s) - 1}
    BY <1>1, ToSetElements
  <2> QED BY <1>1, <2>1
<1>4. ToSet(Tail(s)) = {s[i] : i \in 2 .. Len(s)}
  <2>1. \A i \in 2 .. Len(s) : i - 1 \in 1 .. Len(s) - 1 /\ s[i] = s[(i - 1) + 1]
    BY <1>1
  <2>2. \A i \in 1 .. Len(s) - 1 : i + 1 \in 2 .. Len(s)
    BY <1>1
  <2> QED BY <1>1, <1>3, <2>1, <2>2
<1>5. ToSet(Tail(s)) \subseteq ToSet(s)
  BY <1>1, <1>4, ToSetElements
<1>6. ASSUME Distinct(s)
      PROVE  ToSet(Tail(s)) = ToSet(s) \ {Head(s)}
  BY <1>1, <1>4, <1>6, ToSetElements DEF Distinct
<1>7. ASSUME Distinct(s)
      PROVE  Distinct(Tail(s))
  BY <1>1, <1>7 DEF Distinct
<1> QED BY <1>1, <1>2, <1>5, <1>6, <1>7

(* A new element at the end of a queue adds just that one. *)
LEMMA ToSetAppend ==
  ASSUME NEW T, NEW s \in Seq(T), NEW x \in T
  PROVE  /\ Append(s, x) \in Seq(T)
         /\ ToSet(Append(s, x)) = ToSet(s) \cup {x}
         /\ Distinct(s) /\ x \notin ToSet(s) => Distinct(Append(s, x))
<1>1. /\ Append(s, x) \in Seq(T)
      /\ Len(Append(s, x)) = Len(s) + 1
      /\ \A i \in 1 .. Len(s) : Append(s, x)[i] = s[i]
      /\ Append(s, x)[Len(s) + 1] = x
      /\ Len(s) \in Nat
  BY AppendProperties
<1>2. 1 .. Len(s) + 1 = (1 .. Len(s)) \cup {Len(s) + 1}
  BY <1>1
<1>3. ToSet(Append(s, x)) = ToSet(s) \cup {x}
  <2>1. ToSet(Append(s, x)) = {Append(s, x)[i] : i \in 1 .. Len(s) + 1}
    BY <1>1, ToSetElements
  <2>2. ToSet(s) = {s[i] : i \in 1 .. Len(s)}
    BY ToSetElements
  <2> QED BY <1>1, <1>2, <2>1, <2>2
<1>4. ASSUME Distinct(s), x \notin ToSet(s)
      PROVE  Distinct(Append(s, x))
  BY <1>1, <1>2, <1>4, ToSetElements DEF Distinct
<1> QED BY <1>1, <1>3, <1>4
=============================================================================
