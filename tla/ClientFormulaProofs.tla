------------------------ MODULE ClientFormulaProofs ------------------------
(***************************************************************************)
(* Proofs about ClientFormula, for texts of any length, any numerals and   *)
(* names, and any arithmetic: the constructor takes the expressions, both  *)
(* evaluators return their meaning, and the server takes what the client   *)
(* takes.                                                                  *)
(*                                                                         *)
(* The constructor looks at neighbours and counts parentheses; a span of   *)
(* tokens that is right in this sense (Right) is split by its outermost    *)
(* operation, or loses its parentheses, into spans that are right again.   *)
(***************************************************************************)
EXTENDS ClientFormula, FiniteSetTheorems, NaturalsInduction, SequenceTheorems, TLAPS

\* Sets of natural numbers have a least member.
LEMMA NatMin ==
  ASSUME NEW T \in SUBSET Nat, T # {}
  PROVE  \E x \in T : \A y \in T : x <= y
<1> DEFINE R == OpToRel(<, Nat)
<1>1. \A x, y \in Nat : <<x, y>> \in R <=> x < y
  BY DEF OpToRel
<1>2. \E x \in T : \A y \in T : ~ (<<y, x>> \in R)
  <2>1. IsWellFoundedOn(R, Nat)
    BY NatLessThanWellFounded
  <2> HIDE DEF R
  <2>2. QED
    BY <2>1, WFMin, Zenon
<1> HIDE DEF R
<1>3. PICK x \in T : \A y \in T : ~ (<<y, x>> \in R)
  BY <1>2
<1>4. \A y \in T : ~(y < x)
  BY <1>1, <1>3
<1>5. \A y \in T : y \in Nat /\ x \in Nat
  OBVIOUS
<1>6. QED
  BY <1>4, <1>5

\* Induction, on the set of the numbers for which something holds.
LEMMA NatSet ==
  ASSUME NEW S \in SUBSET Nat, 0 \in S, \A n \in S : n + 1 \in S
  PROVE  S = Nat
<1> SUFFICES ASSUME Nat \ S # {}
             PROVE  FALSE
  OBVIOUS
<1>1. PICK m \in Nat \ S : \A n \in Nat \ S : m <= n
  BY NatMin
<1>2. m # 0 /\ m - 1 \in Nat /\ ~(m <= m - 1)
  BY <1>1
<1>3. m - 1 \in S
  BY <1>1, <1>2
<1>4. (m - 1) + 1 = m
  BY <1>2
<1> QED
  BY <1>1, <1>3, <1>4

\* A set of numbers up to a bound has a last member.
LEMMA LastOf ==
  ASSUME NEW i \in Int, NEW j \in Int, NEW T \in SUBSET (i..j), T # {}
  PROVE  \E k \in T : \A n \in T : n <= k
<1> DEFINE D == {j - n : n \in T}
<1>1. D \in SUBSET Nat /\ D # {}
  OBVIOUS
<1>2. PICK d \in D : \A e \in D : d <= e
  BY <1>1, NatMin
<1>3. PICK k \in T : d = j - k
  BY <1>2
<1>4. \A n \in T : n <= k
  <2> SUFFICES ASSUME NEW n \in T PROVE n <= k
    OBVIOUS
  <2>1. d <= j - n
    BY <1>2
  <2> QED
    BY <1>3, <2>1
<1> QED
  BY <1>4

-----------------------------------------------------------------------------
(* Depth.                                                                  *)

Turn(t) == IF t = "(" THEN 1 ELSE IF t = ")" THEN -1 ELSE 0

\* How often the token is among the first m.
Tally(text, t, m) == Cardinality({n \in 1..m : text[n] = t})

LEMMA TallyIs ==
  ASSUME NEW text, NEW t, NEW k \in Nat
  PROVE  /\ Tally(text, t, 0) = 0 /\ Tally(text, t, k) \in Nat
         /\ text[k + 1] = t => Tally(text, t, k + 1) = Tally(text, t, k) + 1
         /\ text[k + 1] # t => Tally(text, t, k + 1) = Tally(text, t, k)
<1>0. \A m : Tally(text, t, m) = Cardinality({n \in 1..m : text[n] = t})
  BY DEF Tally
<1> DEFINE S(m) == {n \in 1..m : text[n] = t}
<1>1. S(0) = {}
  OBVIOUS
<1>2. IsFiniteSet(S(k)) /\ Cardinality(S(k)) \in Nat
  <2>1. IsFiniteSet(1..k)
    BY FS_Interval
  <2>2. S(k) \in SUBSET (1..k)
    OBVIOUS
  <2> QED
    BY <2>1, <2>2, FS_Subset, FS_CardinalityType
<1>3. CASE text[k + 1] = t
  <2>1. S(k + 1) = S(k) \cup {k + 1} /\ k + 1 \notin S(k)
    BY <1>3
  <2> HIDE DEF S
  <2>2. Cardinality(S(k + 1)) = Cardinality(S(k)) + 1
    BY <1>2, <2>1, FS_AddElement
  <2> QED
    BY <1>0, <1>1, <1>2, <1>3, <2>2, FS_EmptySet DEF S
<1>4. CASE text[k + 1] # t
  <2>1. S(k + 1) = S(k)
    BY <1>4
  <2> HIDE DEF S
  <2>2. Cardinality(S(k + 1)) = Cardinality(S(k))
    BY <2>1
  <2> QED
    BY <1>0, <1>1, <1>2, <1>4, <2>2, FS_EmptySet DEF S
<1> QED
  BY <1>3, <1>4

LEMMA DepthIs ==
  ASSUME NEW text, NEW k \in Nat
  PROVE  /\ Depth(text, 0) = 0 /\ Depth(text, k) \in Int
         /\ Depth(text, k + 1) = Depth(text, k) + Turn(text[k + 1])
<1>1. \A m : Depth(text, m) = Tally(text, "(", m) - Tally(text, ")", m)
  BY DEF Depth, Tally
<1> QED
  BY <1>1, TallyIs DEF Turn

\* The same, of the token before.
LEMMA DepthAt ==
  ASSUME NEW text, NEW k \in Nat \ {0}
  PROVE  Depth(text, k) \in Int /\ Depth(text, k - 1) \in Int
         /\ Depth(text, k) = Depth(text, k - 1) + Turn(text[k])
<1>1. k - 1 \in Nat /\ (k - 1) + 1 = k
  OBVIOUS
<1> QED
  BY <1>1, DepthIs

\* It is that of the tokens that were read.
LEMMA DepthSame ==
  ASSUME NEW text, NEW other, NEW k \in Nat, \A n \in 1..k : text[n] = other[n]
  PROVE  Depth(text, k) = Depth(other, k)
<1>1. \A t : {n \in 1..k : text[n] = t} = {n \in 1..k : other[n] = t}
  OBVIOUS
<1> QED
  BY <1>1 DEF Depth

-----------------------------------------------------------------------------
(* Spans that are right.                                                   *)

Atom == (Numeral \cup Name) \ Invalid

Opens == Atom \cup {"("}

Ends == Atom \cup {")"}

Asks == Operator \cup {"("}

\* An operand comes first and after each token that asks for one, and only
\* there; and the parentheses are matched.
Right(text, i, j) ==
  /\ text[i] \in Opens /\ text[j] \in Ends
  /\ \A n \in i..j : text[n] \in Opens \cup Ends \cup Asks /\ Depth(text, n) >= Depth(text, i - 1)
  /\ \A n \in i..j : n # i => (text[n] \in Opens <=> text[n - 1] \in Asks)
  /\ Depth(text, j) = Depth(text, i - 1)

LEMMA Kinds ==
  /\ Operator = {"+", "-", "*", "/"} /\ Signs \subseteq Operator /\ Products \subseteq Operator
  /\ Operator = Signs \cup Products /\ Signs \cap Products = {}
  /\ Atom \cap (Operator \cup {"(", ")"}) = {} /\ Operator \cap {"(", ")"} = {} /\ "(" # ")"
  /\ Opens \cap Operator = {} /\ Ends \cap Asks = {} /\ ")" \notin Opens /\ ")" \notin Asks
  /\ \A t \in Operator \cup Atom : Turn(t) = 0
  /\ Turn("(") = 1 /\ Turn(")") = -1
<1>1. (Numeral \cup Name) \cap (Operator \cup {"(", ")"}) = {}
  BY TokenAssumption
<1> QED
  BY <1>1 DEF Atom, Opens, Ends, Asks, Turn, Operator, Signs, Products

\* The depth within a span.
LEMMA Depths ==
  ASSUME NEW text, NEW i \in Nat \ {0}, NEW n \in Nat, i <= n
  PROVE  /\ Depth(text, n) \in Int /\ Depth(text, n - 1) \in Int /\ Depth(text, i - 1) \in Int
         /\ Depth(text, n) = Depth(text, n - 1) + Turn(text[n])
<1>1. n \in Nat \ {0}
  OBVIOUS
<1> QED
  BY <1>1, DepthAt

\* An operation outside of the parentheses has right spans before and after.
LEMMA Splits ==
  ASSUME NEW text, NEW i \in Nat \ {0}, NEW j \in Nat, i <= j, Right(text, i, j),
         NEW k \in Outside(text, i, j, Operator)
  PROVE  /\ k \in (i + 1)..(j - 1) /\ text[k] \in Operator
         /\ Depth(text, k) = Depth(text, i - 1) /\ Depth(text, k - 1) = Depth(text, i - 1)
         /\ Right(text, i, k - 1) /\ Right(text, k + 1, j)
<1>1. k \in i..j /\ text[k] \in Operator /\ Depth(text, k) = Depth(text, i - 1)
  BY DEF Outside
<1>2. k # i /\ k # j
  BY <1>1, Kinds DEF Right, Asks
<1>3. k \in (i + 1)..(j - 1) /\ k - 1 \in i..j /\ k + 1 \in i..j /\ k \in Nat
  BY <1>1, <1>2
<1>4. Depth(text, k - 1) = Depth(text, i - 1)
  <2>1. /\ Depth(text, k) \in Int /\ Depth(text, k - 1) \in Int
        /\ Depth(text, k) = Depth(text, k - 1) + Turn(text[k])
    BY <1>1, <1>3, Depths
  <2>2. Turn(text[k]) = 0
    BY <1>1, Kinds
  <2> QED
    BY <1>1, <2>1, <2>2
<1>5. text[k - 1] \in Ends
  <2>1. text[k] \notin Opens
    BY <1>1, Kinds
  <2>2. text[k - 1] \notin Asks /\ text[k - 1] \in Opens \cup Ends \cup Asks
    BY <1>2, <1>1, <1>3, <2>1 DEF Right
  <2> QED
    BY <2>2 DEF Opens, Ends, Asks
<1>6. text[k + 1] \in Opens
  <2>1. (k + 1) - 1 = k /\ k + 1 # i
    BY <1>3
  <2> QED
    BY <1>1, <1>3, <2>1 DEF Right, Asks
<1>7. Right(text, i, k - 1)
  <2>1. \A n \in i..(k - 1) : n \in i..j
    BY <1>3
  <2> QED
    BY <1>4, <1>5, <2>1 DEF Right
<1>8. Right(text, k + 1, j)
  <2>1. (k + 1) - 1 = k /\ \A n \in (k + 1)..j : n \in i..j /\ n # i
    BY <1>3
  <2> QED
    BY <1>1, <1>6, <2>1 DEF Right
<1> QED
  BY <1>1, <1>3, <1>4, <1>7, <1>8

\* Without one, the span is a single operand or in parentheses.
LEMMA Peels ==
  ASSUME NEW text, NEW i \in Nat \ {0}, NEW j \in Nat, i <= j, Right(text, i, j),
         Outside(text, i, j, Operator) = {}
  PROVE  \/ i = j /\ text[i] \in Atom
         \/ /\ text[i] = "(" /\ text[j] = ")" /\ i + 1 <= j - 1
            /\ Right(text, i + 1, j - 1) /\ Depth(text, i) = Depth(text, i - 1) + 1
<1> DEFINE d(n) == Depth(text, n)
<1>1. /\ text[i] \in Opens /\ text[j] \in Ends /\ d(j) = d(i - 1)
      /\ \A n \in i..j : text[n] \in Opens \cup Ends \cup Asks /\ d(n) >= d(i - 1)
      /\ \A n \in i..j : n # i => (text[n] \in Opens <=> text[n - 1] \in Asks)
  BY DEF Right
<1>2. \A n \in i..j : ~(text[n] \in Operator /\ d(n) = d(i - 1))
  BY DEF Outside
<1>3. \A n \in i..j : d(n) \in Int /\ d(n - 1) \in Int /\ d(i - 1) \in Int /\ d(n) = d(n - 1) + Turn(text[n])
  BY Depths
<1> HIDE DEF d
\* Where the depth is that of the outside the span ends.
<1>4. ASSUME NEW n \in i..j, n < j, d(n) = d(i - 1) PROVE FALSE
  <2>1. n + 1 \in i..j /\ (n + 1) - 1 = n /\ n + 1 # i
    BY <1>4
  <2>2. text[n] \in Ends
    <3>1. text[n] # "("
      <4>1. text[n] = "(" => d(n - 1) = d(i - 1) - 1
        BY <1>3, <1>4, Kinds
      <4>2. n = i => d(n - 1) = d(i - 1)
        OBVIOUS
      <4>3. n # i => d(n - 1) >= d(i - 1)
        <5>1. n # i => n - 1 \in i..j
          BY <1>4
        <5> QED
          BY <1>1, <5>1
      <4> QED
        BY <1>3, <4>1, <4>2, <4>3
    <3>2. text[n] \notin Operator
      BY <1>2, <1>4
    <3>3. text[n] \in Opens \cup Ends \cup Asks
      BY <1>1
    <3> QED
      BY <3>1, <3>2, <3>3 DEF Opens, Ends, Asks
  <2>3. text[n + 1] \notin Opens /\ text[n + 1] \in Opens \cup Ends \cup Asks
    BY <1>1, <2>1, <2>2, Kinds
  <2>4. text[n + 1] \in Operator \/ text[n + 1] = ")"
    BY <2>3 DEF Opens, Ends, Asks
  <2>5. d(n + 1) = d(n) + Turn(text[n + 1]) /\ d(n + 1) \in Int /\ d(i - 1) \in Int
    BY <1>3, <2>1
  <2>6. text[n + 1] # ")"
    BY <1>1, <1>4, <2>1, <2>5, Kinds
  <2>7. text[n + 1] \in Operator /\ Turn(text[n + 1]) = 0
    BY <2>4, <2>6, Kinds
  <2>8. d(n + 1) = d(i - 1)
    BY <1>4, <2>5, <2>7
  <2> QED
    BY <1>2, <2>1, <2>7, <2>8
<1>5. CASE i = j
  <2>1. text[i] \in Atom
    BY <1>1, <1>5, Kinds DEF Opens, Ends
  <2> QED
    BY <1>5, <2>1
<1>6. CASE i < j
  <2>1. i \in i..j /\ j \in i..j /\ j - 1 \in i..j
    BY <1>6
  <2>2. text[i] = "("
    <3>1. text[i] \in Atom => Turn(text[i]) = 0
      BY Kinds
    <3>2. text[i] \in Atom => d(i) = d(i - 1)
      BY <1>3, <2>1, <3>1
    <3> QED
      BY <1>1, <1>4, <1>6, <2>1, <3>2 DEF Opens
  <2>3. d(i) = d(i - 1) + 1
    BY <1>3, <2>1, <2>2, Kinds
  <2>4. text[j] = ")"
    <3>1. text[j] \in Atom => Turn(text[j]) = 0
      BY Kinds
    <3>2. text[j] \in Atom => d(j - 1) = d(i - 1)
      BY <1>1, <1>3, <2>1, <3>1
    <3>3. text[j] \notin Atom
      BY <1>4, <1>6, <2>1, <3>2
    <3> QED
      BY <1>1, <3>3 DEF Ends
  <2>5. \A n \in i..(j - 1) : d(n) >= d(i)
    <3> SUFFICES ASSUME NEW n \in i..(j - 1) PROVE d(n) >= d(i)
      OBVIOUS
    <3>1. n \in i..j /\ n < j
      OBVIOUS
    <3>2. d(n) >= d(i - 1) /\ d(n) # d(i - 1) /\ d(n) \in Int /\ d(i - 1) \in Int
      BY <1>1, <1>3, <1>4, <3>1
    <3> QED
      BY <2>3, <3>2
  <2>6. d(j - 1) = d(i)
    <3>1. d(j) = d(j - 1) - 1
      BY <1>3, <2>1, <2>4, Kinds
    <3> QED
      BY <1>1, <1>3, <2>1, <2>3, <3>1
  <2>7. i + 1 \in i..j /\ (i + 1) - 1 = i /\ i + 1 # i
    BY <1>6
  <2>8. text[i + 1] \in Opens /\ i + 1 <= j - 1
    <3>1. text[i + 1] \in Opens
      BY <1>1, <2>2, <2>7 DEF Asks
    <3>2. i + 1 # j
      BY <2>4, <3>1, Kinds
    <3> QED
      BY <1>6, <3>1, <3>2
  <2>9. text[j - 1] \in Ends
    <3>1. text[j] \notin Opens /\ j # i
      BY <1>6, <2>4, Kinds
    <3>2. text[j - 1] \notin Asks /\ text[j - 1] \in Opens \cup Ends \cup Asks
      BY <1>1, <2>1, <3>1
    <3> QED
      BY <3>2 DEF Opens, Ends, Asks
  <2>10. Right(text, i + 1, j - 1)
    <3>1. \A n \in (i + 1)..(j - 1) : n \in i..j /\ n # i /\ n \in i..(j - 1)
      OBVIOUS
    <3>2. /\ \A n \in (i + 1)..(j - 1) : text[n] \in Opens \cup Ends \cup Asks /\ d(n) >= d(i)
          /\ \A n \in (i + 1)..(j - 1) : n # i + 1 => (text[n] \in Opens <=> text[n - 1] \in Asks)
      BY <1>1, <2>5, <3>1
    <3> QED
      BY <2>6, <2>7, <2>8, <2>9, <3>2 DEF Right, d
  <2> QED
    BY <2>2, <2>3, <2>4, <2>8, <2>10 DEF d
<1> QED
  BY <1>5, <1>6

-----------------------------------------------------------------------------
(* What the constructor has read.                                          *)

LEMMA CountIs ==
  ASSUME NEW s \in Seq(Token), NEW u
  PROVE  Count(s, u) = Tally(s, u, Len(s)) /\ Count(s, u) \in Nat
<1>1. DOMAIN s = 1..Len(s) /\ Len(s) \in Nat
  BY LenProperties
<1>2. Count(s, u) = Tally(s, u, Len(s))
  BY <1>1 DEF Count, Tally
<1> QED
  BY <1>1, <1>2, TallyIs

LEMMA DepthOfAll ==
  ASSUME NEW s \in Seq(Token)
  PROVE  Depth(s, Len(s)) = Count(s, "(") - Count(s, ")")
<1> QED
  BY CountIs DEF Depth, Tally

LEMMA Appended ==
  ASSUME NEW s \in Seq(Token), NEW t \in Token
  PROVE  /\ Append(s, t) \in Seq(Token) /\ Append(s, t) # <<>>
         /\ Len(s) \in Nat /\ Len(Append(s, t)) = Len(s) + 1
         /\ DOMAIN Append(s, t) = 1..(Len(s) + 1) /\ DOMAIN s = 1..Len(s)
         /\ Append(s, t)[Len(s) + 1] = t /\ Last(Append(s, t)) = t
         /\ \A n \in 1..Len(s) : Append(s, t)[n] = s[n]
<1>1. /\ Append(s, t) \in Seq(Token) /\ Len(Append(s, t)) = Len(s) + 1
      /\ \A n \in 1..Len(s) : Append(s, t)[n] = s[n]
      /\ Append(s, t)[Len(s) + 1] = t
  BY AppendProperties
<1>2. Len(s) \in Nat /\ DOMAIN s = 1..Len(s) /\ DOMAIN Append(s, t) = 1..(Len(s) + 1)
  BY <1>1, LenProperties
<1>3. Append(s, t) # <<>>
  BY <1>1, <1>2, EmptySeq
<1> QED
  BY <1>1, <1>2, <1>3 DEF Last

LEMMA CountOfAppended ==
  ASSUME NEW s \in Seq(Token), NEW t \in Token, NEW u
  PROVE  Count(Append(s, t), u) = Count(s, u) + (IF t = u THEN 1 ELSE 0)
<1> DEFINE a == Append(s, t)
           N == Len(s)
<1>1. /\ a \in Seq(Token) /\ N \in Nat /\ Len(a) = N + 1 /\ a[N + 1] = t
      /\ \A n \in 1..N : a[n] = s[n]
  BY Appended
<1>2. Count(a, u) = Tally(a, u, N + 1) /\ Count(s, u) = Tally(s, u, N) /\ Count(s, u) \in Nat
  BY <1>1, CountIs
<1> HIDE DEF a, N
<1>3. Tally(a, u, N) = Tally(s, u, N)
  <2>1. {n \in 1..N : a[n] = u} = {n \in 1..N : s[n] = u}
    BY <1>1
  <2> QED
    BY <2>1 DEF Tally
<1>4. /\ a[N + 1] = u => Tally(a, u, N + 1) = Tally(a, u, N) + 1
      /\ a[N + 1] # u => Tally(a, u, N + 1) = Tally(a, u, N)
  <2>1. N \in Nat
    BY <1>1
  <2> QED
    BY <2>1, TallyIs
<1>5. Count(a, u) = Count(s, u) + (IF t = u THEN 1 ELSE 0)
  BY <1>1, <1>2, <1>3, <1>4
<1> QED
  BY <1>5 DEF a

\* The beginning of an expression: what the constructor takes.
Legal(text) ==
  /\ \A n \in DOMAIN text : text[n] \in Opens \cup Ends \cup Asks /\ Depth(text, n) >= 0
  /\ \A n \in DOMAIN text : text[n] \in Opens <=> n = 1 \/ text[n - 1] \in Asks

Expects(text) == text = <<>> \/ Last(text) \in Asks

LEMMA LegalAppended ==
  ASSUME NEW s \in Seq(Token), NEW t \in Token, Legal(s)
  PROVE  Legal(Append(s, t)) <=>
           /\ t \in Opens \cup Ends \cup Asks /\ (t \in Opens <=> Expects(s))
           /\ Depth(s, Len(s)) + Turn(t) >= 0
<1> DEFINE a == Append(s, t)
           N == Len(s)
<1>1. /\ a \in Seq(Token) /\ N \in Nat /\ Len(a) = N + 1 /\ a[N + 1] = t
      /\ \A n \in 1..N : a[n] = s[n]
      /\ DOMAIN a = 1..(N + 1) /\ DOMAIN s = 1..N
  BY Appended
<1>2. s = <<>> <=> N = 0
  BY EmptySeq
<1>3. Expects(s) <=> N = 0 \/ s[N] \in Asks
  BY <1>2 DEF Expects, Last
<1>4. Depth(s, N) \in Int /\ Depth(a, N + 1) = Depth(s, N) + Turn(t)
  <2>1. Depth(a, N) = Depth(s, N)
    BY <1>1, DepthSame
  <2>2. Depth(a, N) \in Int /\ Depth(a, N + 1) = Depth(a, N) + Turn(a[N + 1])
    BY <1>1, DepthIs
  <2> HIDE DEF a, N
  <2> QED
    BY <1>1, <2>1, <2>2
<1>5. \A n \in 1..N : Depth(a, n) = Depth(s, n)
  <2> SUFFICES ASSUME NEW n \in 1..N PROVE Depth(a, n) = Depth(s, n)
    OBVIOUS
  <2>1. n \in Nat /\ \A m \in 1..n : a[m] = s[m]
    BY <1>1
  <2> HIDE DEF a
  <2> QED
    BY <2>1, DepthSame
<1> HIDE DEF a, N
<1>6. \A n \in 1..N : a[n] \in Opens \cup Ends \cup Asks /\ Depth(a, n) >= 0
  BY <1>1, <1>5 DEF Legal
<1>7. \A n \in 1..N : a[n] \in Opens <=> n = 1 \/ a[n - 1] \in Asks
  <2> SUFFICES ASSUME NEW n \in 1..N PROVE a[n] \in Opens <=> n = 1 \/ a[n - 1] \in Asks
    OBVIOUS
  <2>1. a[n] = s[n] /\ (n # 1 => a[n - 1] = s[n - 1])
    <3>1. n # 1 => n - 1 \in 1..N
      BY <1>1
    <3> QED
      BY <1>1, <3>1
  <2>2. s[n] \in Opens <=> n = 1 \/ s[n - 1] \in Asks
    BY <1>1 DEF Legal
  <2> QED
    BY <2>1, <2>2
<1>8. (N + 1 = 1 \/ a[(N + 1) - 1] \in Asks) <=> Expects(s)
  <2>1. (N + 1) - 1 = N /\ (N # 0 => a[N] = s[N])
    BY <1>1
  <2> QED
    BY <1>1, <1>3, <2>1
<1>9. \A n \in 1..(N + 1) : n \in 1..N \/ n = N + 1
  BY <1>1
<1>10. Legal(a) <=> /\ \A n \in 1..(N + 1) : a[n] \in Opens \cup Ends \cup Asks /\ Depth(a, n) >= 0
                    /\ \A n \in 1..(N + 1) : a[n] \in Opens <=> n = 1 \/ a[n - 1] \in Asks
  <2>1. DOMAIN a = 1..(N + 1)
    BY <1>1
  <2> QED
    BY <2>1 DEF Legal
<1>11. Legal(a) <=>
         /\ t \in Opens \cup Ends \cup Asks /\ Depth(a, N + 1) >= 0
         /\ (t \in Opens <=> Expects(s))
  BY <1>1, <1>6, <1>7, <1>8, <1>9, <1>10
<1> QED
  BY <1>4, <1>11 DEF a, N

LEMMA Takes ==
  ASSUME NEW s \in Seq(Token), NEW t \in Token, Legal(s)
  PROVE  /\ Legal(Append(s, t)) <=> /\ t \in Opens \cup Ends \cup Asks /\ (t \in Opens <=> Expects(s))
                                    /\ t = ")" => Count(s, ")") < Count(s, "(")
         /\ Count(s, ")") \in Nat /\ Count(s, "(") \in Nat /\ Count(s, ")") <= Count(s, "(")
<1>1. Count(s, ")") \in Nat /\ Count(s, "(") \in Nat /\ Depth(s, Len(s)) = Count(s, "(") - Count(s, ")")
  BY CountIs, DepthOfAll
<1>2. Depth(s, Len(s)) >= 0
  <2>1. Len(s) \in Nat /\ DOMAIN s = 1..Len(s)
    BY LenProperties
  <2>2. CASE Len(s) = 0
    BY <2>2, DepthIs
  <2>3. CASE Len(s) # 0
    <3>1. Len(s) \in DOMAIN s
      BY <2>1, <2>3
    <3> QED
      BY <3>1 DEF Legal
  <2> QED
    BY <2>2, <2>3
<1>3. t \in Opens \cup Ends \cup Asks => Turn(t) \in {0, 1, -1} /\ (t # ")" => Turn(t) >= 0) /\ Turn(")") = -1
  BY Kinds DEF Turn
<1> QED
  BY <1>1, <1>2, <1>3, LegalAppended

LEMMA SetOfAppended ==
  ASSUME NEW S, NEW s \in Seq(S), NEW t
  PROVE  /\ ToSet(Append(s, t)) = ToSet(s) \cup {t}
         /\ IsInjective(s) /\ t \notin ToSet(s) => IsInjective(Append(s, t))
<1> DEFINE T == S \cup {t}
           a == Append(s, t)
           N == Len(s)
<1>1. s \in Seq(T) /\ t \in T
  BY SeqMonotonic
<1>2. a \in Seq(T) /\ Len(a) = N + 1 /\ (\A n \in 1..N : a[n] = s[n]) /\ a[N + 1] = t
  BY <1>1, AppendProperties
<1>3. DOMAIN a = 1..(N + 1) /\ DOMAIN s = 1..N /\ N \in Nat
  BY <1>1, <1>2, LenProperties
<1> HIDE DEF a, N
<1>4. 1..(N + 1) = (1..N) \cup {N + 1}
  BY <1>3
<1>5. ToSet(a) = ToSet(s) \cup {t}
  BY <1>2, <1>3, <1>4 DEF ToSet
<1>6. ASSUME IsInjective(s), t \notin ToSet(s) PROVE IsInjective(a)
  <2>1. \A n \in 1..N : a[n] # t
    BY <1>2, <1>3, <1>6 DEF ToSet
  <2> QED
    BY <1>2, <1>3, <1>4, <1>6, <2>1 DEF IsInjective
<1> QED
  BY <1>5, <1>6 DEF a

\* The names of a text in their normal form, and the one of a token.
NormalNames(text) == {Normal[n] : n \in ToSet(text) \cap Name}
Noted(t) == {Normal[n] : n \in {t} \cap Name}

LEMMA NamesNoted ==
  ASSUME NEW t
  PROVE  /\ t \in Name => Noted(t) = {Normal[t]} /\ Normal[t] \in Name /\ (t \in Invalid <=> Normal[t] \in Invalid)
         /\ t \notin Name => Noted(t) = {}
         /\ \A a, b : ToSet(b) = ToSet(a) \cup {t} => NormalNames(b) = NormalNames(a) \cup Noted(t)
<1>1. t \in Name => Noted(t) = {Normal[t]} /\ Normal[t] \in Name /\ (t \in Invalid <=> Normal[t] \in Invalid)
  BY TokenAssumption, TextAssumption DEF Noted
<1>2. t \notin Name => Noted(t) = {}
  BY DEF Noted
<1>3. \A a, b : ToSet(b) = ToSet(a) \cup {t} => NormalNames(b) = NormalNames(a) \cup Noted(t)
  BY DEF NormalNames, Noted
<1> QED
  BY <1>1, <1>2, <1>3

\* What the constructor knows of the text: its last token and how many
\* parentheses there were is all it needs.
Known ==
  /\ Legal(tokens)
  /\ leftParen = Count(tokens, "(") /\ rightParen = Count(tokens, ")")
  /\ ToSet(varList) = NormalNames(tokens)
  /\ ~ExpectsOperand => ToSet(tokens) \cap (Numeral \cup Name) # {}

\* The inductive invariant.
Reads ==
  /\ tokens \in Seq(Token)
  /\ varList \in Seq(Name) /\ IsInjective(varList)
  /\ status \in {"reading", "refused", "unfinished", "formula", "evaluated"}
  /\ (status = "evaluated") = (result # <<>>)
  /\ IF status = "refused"
     THEN /\ tokens # <<>> /\ ~Legal(tokens)
          /\ leftParen \in Nat /\ rightParen \in 0..(leftParen + 1)
     ELSE Known
  /\ status \in {"formula", "evaluated"} => ~ExpectsOperand /\ leftParen = rightParen
  /\ status = "unfinished" => ExpectsOperand \/ leftParen # rightParen
  /\ status = "evaluated" => result = <<Evaluate(tokens)>>

LEMMA ReadsInit == Init => Reads
<1> SUFFICES ASSUME Init PROVE Reads
  OBVIOUS
<1>1. tokens = <<>> /\ varList = <<>> /\ leftParen = 0 /\ rightParen = 0 /\ status = "reading" /\ result = <<>>
  BY DEF Init
<1>2. tokens \in Seq(Token) /\ varList \in Seq(Name) /\ Len(tokens) = 0 /\ Len(varList) = 0
  BY <1>1, EmptySeq
<1>3. DOMAIN tokens = 1..0 /\ DOMAIN varList = 1..0
  BY <1>2, LenProperties
<1>4. \A u : Count(tokens, u) = 0
  <2>1. \A u : Tally(tokens, u, 0) = 0
    BY TallyIs, 0 \in Nat
  <2> QED
    BY <1>2, <2>1, CountIs
<1>5. ToSet(varList) = {} /\ NormalNames(tokens) = {}
  BY <1>3 DEF ToSet, NormalNames
<1>7. Known
  BY <1>1, <1>3, <1>4, <1>5 DEF Known, Legal, ExpectsOperand
<1>6. IsInjective(varList)
  BY <1>3 DEF IsInjective
<1> QED
  BY <1>1, <1>2, <1>6, <1>7 DEF Reads

\* A token is read, at first.
LEMMA TokenRead ==
  ASSUME Reads, NEW t \in Token, Read(t)
  PROVE  /\ status = "reading" /\ result = <<>> /\ Known
         /\ tokens' \in Seq(Token) /\ tokens' # <<>> /\ tokens' = Append(tokens, t)
         /\ Last(tokens') = t /\ ToSet(tokens') = ToSet(tokens) \cup {t}
         /\ leftParen = Count(tokens, "(") /\ rightParen = Count(tokens, ")")
         /\ leftParen \in Nat /\ rightParen \in Nat /\ rightParen <= leftParen
         /\ Legal(tokens)' <=> /\ t \in Opens \cup Ends \cup Asks /\ (t \in Opens <=> ExpectsOperand)
                               /\ t = ")" => rightParen < leftParen
         /\ \A u : Count(tokens, u)' = Count(tokens, u) + (IF t = u THEN 1 ELSE 0)
<1>1. /\ status = "reading" /\ tokens' = Append(tokens, t)
      /\ tokens \in Seq(Token) /\ result = <<>> /\ Known
  BY DEF Read, Reads
<1>2. tokens' \in Seq(Token) /\ tokens' # <<>> /\ Last(tokens') = t
  BY <1>1, Appended
<1>4. leftParen = Count(tokens, "(") /\ rightParen = Count(tokens, ")") /\ Legal(tokens)
  BY <1>1 DEF Known
<1>5. /\ Legal(Append(tokens, t)) <=> /\ t \in Opens \cup Ends \cup Asks /\ (t \in Opens <=> Expects(tokens))
                                      /\ t = ")" => rightParen < leftParen
      /\ leftParen \in Nat /\ rightParen \in Nat /\ rightParen <= leftParen
  BY <1>1, <1>4, Takes
<1>6. Expects(tokens) <=> ExpectsOperand
  BY DEF Expects, ExpectsOperand, Asks
<1>7. ToSet(tokens') = ToSet(tokens) \cup {t}
  BY <1>1, SetOfAppended
<1>8. \A u : Count(Append(tokens, t), u) = Count(tokens, u) + (IF t = u THEN 1 ELSE 0)
  BY <1>1, CountOfAppended
<1>9. Legal(tokens)' <=> Legal(Append(tokens, t))
  BY <1>1 DEF Legal
<1>10. \A u : Count(tokens, u)' = Count(Append(tokens, t), u)
  BY <1>1 DEF Count
<1> QED
  BY <1>1, <1>2, <1>4, <1>5, <1>6, <1>7, <1>8, <1>9, <1>10

\* It may not stand there.
LEMMA TokenRefused ==
  ASSUME Reads, NEW t \in Token, Read(t), Refused, ~Legal(tokens)'
  PROVE  Reads'
<1>1. /\ tokens' \in Seq(Token) /\ tokens' # <<>>
      /\ leftParen \in Nat /\ rightParen \in Nat /\ rightParen <= leftParen /\ result = <<>>
  BY TokenRead
<1>2. /\ status' = "refused" /\ varList' = varList /\ leftParen' = leftParen /\ rightParen' = rightParen
      /\ result' = result
  BY DEF Refused
<1>3. varList' \in Seq(Name) /\ IsInjective(varList)'
  BY <1>2 DEF Reads, IsInjective
<1>4. leftParen' \in Nat /\ rightParen' \in 0..(leftParen' + 1)
  BY <1>1, <1>2
<1> QED
  BY <1>1, <1>2, <1>3, <1>4 DEF Reads

\* It may.
LEMMA TokenTaken ==
  ASSUME Reads, NEW t \in Token, Read(t), status' = status, result' = result, Legal(tokens)',
         varList' \in Seq(Name), IsInjective(varList)',
         ToSet(varList') = ToSet(varList) \cup Noted(t),
         leftParen' = leftParen + (IF t = "(" THEN 1 ELSE 0),
         rightParen' = rightParen + (IF t = ")" THEN 1 ELSE 0)
  PROVE  Reads'
<1>1. /\ status = "reading" /\ result = <<>> /\ Known
      /\ tokens' \in Seq(Token) /\ tokens' # <<>>
      /\ Last(tokens') = t /\ ToSet(tokens') = ToSet(tokens) \cup {t}
      /\ Legal(tokens)' <=> /\ t \in Opens \cup Ends \cup Asks /\ (t \in Opens <=> ExpectsOperand)
                            /\ t = ")" => rightParen < leftParen
      /\ leftParen = Count(tokens, "(") /\ rightParen = Count(tokens, ")")
  BY TokenRead
<1>2. \A u : Count(tokens, u)' = Count(tokens, u) + (IF t = u THEN 1 ELSE 0)
  BY TokenRead
<1>3. leftParen' = Count(tokens, "(")' /\ rightParen' = Count(tokens, ")")'
  BY <1>1, <1>2
<1>4. ToSet(varList)' = NormalNames(tokens)'
  <2>1. NormalNames(tokens') = NormalNames(tokens) \cup Noted(t)
    BY <1>1, NamesNoted
  <2>2. ToSet(varList) = NormalNames(tokens)
    BY <1>1 DEF Known
  <2>3. ToSet(varList)' = ToSet(varList') /\ NormalNames(tokens)' = NormalNames(tokens')
    BY DEF ToSet, NormalNames
  <2> QED
    BY <2>1, <2>2, <2>3
<1>5. ASSUME ~ExpectsOperand' PROVE ToSet(tokens)' \cap (Numeral \cup Name) # {}
  <2>1. t \notin Operator \cup {"("}
    BY <1>1, <1>5 DEF ExpectsOperand
  <2>2. CASE t \in Numeral \cup Name
    BY <1>1, <2>2 DEF ToSet
  <2>3. CASE t \notin Numeral \cup Name
    <3>1. t = ")"
      BY <1>1, <2>1, <2>3 DEF Opens, Ends, Asks, Atom
    <3>2. ~ExpectsOperand
      BY <1>1, <3>1, Kinds
    <3>3. ToSet(tokens) \cap (Numeral \cup Name) # {}
      BY <1>1, <3>2 DEF Known
    <3> QED
      BY <1>1, <3>3 DEF ToSet
  <2> QED
    BY <2>2, <2>3
<1>6. Known'
  BY <1>3, <1>4, <1>5 DEF Known
<1> QED
  BY <1>1, <1>6 DEF Reads

LEMMA ReadsNext == Reads /\ [Next]_vars => Reads'
<1> SUFFICES ASSUME Reads, [Next]_vars PROVE Reads'
  OBVIOUS
<1>0. varList \in Seq(Name) /\ IsInjective(varList) /\ tokens \in Seq(Token)
  BY DEF Reads
<1>1. ASSUME NEW t \in Token, HelpNumber(t) PROVE Reads'
  <2>1. Read(t) /\ t \in Atom /\ t \in Opens /\ t # "(" /\ t # ")" /\ t \notin Name
    BY <1>1, TokenAssumption, TextAssumption DEF HelpNumber, Atom, Opens
  <2>2. Legal(tokens)' <=> ExpectsOperand
    BY <2>1, TokenRead
  <2>3. CASE ExpectsOperand
    <3>1. UNCHANGED <<varList, leftParen, rightParen, status, result>>
      BY <1>1, <2>3 DEF HelpNumber
    <3>2. leftParen + 0 = leftParen /\ rightParen + 0 = rightParen
      BY <2>1, TokenRead
    <3>3. ToSet(varList') = ToSet(varList) \cup Noted(t) /\ IsInjective(varList)'
      BY <1>0, <2>1, <3>1, NamesNoted
    <3> QED
      BY <1>0, <2>1, <2>2, <2>3, <3>1, <3>2, <3>3, TokenTaken
  <2>4. CASE ~ExpectsOperand
    BY <1>1, <2>1, <2>2, <2>4, TokenRefused DEF HelpNumber
  <2> QED
    BY <2>3, <2>4
<1>2. ASSUME NEW t \in Token, HelpVariable(t) PROVE Reads'
  <2>1. Read(t) /\ t \in Name /\ t # "(" /\ t # ")" /\ t \notin Operator /\ t \notin Numeral
    BY <1>2, TokenAssumption DEF HelpVariable
  <2>2. Legal(tokens)' <=> t \notin Invalid /\ ExpectsOperand
    <3>1. t \in Opens <=> t \notin Invalid
      BY <2>1 DEF Opens, Atom
    <3>2. t \in Opens \cup Ends \cup Asks <=> t \notin Invalid
      BY <2>1 DEF Opens, Atom, Ends, Asks
    <3> QED
      BY <2>1, <3>1, <3>2, TokenRead
  <2>0. Noted(t) = {Normal[t]} /\ Normal[t] \in Name /\ (t \in Invalid <=> Normal[t] \in Invalid)
    BY <2>1, NamesNoted
  <2>3. CASE t \notin Invalid /\ ExpectsOperand
    <3>1. NoteName(Normal[t]) /\ UNCHANGED <<leftParen, rightParen, status, result>>
      BY <1>2, <2>0, <2>3 DEF HelpVariable
    <3>2. leftParen + 0 = leftParen /\ rightParen + 0 = rightParen
      BY <2>1, TokenRead
    <3> DEFINE n == Normal[t]
    <3>3. NoteName(n) /\ n \in Name /\ Noted(t) = {n}
      BY <2>0, <3>1
    <3> HIDE DEF n
    <3>4. varList' \in Seq(Name) /\ IsInjective(varList)' /\ ToSet(varList') = ToSet(varList) \cup Noted(t)
      <4>1. CASE n \in ToSet(varList)
        <5>1. varList' = varList
          BY <3>3, <4>1 DEF NoteName
        <5> QED
          BY <1>0, <3>3, <4>1, <5>1
      <4>2. CASE n \notin ToSet(varList)
        <5>1. varList' = Append(varList, n)
          BY <3>3, <4>2 DEF NoteName
        <5>2. Append(varList, n) \in Seq(Name)
          BY <1>0, <3>3, AppendProperties
        <5>3. ToSet(Append(varList, n)) = ToSet(varList) \cup {n} /\ IsInjective(Append(varList, n))
          BY <1>0, <3>3, <4>2, SetOfAppended
        <5> QED
          BY <3>3, <5>1, <5>2, <5>3
      <4> QED
        BY <4>1, <4>2
    <3> QED
      BY <2>1, <2>2, <2>3, <3>1, <3>2, <3>4, TokenTaken
  <2>4. CASE ~(t \notin Invalid /\ ExpectsOperand)
    BY <1>2, <2>0, <2>1, <2>2, <2>4, TokenRefused DEF HelpVariable
  <2> QED
    BY <2>3, <2>4
<1>3. ASSUME NEW t \in Token, HelpOperator(t) PROVE Reads'
  <2>1. Read(t) /\ t \in Operator /\ t # "(" /\ t # ")" /\ t \notin Name /\ t \notin Opens /\ t \in Asks
    BY <1>3, Kinds, TokenAssumption DEF HelpOperator, Asks
  <2>2. Legal(tokens)' <=> ~ExpectsOperand
    BY <2>1, TokenRead
  <2>3. CASE ~ExpectsOperand
    <3>1. UNCHANGED <<varList, leftParen, rightParen, status, result>>
      BY <1>3, <2>3 DEF HelpOperator
    <3>2. leftParen + 0 = leftParen /\ rightParen + 0 = rightParen
      BY <2>1, TokenRead
    <3>3. ToSet(varList') = ToSet(varList) \cup Noted(t) /\ IsInjective(varList)'
      BY <1>0, <2>1, <3>1, NamesNoted
    <3> QED
      BY <1>0, <2>1, <2>2, <2>3, <3>1, <3>2, <3>3, TokenTaken
  <2>4. CASE ExpectsOperand
    BY <1>3, <2>1, <2>2, <2>4, TokenRefused DEF HelpOperator
  <2> QED
    BY <2>3, <2>4
<1>4. CASE HelpParenLeft
  <2>1. Read("(") /\ "(" \in Opens /\ "(" \in Token /\ "(" \notin Name /\ "(" # ")"
    BY <1>4, TokenAssumption DEF HelpParenLeft, Opens, Token
  <2>2. Legal(tokens)' <=> ExpectsOperand
    BY <2>1, TokenRead
  <2>3. CASE ExpectsOperand
    <3>1. leftParen' = leftParen + 1 /\ UNCHANGED <<varList, rightParen, status, result>>
      BY <1>4, <2>3 DEF HelpParenLeft
    <3>2. rightParen + 0 = rightParen
      BY <2>1, TokenRead
    <3>3. ToSet(varList') = ToSet(varList) \cup Noted("(") /\ IsInjective(varList)'
      BY <1>0, <2>1, <3>1, NamesNoted
    <3> QED
      BY <1>0, <2>1, <2>2, <2>3, <3>1, <3>2, <3>3, TokenTaken
  <2>4. CASE ~ExpectsOperand
    BY <1>4, <2>1, <2>2, <2>4, TokenRefused DEF HelpParenLeft
  <2> QED
    BY <2>3, <2>4
<1>5. CASE HelpParenRight
  <2>1. Read(")") /\ ")" \notin Opens /\ ")" \in Ends /\ ")" \in Token /\ ")" \notin Name /\ "(" # ")"
    BY <1>5, Kinds, TokenAssumption DEF HelpParenRight, Ends, Token
  <2>2. Legal(tokens)' <=> ~ExpectsOperand /\ rightParen < leftParen
    BY <2>1, TokenRead
  <2>3. leftParen \in Nat /\ rightParen \in Nat /\ rightParen <= leftParen /\ status = "reading"
    BY <2>1, TokenRead
  <2>4. CASE ExpectsOperand
    BY <1>5, <2>1, <2>2, <2>4, TokenRefused DEF HelpParenRight
  <2>5. CASE ~ExpectsOperand
    <3>1. /\ rightParen' = rightParen + 1 /\ status' = IF rightParen' > leftParen THEN "refused" ELSE status
          /\ varList' = varList /\ leftParen' = leftParen /\ result' = result
      BY <1>5, <2>5 DEF HelpParenRight
    <3>2. ToSet(varList') = ToSet(varList) \cup Noted(")") /\ IsInjective(varList)' /\ varList' \in Seq(Name)
      BY <1>0, <2>1, <3>1, NamesNoted
    <3>3. CASE rightParen < leftParen
      <4>1. status' = status /\ leftParen' = leftParen + 0
        BY <2>3, <3>1, <3>3
      <4> QED
        BY <2>1, <2>2, <2>5, <3>1, <3>2, <3>3, <4>1, TokenTaken
    <3>4. CASE ~(rightParen < leftParen)
      <4>1. status' = "refused" /\ ~Legal(tokens)' /\ rightParen' \in 0..(leftParen' + 1) /\ leftParen' \in Nat
        BY <2>2, <2>3, <3>1, <3>4
      <4>2. tokens' \in Seq(Token) /\ tokens' # <<>> /\ result = <<>>
        BY <2>1, TokenRead
      <4> QED
        BY <3>1, <3>2, <4>1, <4>2 DEF Reads
    <3> QED
      BY <3>3, <3>4
  <2> QED
    BY <2>4, <2>5
<1>6. ASSUME NEW t \in Token, ForeignToken(t) PROVE Reads'
  <2>1. Read(t) /\ Refused /\ t \notin Opens \cup Ends \cup Asks
    BY <1>6, TextAssumption DEF ForeignToken, Opens, Ends, Asks, Atom
  <2>2. ~Legal(tokens)'
    BY <2>1, TokenRead
  <2> QED
    BY <2>1, <2>2, TokenRefused
<1>7. CASE EndOfText
  <2>1. /\ status = "reading" /\ result = <<>> /\ Known
        /\ status' = IF ~ExpectsOperand /\ leftParen = rightParen THEN "formula" ELSE "unfinished"
        /\ tokens' = tokens /\ varList' = varList /\ leftParen' = leftParen /\ rightParen' = rightParen
        /\ result' = result
    BY <1>7 DEF EndOfText, Reads
  <2>2. Known' /\ (ExpectsOperand' <=> ExpectsOperand)
    BY <2>1 DEF Known, ExpectsOperand
  <2> QED
    BY <2>1, <2>2 DEF Reads
<1>8. CASE EvaluateOnce
  <2>1. /\ status = "formula" /\ Known /\ ~ExpectsOperand /\ leftParen = rightParen
        /\ status' = "evaluated" /\ result' = <<Evaluate(tokens)>>
        /\ tokens' = tokens /\ varList' = varList /\ leftParen' = leftParen /\ rightParen' = rightParen
    BY <1>8 DEF EvaluateOnce, Reads
  <2>2. Known' /\ (ExpectsOperand' <=> ExpectsOperand)
    BY <2>1 DEF Known, ExpectsOperand
  <2>3. result' = <<Evaluate(tokens)>>' /\ result' # <<>>
    BY <2>1
  <2> QED
    BY <2>1, <2>2, <2>3 DEF Reads
<1>9. CASE SkipBlank \/ UNCHANGED vars
  <2>1. /\ tokens' = tokens /\ varList' = varList /\ leftParen' = leftParen /\ rightParen' = rightParen
        /\ status' = status /\ result' = result
    BY <1>9 DEF SkipBlank, vars
  <2>2. (Known' <=> Known) /\ (ExpectsOperand' <=> ExpectsOperand)
    BY <2>1 DEF Known, ExpectsOperand
  <2> QED
    BY <2>1, <2>2 DEF Reads
<1> QED
  BY <1>1, <1>2, <1>3, <1>4, <1>5, <1>6, <1>7, <1>8, <1>9 DEF Next

LEMMA ReadsAlways == Spec => []Reads
<1>1. Init => Reads
  BY ReadsInit
<1>2. Reads /\ [Next]_vars => Reads'
  BY ReadsNext
<1> QED
  BY <1>1, <1>2, PTL DEF Spec

\* The blanks stand among the tokens, and the bound counts both.
Blanks ==
  /\ tokens \in Seq(Token) /\ blanks \in Seq(Nat) /\ Len(tokens) + Len(blanks) <= MaxTokens
  /\ \A k \in DOMAIN blanks : blanks[k] <= Len(tokens)

LEMMA BlanksNext == Blanks /\ [Next]_vars => Blanks'
<1> SUFFICES ASSUME Blanks, [Next]_vars PROVE Blanks'
  OBVIOUS
<1>0. /\ tokens \in Seq(Token) /\ blanks \in Seq(Nat) /\ Len(tokens) \in Nat /\ Len(blanks) \in Nat
      /\ DOMAIN blanks = 1..Len(blanks) /\ \A k \in DOMAIN blanks : blanks[k] \in Nat
  BY LenProperties, ElementOfSeq DEF Blanks
<1>1. ASSUME NEW t \in Token, Read(t) PROVE Blanks'
  <2>1. tokens' = Append(tokens, t) /\ blanks' = blanks /\ Len(tokens) + Len(blanks) < MaxTokens
    BY <1>1 DEF Read
  <2>2. tokens' \in Seq(Token) /\ Len(tokens') = Len(tokens) + 1
    BY <1>0, <2>1, Appended
  <2>3. Len(tokens') + Len(blanks') <= MaxTokens
    BY <1>0, <2>1, <2>2, TextAssumption
  <2>4. \A k \in DOMAIN blanks : blanks[k] <= Len(tokens')
    BY <1>0, <2>2 DEF Blanks
  <2> QED
    BY <1>0, <2>1, <2>2, <2>3, <2>4 DEF Blanks
<1>2. CASE SkipBlank
  <2>1. /\ tokens' = tokens /\ blanks' = Append(blanks, Len(tokens))
        /\ Len(tokens) + Len(blanks) < MaxTokens
    BY <1>2 DEF SkipBlank
  <2>2. /\ blanks' \in Seq(Nat) /\ Len(blanks') = Len(blanks) + 1 /\ DOMAIN blanks' = 1..Len(blanks')
        /\ \A k \in 1..Len(blanks) : blanks'[k] = blanks[k]
        /\ blanks'[Len(blanks) + 1] = Len(tokens)
    BY <1>0, <2>1, AppendProperties, LenProperties
  <2>3. \A k \in DOMAIN blanks' : blanks'[k] <= Len(tokens)
    <3> SUFFICES ASSUME NEW k \in DOMAIN blanks' PROVE blanks'[k] <= Len(tokens)
      OBVIOUS
    <3>1. k \in 1..Len(blanks) \/ k = Len(blanks) + 1
      BY <1>0, <2>2
    <3> QED
      BY <1>0, <2>2, <3>1 DEF Blanks
  <2>4. Len(tokens) + Len(blanks') <= MaxTokens
    BY <1>0, <2>1, <2>2, TextAssumption
  <2> QED
    BY <1>0, <2>1, <2>2, <2>3, <2>4 DEF Blanks
<1>3. CASE EndOfText \/ EvaluateOnce \/ UNCHANGED vars
  <2>1. tokens' = tokens /\ blanks' = blanks
    BY <1>3 DEF EndOfText, EvaluateOnce, vars
  <2> QED
    BY <2>1 DEF Blanks
<1>4. "(" \in Token /\ ")" \in Token
  BY DEF Token
<1>5. HelpParenLeft \/ HelpParenRight => Read("(") \/ Read(")")
  BY DEF HelpParenLeft, HelpParenRight
<1>6. \A t \in Token : HelpNumber(t) \/ HelpVariable(t) \/ HelpOperator(t) \/ ForeignToken(t) => Read(t)
  BY DEF HelpNumber, HelpVariable, HelpOperator, ForeignToken
<1> QED
  BY <1>1, <1>2, <1>3, <1>4, <1>5, <1>6 DEF Next

LEMMA BlanksAlways == Spec => []Blanks
<1>1. Init => Blanks
  <2> SUFFICES ASSUME Init PROVE Blanks
    OBVIOUS
  <2>1. tokens = <<>> /\ blanks = <<>>
    BY DEF Init
  <2>2. tokens \in Seq(Token) /\ blanks \in Seq(Nat) /\ Len(tokens) = 0 /\ Len(blanks) = 0
    BY <2>1, EmptySeq
  <2>3. DOMAIN blanks = 1..0
    BY <2>2, LenProperties
  <2> QED
    BY <2>2, <2>3, TextAssumption DEF Blanks
<1> QED
  BY <1>1, BlanksNext, PTL DEF Spec

\* The state of the constructor is well formed: each name is listed once, and
\* the ")" never get ahead of the "(" by more than the one that is refused.
THEOREM FormulaTypes == Spec => []TypeOK
<1>1. ASSUME Reads, Blanks PROVE TypeOK
  <2>1. ToSet(varList) \subseteq Name
    <3>1. varList \in Seq(Name)
      BY <1>1 DEF Reads
    <3>2. DOMAIN varList = 1..Len(varList)
      BY <3>1, LenProperties
    <3> QED
      BY <3>1, <3>2, ElementOfSeq DEF ToSet
  <2>2. leftParen \in Nat /\ rightParen \in 0..(leftParen + 1)
    <3>1. CASE status = "refused"
      BY <1>1, <3>1 DEF Reads
    <3>2. CASE status # "refused"
      <4>1. Known /\ tokens \in Seq(Token)
        BY <1>1, <3>2 DEF Reads
      <4>2. "(" \in Token
        BY DEF Token
      <4>3. leftParen \in Nat /\ rightParen \in Nat /\ rightParen <= leftParen
        BY <4>1, <4>2, Takes DEF Known
      <4> QED
        BY <4>3
    <3> QED
      BY <3>1, <3>2
  <2> QED
    BY <1>1, <2>1, <2>2 DEF Reads, Blanks, TypeOK
<1> QED
  BY <1>1, ReadsAlways, BlanksAlways, PTL

\* Its names are cell names if those it lists are.
LEMMA NamesAreCells ==
  ASSUME ToSet(varList) = NormalNames(tokens)
  PROVE  Misnamed = {} <=> ToSet(tokens) \cap Name \subseteq CellName
<1>1. \A n \in Name : n \in CellName <=> Normal[n] \in CellName
  BY TokenAssumption
<1> QED
  BY <1>1 DEF Misnamed, NormalNames

-----------------------------------------------------------------------------
(* The server.                                                             *)

\* One round of getVariables.
WithNames(names, t, spaces) == names \o VariablesIn(t) \o spaces

\* The rounds of getVariables.
LEMMA NamesOf ==
  ASSUME NEW text \in Seq(Token), NEW gaps
  PROVE  \E run : /\ GetVariables(text, gaps) = run[Len(text)]
                  /\ run[0] = Spaces(gaps, 0)
                  /\ \A i \in 1..Len(text) : run[i] = WithNames(run[i - 1], text[i], Spaces(gaps, i))
<1> DEFINE N == Len(text)
           Step(run, i) == IF i = 0 THEN Spaces(gaps, 0) ELSE WithNames(run[i - 1], text[i], Spaces(gaps, i))
           Solves(run, n) == \A i \in 0..N : i < n => run[i] = Step(run, i)
           S == {n \in Nat : \E run : Solves(run, n)}
<1>0. N \in Nat
  BY LenProperties
<1> HIDE DEF N
<1>1. 0 \in S
  BY <1>0
<1>2. ASSUME NEW n \in S PROVE n + 1 \in S
  <2>1. PICK run : Solves(run, n)
    OBVIOUS
  <2> DEFINE new == [i \in 0..N |-> Step(run, i)]
  <2>2. ASSUME NEW i \in 0..N, i < n + 1 PROVE new[i] = Step(new, i)
    <3>1. CASE i = 0
      BY <3>1
    <3>2. CASE i # 0
      <4>1. i - 1 \in 0..N /\ i - 1 < n
        BY <1>0, <2>2, <3>2
      <4>2. run[i - 1] = new[i - 1]
        BY <2>1, <4>1
      <4>3. new[i] = WithNames(run[i - 1], text[i], Spaces(gaps, i))
        BY <3>2
      <4> HIDE DEF new
      <4> QED
        BY <3>2, <4>2, <4>3
    <3> QED
      BY <3>1, <3>2
  <2> HIDE DEF new, Step
  <2>3. Solves(new, n + 1)
    BY <2>2
  <2>4. n + 1 \in Nat
    OBVIOUS
  <2> HIDE DEF Solves
  <2> QED
    BY <2>3, <2>4
<1>3. S = Nat
  <2> HIDE DEF Solves
  <2>1. S \in SUBSET Nat
    OBVIOUS
  <2> HIDE DEF S
  <2> QED
    BY <1>1, <1>2, <2>1, NatSet
<1>4. N + 1 \in S
  <2> HIDE DEF S
  <2> QED
    BY <1>0, <1>3
<1>5. PICK k : Solves(k, N + 1)
  BY <1>4
<1>6. \A i \in 0..N : k[i] = Step(k, i)
  <2> HIDE DEF Step
  <2>1. \A i \in 0..N : i < N + 1
    BY <1>0
  <2> QED
    BY <1>5, <2>1
<1> DEFINE run == [i \in 0..N |-> k[i]]
           Is(r) == r = [i \in 0..N |-> Step(r, i)]
<1>7. \A i \in 0..N : run[i] = Step(run, i)
  <2> SUFFICES ASSUME NEW i \in 0..N PROVE run[i] = Step(run, i)
    OBVIOUS
  <2>1. CASE i = 0
    BY <1>6, <2>1
  <2>2. CASE i # 0
    <3>1. i - 1 \in 0..N
      BY <1>0, <2>2
    <3>2. run[i - 1] = k[i - 1] /\ run[i] = k[i]
      BY <3>1
    <3> HIDE DEF run
    <3> QED
      BY <1>6, <2>2, <3>2
  <2> QED
    BY <2>1, <2>2
<1>8. Is(run)
  <2> HIDE DEF Step
  <2>1. run = [i \in 0..N |-> run[i]]
    OBVIOUS
  <2> HIDE DEF run
  <2>2. [i \in 0..N |-> run[i]] = [i \in 0..N |-> Step(run, i)]
    BY <1>7
  <2> QED
    BY <2>1, <2>2
<1> DEFINE it == CHOOSE r : Is(r)
<1>9. GetVariables(text, gaps) = it[N]
  BY Zenon DEF GetVariables, WithNames, N
<1> HIDE DEF Is, run
<1>10. Is(it)
  BY <1>8
<1> HIDE DEF it
<1>11. it = [i \in 0..N |-> Step(it, i)]
  BY <1>10 DEF Is
<1>12. \A i \in 0..N : it[i] = Step(it, i)
  <2> HIDE DEF Step
  <2> QED
    BY <1>11
<1>13. it[0] = Spaces(gaps, 0)
  <2>1. 0 \in 0..N
    BY <1>0
  <2>2. it[0] = Step(it, 0)
    BY <1>12, <2>1
  <2> QED
    BY <2>2
<1>14. \A i \in 1..N : it[i] = WithNames(it[i - 1], text[i], Spaces(gaps, i))
  <2> SUFFICES ASSUME NEW i \in 1..N PROVE it[i] = WithNames(it[i - 1], text[i], Spaces(gaps, i))
    OBVIOUS
  <2>1. i \in 0..N /\ i # 0
    BY <1>0
  <2> QED
    BY <1>12, <2>1
<1> QED
  BY <1>9, <1>13, <1>14 DEF N

\* The rounds of the loop over the tokens.
LEMMA RunOf ==
  ASSUME NEW text \in Seq(Token), NEW strict
  PROVE  \E run : /\ Evaluated(text, strict) = EvaluateEnd(run[Len(text)])
                  /\ run[0] = Start(strict)
                  /\ \A i \in 1..Len(text) : run[i] = EvaluateToken(run[i - 1], text[i])
<1> DEFINE N == Len(text)
           Step(run, i) == IF i = 0 THEN Start(strict) ELSE EvaluateToken(run[i - 1], text[i])
           Solves(run, n) == \A i \in 0..N : i < n => run[i] = Step(run, i)
           S == {n \in Nat : \E run : Solves(run, n)}
<1>0. N \in Nat
  BY LenProperties
<1> HIDE DEF N
<1>1. 0 \in S
  BY <1>0
<1>2. ASSUME NEW n \in S PROVE n + 1 \in S
  <2>1. PICK run : Solves(run, n)
    OBVIOUS
  <2> DEFINE new == [i \in 0..N |-> Step(run, i)]
  <2>2. ASSUME NEW i \in 0..N, i < n + 1 PROVE new[i] = Step(new, i)
    <3>1. CASE i = 0
      BY <3>1
    <3>2. CASE i # 0
      <4>1. i - 1 \in 0..N /\ i - 1 < n
        BY <1>0, <2>2, <3>2
      <4>2. run[i - 1] = new[i - 1]
        BY <2>1, <4>1
      <4>3. new[i] = EvaluateToken(run[i - 1], text[i])
        BY <3>2
      <4> HIDE DEF new
      <4> QED
        BY <3>2, <4>2, <4>3
    <3> QED
      BY <3>1, <3>2
  <2> HIDE DEF new, Step
  <2>3. Solves(new, n + 1)
    BY <2>2
  <2>4. n + 1 \in Nat
    OBVIOUS
  <2> HIDE DEF Solves
  <2> QED
    BY <2>3, <2>4
<1>3. S = Nat
  <2> HIDE DEF Solves
  <2>1. S \in SUBSET Nat
    OBVIOUS
  <2> HIDE DEF S
  <2> QED
    BY <1>1, <1>2, <2>1, NatSet
<1>4. N + 1 \in S
  <2> HIDE DEF S
  <2> QED
    BY <1>0, <1>3
<1>5. PICK k : Solves(k, N + 1)
  BY <1>4
<1>6. \A i \in 0..N : k[i] = Step(k, i)
  <2> HIDE DEF Step
  <2>1. \A i \in 0..N : i < N + 1
    BY <1>0
  <2> QED
    BY <1>5, <2>1
<1> DEFINE run == [i \in 0..N |-> k[i]]
           Is(r) == r = [i \in 0..N |-> Step(r, i)]
<1>7. \A i \in 0..N : run[i] = Step(run, i)
  <2> SUFFICES ASSUME NEW i \in 0..N PROVE run[i] = Step(run, i)
    OBVIOUS
  <2>1. CASE i = 0
    BY <1>6, <2>1
  <2>2. CASE i # 0
    <3>1. i - 1 \in 0..N
      BY <1>0, <2>2
    <3>2. run[i - 1] = k[i - 1] /\ run[i] = k[i]
      BY <3>1
    <3> HIDE DEF run
    <3> QED
      BY <1>6, <2>2, <3>2
  <2> QED
    BY <2>1, <2>2
<1>8. Is(run)
  <2> HIDE DEF Step
  <2>1. run = [i \in 0..N |-> run[i]]
    OBVIOUS
  <2> HIDE DEF run
  <2>2. [i \in 0..N |-> run[i]] = [i \in 0..N |-> Step(run, i)]
    BY <1>7
  <2> QED
    BY <2>1, <2>2
<1> DEFINE it == CHOOSE r : Is(r)
<1>9. Evaluated(text, strict) = EvaluateEnd(it[N])
  BY Zenon DEF Evaluated, N
<1> HIDE DEF Is, run
<1>10. Is(it)
  BY <1>8
<1> HIDE DEF it
<1>11. it = [i \in 0..N |-> Step(it, i)]
  BY <1>10 DEF Is
<1>12. \A i \in 0..N : it[i] = Step(it, i)
  <2> HIDE DEF Step
  <2> QED
    BY <1>11
<1>13. it[0] = Start(strict)
  <2>1. 0 \in 0..N
    BY <1>0
  <2>2. it[0] = Step(it, 0)
    BY <1>12, <2>1
  <2> QED
    BY <2>2
<1>14. \A i \in 1..N : it[i] = EvaluateToken(it[i - 1], text[i])
  <2> SUFFICES ASSUME NEW i \in 1..N PROVE it[i] = EvaluateToken(it[i - 1], text[i])
    OBVIOUS
  <2>1. i \in 0..N /\ i # 0
    BY <1>0
  <2> QED
    BY <1>12, <2>1
<1> QED
  BY <1>9, <1>13, <1>14 DEF N

LEMMA SetOfJoined ==
  ASSUME NEW S, NEW a \in Seq(S), NEW b \in Seq(S)
  PROVE  a \o b \in Seq(S) /\ ToSet(a \o b) = ToSet(a) \cup ToSet(b)
<1> DEFINE c == a \o b
<1>1. /\ c \in Seq(S) /\ Len(c) = Len(a) + Len(b) /\ Len(a) \in Nat /\ Len(b) \in Nat
      /\ \A n \in 1..(Len(a) + Len(b)) : c[n] = IF n <= Len(a) THEN a[n] ELSE b[n - Len(a)]
  BY ConcatProperties, LenProperties
<1> HIDE DEF c
<1>2. DOMAIN a = 1..Len(a) /\ DOMAIN b = 1..Len(b) /\ DOMAIN c = 1..(Len(a) + Len(b))
  BY <1>1, LenProperties
<1>3. ToSet(c) \subseteq ToSet(a) \cup ToSet(b)
  <2> SUFFICES ASSUME NEW n \in 1..(Len(a) + Len(b)) PROVE c[n] \in ToSet(a) \cup ToSet(b)
    BY <1>2 DEF ToSet
  <2>1. CASE n <= Len(a)
    <3>1. n \in DOMAIN a /\ c[n] = a[n]
      BY <1>1, <1>2, <2>1
    <3> QED
      BY <3>1 DEF ToSet
  <2>2. CASE ~(n <= Len(a))
    <3>1. n - Len(a) \in DOMAIN b /\ c[n] = b[n - Len(a)]
      BY <1>1, <1>2, <2>2
    <3> QED
      BY <3>1 DEF ToSet
  <2> QED
    BY <2>1, <2>2
<1>4. ToSet(a) \subseteq ToSet(c)
  <2> SUFFICES ASSUME NEW n \in 1..Len(a) PROVE a[n] \in ToSet(c)
    BY <1>2 DEF ToSet
  <2>1. n \in DOMAIN c /\ c[n] = a[n]
    BY <1>1, <1>2
  <2> QED
    BY <2>1 DEF ToSet
<1>5. ToSet(b) \subseteq ToSet(c)
  <2> SUFFICES ASSUME NEW n \in 1..Len(b) PROVE b[n] \in ToSet(c)
    BY <1>2 DEF ToSet
  <2>1. Len(a) + n \in DOMAIN c /\ c[Len(a) + n] = b[n]
    <3>1. Len(a) + n \in 1..(Len(a) + Len(b)) /\ ~(Len(a) + n <= Len(a)) /\ (Len(a) + n) - Len(a) = n
      BY <1>1
    <3> QED
      BY <1>1, <1>2, <3>1
  <2> QED
    BY <2>1 DEF ToSet
<1> QED
  BY <1>1, <1>3, <1>4, <1>5 DEF c

\* The blanks at one place of a text.
LEMMA SpacesAre ==
  ASSUME NEW gaps \in Seq(Nat), NEW p
  PROVE  /\ Spaces(gaps, p) \in Seq({Blank})
         /\ Blank \in ToSet(Spaces(gaps, p)) <=> \E k \in DOMAIN gaps : gaps[k] = p
         /\ ToSet(Spaces(gaps, p)) \subseteq {Blank}
<1> DEFINE K == {k \in DOMAIN gaps : gaps[k] = p}
           g == Gap(gaps, p)
           s == Spaces(gaps, p)
<1>1. IsFiniteSet(K)
  <2>1. DOMAIN gaps = 1..Len(gaps) /\ Len(gaps) \in Nat
    BY LenProperties
  <2>2. IsFiniteSet(1..Len(gaps))
    BY <2>1, FS_Interval
  <2>3. K \subseteq 1..Len(gaps)
    BY <2>1
  <2> QED
    BY <2>2, <2>3, FS_Subset
<1>2. g = Cardinality(K)
  BY DEF Gap
<1> HIDE DEF K, g
<1>3. g \in Nat /\ (g = 0 <=> K = {})
  BY <1>1, <1>2, FS_CardinalityType, FS_EmptySet
<1>4. s = [k \in 1..g |-> Blank]
  BY DEF Spaces, g
<1>5. s \in Seq({Blank}) /\ DOMAIN s = 1..g /\ \A k \in 1..g : s[k] = Blank
  <2>1. s \in [1..g -> {Blank}]
    BY <1>4
  <2>2. s \in Seq({Blank})
    BY <1>3, <2>1, SeqDef
  <2> QED
    BY <1>4, <2>2
<1> HIDE DEF s
<1>6. ToSet(s) \subseteq {Blank}
  BY <1>5 DEF ToSet
<1>7. Blank \in ToSet(s) <=> g # 0
  <2>1. ASSUME g # 0 PROVE Blank \in ToSet(s)
    <3>1. 1 \in 1..g
      BY <1>3, <2>1
    <3> QED
      BY <1>5, <3>1 DEF ToSet
  <2>2. ASSUME g = 0 PROVE Blank \notin ToSet(s)
    <3>1. DOMAIN s = 1..0
      BY <1>5, <2>2
    <3> QED
      BY <3>1 DEF ToSet
  <2> QED
    BY <2>1, <2>2
<1>8. K # {} <=> \E k \in DOMAIN gaps : gaps[k] = p
  BY DEF K
<1> QED
  BY <1>3, <1>5, <1>6, <1>7, <1>8 DEF s

\* The names it finds, if each is one to the server too: those of the text, and
\* its blanks.
LEMMA NamesFound ==
  ASSUME NEW text \in Seq(Token), ToSet(text) \cap Name \subseteq CellName,
         NEW gaps \in Seq(Nat), \A k \in DOMAIN gaps : gaps[k] <= Len(text)
  PROVE  /\ \A n : n \in ToSet(GetVariables(text, gaps)) /\ n # Blank <=> n \in ToSet(text) \cap Name
         /\ Blank \in ToSet(GetVariables(text, gaps)) <=> gaps # <<>>
<1> DEFINE N == Len(text)
           W == Name \cup {Blank}
           First(n) == {text[i] : i \in 1..n} \cap Name
           Blanked(n) == {b \in {Blank} : \E k \in DOMAIN gaps : gaps[k] <= n}
<1>1. PICK run : /\ GetVariables(text, gaps) = run[Len(text)]
                 /\ run[0] = Spaces(gaps, 0)
                 /\ \A i \in 1..Len(text) : run[i] = WithNames(run[i - 1], text[i], Spaces(gaps, i))
  BY NamesOf
<1>2. N \in Nat /\ DOMAIN text = 1..N /\ \A k \in DOMAIN gaps : gaps[k] \in Nat
  BY LenProperties, ElementOfSeq
<1> HIDE DEF N
<1>3. \A p : Spaces(gaps, p) \in Seq(W)
  BY SpacesAre
<1> DEFINE Done(n) == n <= N => run[n] \in Seq(W) /\ ToSet(run[n]) = First(n) \cup Blanked(n)
           S == {n \in Nat : Done(n)}
<1>4. 0 \in S
  <2>1. First(0) = {}
    OBVIOUS
  <2>2. ToSet(Spaces(gaps, 0)) = Blanked(0)
    <3>1. \A k \in DOMAIN gaps : gaps[k] <= 0 <=> gaps[k] = 0
      BY <1>2
    <3> QED
      BY <3>1, SpacesAre
  <2> HIDE DEF First, Blanked, W
  <2> QED
    BY <1>1, <1>3, <2>1, <2>2
<1>5. ASSUME NEW n \in S PROVE n + 1 \in S
  <2> SUFFICES ASSUME n + 1 <= N
               PROVE  run[n + 1] \in Seq(W) /\ ToSet(run[n + 1]) = First(n + 1) \cup Blanked(n + 1)
    OBVIOUS
  <2>1. /\ n \in Nat /\ n + 1 \in 1..N /\ (n + 1) - 1 = n
        /\ run[n] \in Seq(W) /\ ToSet(run[n]) = First(n) \cup Blanked(n)
    BY <1>2
  <2> DEFINE t == text[n + 1]
             s == Spaces(gaps, n + 1)
             v == VariablesIn(t)
  <2>2. run[n + 1] = run[n] \o v \o s
    BY <1>1, <2>1 DEF WithNames, N
  <2>3. First(n + 1) = First(n) \cup ({t} \cap Name)
    <3>1. 1..(n + 1) = (1..n) \cup {n + 1}
      BY <2>1
    <3> QED
      BY <3>1
  <2>4. Blanked(n + 1) = Blanked(n) \cup ToSet(s)
    <3>1. \A k \in DOMAIN gaps : gaps[k] <= n + 1 <=> gaps[k] <= n \/ gaps[k] = n + 1
      BY <1>2, <2>1
    <3> QED
      BY <3>1, SpacesAre
  <2>5. v \in Seq(W) /\ ToSet(v) = {t} \cap Name
    <3>1. CASE t \in Name
      <4>1. t \in ToSet(text)
        BY <1>2, <2>1 DEF ToSet
      <4>2. v = <<t>>
        BY <3>1, <4>1 DEF CellName, VariablesIn
      <4>3. <<t>> \in Seq(W) /\ Len(<<t>>) = 1 /\ <<t>>[1] = t
        BY <3>1
      <4>4. DOMAIN <<t>> = 1..1
        BY <4>3, LenProperties
      <4>5. ToSet(<<t>>) = {t}
        BY <4>3, <4>4 DEF ToSet
      <4> QED
        BY <3>1, <4>2, <4>3, <4>5
    <3>2. CASE t \notin Name
      <4>1. v = <<>> /\ <<>> \in Seq(W) /\ Len(<<>>) = 0
        BY <3>2, EmptySeq DEF VariablesIn
      <4>2. DOMAIN <<>> = 1..0
        BY <4>1, LenProperties
      <4>3. ToSet(<<>>) = {}
        BY <4>2 DEF ToSet
      <4> QED
        BY <3>2, <4>1, <4>3
    <3> QED
      BY <3>1, <3>2
  <2>6. s \in Seq(W)
    BY <1>3
  <2> HIDE DEF First, Blanked, W, t, s, v
  <2>7. run[n] \o v \in Seq(W) /\ ToSet(run[n] \o v) = ToSet(run[n]) \cup ToSet(v)
    BY <2>1, <2>5, SetOfJoined
  <2> DEFINE w == run[n] \o v
  <2>a. w \in Seq(W) /\ ToSet(w) = ToSet(run[n]) \cup ToSet(v)
    BY <2>7
  <2>b. run[n + 1] = w \o s
    BY <2>2
  <2> HIDE DEF w
  <2>c. w \o s \in Seq(W) /\ ToSet(w \o s) = ToSet(w) \cup ToSet(s)
    BY <2>6, <2>a, SetOfJoined
  <2>8. run[n + 1] \in Seq(W) /\ ToSet(run[n + 1]) = ToSet(w) \cup ToSet(s)
    BY <2>b, <2>c
  <2> QED
    BY <2>1, <2>3, <2>4, <2>5, <2>a, <2>8
<1>6. S = Nat
  <2> HIDE DEF Done
  <2>1. S \in SUBSET Nat
    OBVIOUS
  <2> HIDE DEF S
  <2> QED
    BY <1>4, <1>5, <2>1, NatSet
<1>7. N \in S
  <2> HIDE DEF S
  <2> QED
    BY <1>2, <1>6
<1>8. ToSet(run[N]) = First(N) \cup Blanked(N)
  <2> HIDE DEF First, Blanked, W
  <2> QED
    BY <1>2, <1>7
<1>9. First(N) = ToSet(text) \cap Name
  BY <1>2 DEF ToSet
<1>10. Blank \notin ToSet(text) \cap Name
  BY TokenAssumption
<1>11. Blanked(N) = IF gaps # <<>> THEN {Blank} ELSE {}
  <2>1. gaps # <<>> <=> \E k \in DOMAIN gaps : TRUE
    <3>1. DOMAIN gaps = 1..Len(gaps) /\ Len(gaps) \in Nat /\ (Len(gaps) = 0 <=> gaps = <<>>)
      BY LenProperties, EmptySeq
    <3>2. Len(gaps) # 0 => 1 \in DOMAIN gaps
      BY <3>1
    <3>3. Len(gaps) = 0 => \A k \in DOMAIN gaps : FALSE
      BY <3>1
    <3> QED
      BY <3>1, <3>2, <3>3
  <2> QED
    BY <2>1 DEF N
<1> HIDE DEF First, Blanked
<1>12. ToSet(GetVariables(text, gaps)) = (ToSet(text) \cap Name) \cup Blanked(N)
  BY <1>1, <1>8, <1>9 DEF N
<1> QED
  BY <1>10, <1>11, <1>12

\* The server takes each formula of the client, if none has an exponent and
\* all its names are cell names: what is next to what makes an operator after
\* another impossible, and the counts of the parentheses were compared.  Its
\* names are those of the text as they are written, and its blanks.
THEOREM ServerTakesTheFormulas == Spec => []ServerTakesFormulas
<1>1. ASSUME Reads, Blanks PROVE ServerTakesFormulas
  <2> DEFINE names == ToSet(GetVariables(tokens, blanks))
             own == ToSet(tokens) \cap Name
  <2> SUFFICES ASSUME status = "formula", Misnamed = {}, ToSet(tokens) \cap Exponent = {}
               PROVE  /\ EvaluateFormula(tokens)
                      /\ {Normal[n] : n \in names \ {Blank}} = ToSet(varList)
                      /\ names = ToSet(varList) <=> blanks = <<>> /\ \A n \in own : Normal[n] = n
    BY DEF ServerTakesFormulas
  <2>1. /\ tokens \in Seq(Token) /\ Known /\ Legal(tokens) /\ ~ExpectsOperand /\ leftParen = rightParen
        /\ leftParen = Count(tokens, "(") /\ rightParen = Count(tokens, ")")
        /\ ToSet(varList) = NormalNames(tokens)
    BY <1>1 DEF Reads, Known
  <2>2. DOMAIN tokens = 1..Len(tokens) /\ Len(tokens) \in Nat
    BY <2>1, LenProperties
  <2>3. own \subseteq CellName
    BY <2>1, NamesAreCells
  <2>4. ASSUME NEW i \in DOMAIN tokens
        PROVE  tokens[i] \in (Numeral \ Exponent) \cup {n \in Name : Parts[n] # <<>>}
                               \cup Operator \cup {"(", ")"}
    <3>1. tokens[i] \in Numeral \cup Name \cup Operator \cup {"(", ")"} /\ tokens[i] \notin Exponent
      BY <2>1 DEF Legal, Opens, Ends, Asks, Atom, ToSet
    <3>2. tokens[i] \in Name => Parts[tokens[i]] = <<tokens[i]>>
      BY <2>3 DEF ToSet, CellName
    <3>3. <<tokens[i]>> # <<>>
      OBVIOUS
    <3> QED
      BY <3>1, <3>2, <3>3
  <2>5. ASSUME NEW i \in DOMAIN tokens, i > 1 PROVE ~Doubled(tokens, i)
    <3> SUFFICES ASSUME tokens[i - 1] \in Operator, tokens[i] \in Operator PROVE FALSE
      BY DEF Doubled
    <3>1. tokens[i] \in Opens
      BY <2>1, <2>2 DEF Legal, Asks
    <3> QED
      BY <3>1, Kinds
  <2>6. Last(tokens) \notin Operator \cup {"("}
    BY <2>1 DEF ExpectsOperand
  <2>7. \E i \in DOMAIN tokens : tokens[i] \in Numeral \cup Name
    BY <2>1 DEF Known, ToSet
  <2>8. EvaluateFormula(tokens)
    BY <2>1, <2>4, <2>5, <2>6, <2>7 DEF EvaluateFormula
  <2>9. (\A n : n \in names /\ n # Blank <=> n \in own) /\ (Blank \in names <=> blanks # <<>>)
    BY <1>1, <2>1, <2>3, NamesFound DEF Blanks
  <2>10. ToSet(varList) = {Normal[n] : n \in own} /\ Blank \notin ToSet(varList)
    BY <2>1, TokenAssumption DEF NormalNames
  <2>11. \A n \in own : Normal[n] \in Name /\ Normal[Normal[n]] = Normal[n]
    BY TokenAssumption
  <2> HIDE DEF names, own
  <2>12. {Normal[n] : n \in names \ {Blank}} = ToSet(varList)
    <3>1. names \ {Blank} = own
      BY <2>9
    <3> QED
      BY <2>10, <3>1
  <2>13. ASSUME names = ToSet(varList) PROVE blanks = <<>> /\ \A n \in own : Normal[n] = n
    <3>1. blanks = <<>>
      BY <2>9, <2>10, <2>13
    <3>2. ASSUME NEW n \in own PROVE Normal[n] = n
      <4>1. PICK m \in own : n = Normal[m]
        BY <2>9, <2>10, <2>13
      <4> QED
        BY <2>11, <4>1
    <3> QED
      BY <3>1, <3>2
  <2>14. ASSUME blanks = <<>>, \A n \in own : Normal[n] = n PROVE names = ToSet(varList)
    <3>1. names = own
      BY <2>9, <2>14
    <3>2. {Normal[n] : n \in own} = own
      BY <2>14
    <3> QED
      BY <2>10, <3>1, <3>2
  <2> QED
    BY <2>8, <2>12, <2>13, <2>14
<1> QED
  BY <1>1, ReadsAlways, BlanksAlways, PTL

-----------------------------------------------------------------------------
(* The meaning of a text, by those of its spans.                           *)

LEMMA OutermostIs ==
  ASSUME NEW text, NEW i \in Int, NEW j \in Int, Outside(text, i, j, Operator) # {}
  PROVE  /\ Outermost(text, i, j) \in Outside(text, i, j, Operator)
         /\ Outermost(text, i, j) \in i..j /\ text[Outermost(text, i, j)] \in Operator
         /\ IF text[Outermost(text, i, j)] \in Signs
            THEN \A o \in Outside(text, i, j, Signs) : o <= Outermost(text, i, j)
            ELSE /\ Outside(text, i, j, Signs) = {}
                 /\ \A o \in Outside(text, i, j, Products) : o <= Outermost(text, i, j)
<1> DEFINE Out(ops) == Outside(text, i, j, ops)
           T == IF Out(Signs) # {} THEN Out(Signs) ELSE Out(Products)
           k == CHOOSE m \in T : \A o \in T : o <= m
<1>1. Out(Operator) = Out(Signs) \cup Out(Products) /\ \A ops : Out(ops) \in SUBSET (i..j)
  BY Kinds DEF Outside
<1>2. \A ops : \A m \in Out(ops) : text[m] \in ops
  BY DEF Outside
<1>3. Outermost(text, i, j) = k
  BY DEF Outermost
<1> HIDE DEF Out
<1>4. T # {} /\ T \in SUBSET (i..j)
  BY <1>1 DEF Out
<1> HIDE DEF T
<1>5. \E m \in T : \A o \in T : o <= m
  BY <1>4, LastOf
<1>6. k \in T /\ \A o \in T : o <= k
  BY <1>5
<1> HIDE DEF k
<1>7. CASE Out(Signs) # {}
  <2>1. T = Out(Signs)
    BY <1>7 DEF T
  <2>2. k \in Out(Operator) /\ k \in i..j /\ text[k] \in Signs /\ text[k] \in Operator
    BY <1>1, <1>2, <1>6, <2>1, Kinds
  <2> QED
    BY <1>3, <1>6, <2>1, <2>2 DEF Out
<1>8. CASE Out(Signs) = {}
  <2>1. T = Out(Products)
    BY <1>8 DEF T
  <2>2. k \in Out(Operator) /\ k \in i..j /\ text[k] \in Products /\ text[k] \in Operator /\ text[k] \notin Signs
    BY <1>1, <1>2, <1>6, <2>1, Kinds
  <2> QED
    BY <1>3, <1>6, <1>8, <2>1, <2>2 DEF Out
<1> QED
  BY <1>7, <1>8

\* It is made of the meanings of shorter spans.
LEMMA MeaningLocal ==
  ASSUME NEW q, NEW text, NEW N \in Nat, NEW f, NEW g, NEW i \in 1..N, NEW j \in 0..N,
         \A a \in 1..N : \A b \in 0..N : b - a < j - i => f[<<a, b>>] = g[<<a, b>>]
  PROVE  MeaningOf(q, text, f, i, j) = MeaningOf(q, text, g, i, j)
<1>1. CASE j < i
  BY <1>1 DEF MeaningOf
<1>2. CASE ~(j < i) /\ Outside(text, i, j, Operator) # {}
  <2> DEFINE k == Outermost(text, i, j)
  <2>1. k \in i..j
    <3>1. i \in Int /\ j \in Int
      OBVIOUS
    <3>2. Outside(text, i, j, Operator) # {}
      BY <1>2
    <3> HIDE DEF k
    <3> QED
      BY <3>1, <3>2, OutermostIs DEF k
  <2> HIDE DEF k
  <2>2. CASE k \in {i, j}
    BY <1>2, <2>2 DEF MeaningOf, k
  <2>3. CASE k \notin {i, j}
    <3>1. k - 1 \in 0..N /\ k + 1 \in 1..N /\ (k - 1) - i < j - i /\ j - (k + 1) < j - i
      BY <2>1, <2>3
    <3>2. f[<<i, k - 1>>] = g[<<i, k - 1>>] /\ f[<<k + 1, j>>] = g[<<k + 1, j>>]
      BY <3>1
    <3>3. \A h : MeaningOf(q, text, h, i, j) = Both(q, text[k], h[<<i, k - 1>>], h[<<k + 1, j>>])
      BY <1>2, <2>3 DEF MeaningOf, k
    <3> QED
      BY <3>2, <3>3
  <2> QED
    BY <2>2, <2>3
<1>3. CASE ~(j < i) /\ Outside(text, i, j, Operator) = {}
  <2>1. CASE text[i] = "(" /\ text[j] = ")"
    <3>1. i # j
      BY <2>1
    <3>2. i + 1 \in 1..N /\ j - 1 \in 0..N /\ (j - 1) - (i + 1) < j - i
      BY <1>3, <3>1
    <3>3. f[<<i + 1, j - 1>>] = g[<<i + 1, j - 1>>]
      BY <3>2
    <3> QED
      BY <1>3, <2>1, <3>3 DEF MeaningOf
  <2>2. CASE ~(text[i] = "(" /\ text[j] = ")")
    BY <1>3, <2>2 DEF MeaningOf
  <2> QED
    BY <2>1, <2>2
<1> QED
  BY <1>1, <1>2, <1>3

\* The meanings of all the spans of a text.
Spans(q, text, span) ==
  \A i \in 1..Len(text) : \A j \in 0..Len(text) : span[<<i, j>>] = MeaningOf(q, text, span, i, j)

LEMMA SpansOf ==
  ASSUME NEW q, NEW text \in Seq(Token), text # <<>>
  PROVE  \E span : Spans(q, text, span) /\ Meaning(q, text) = span[<<1, Len(text)>>]
<1> DEFINE N == Len(text)
           D == (DOMAIN text) \X (0..N)
           Step(f, at) == MeaningOf(q, text, f, at[1], at[2])
           Solves(f, n) == \A i \in 1..N : \A j \in 0..N : j - i < n => f[<<i, j>>] = MeaningOf(q, text, f, i, j)
           S == {n \in Nat : \E f : Solves(f, n)}
<1>0. N \in Nat /\ DOMAIN text = 1..N /\ D = (1..N) \X (0..N)
  BY LenProperties
<1> HIDE DEF N, D
<1>1. 0 \in S
  <2> DEFINE f == [at \in D |-> NoExpression]
  <2>1. ASSUME NEW i \in 1..N, NEW j \in 0..N, j - i < 0 PROVE f[<<i, j>>] = MeaningOf(q, text, f, i, j)
    <3>1. <<i, j>> \in D
      BY <1>0
    <3>2. j < i
      BY <1>0, <2>1
    <3> QED
      BY <3>1, <3>2 DEF MeaningOf
  <2> HIDE DEF f
  <2> QED
    BY <2>1
<1>2. ASSUME NEW n \in S PROVE n + 1 \in S
  <2>0. n \in Nat
    OBVIOUS
  <2>1. PICK f : Solves(f, n)
    OBVIOUS
  <2> DEFINE new == [at \in D |-> Step(f, at)]
  <2>2. ASSUME NEW i \in 1..N, NEW j \in 0..N PROVE new[<<i, j>>] = MeaningOf(q, text, f, i, j)
    <3>1. <<i, j>> \in D
      BY <1>0
    <3> QED
      BY <3>1
  <2> HIDE DEF new
  <2>3. ASSUME NEW i \in 1..N, NEW j \in 0..N, j - i < n + 1 PROVE new[<<i, j>>] = MeaningOf(q, text, new, i, j)
    <3>1. ASSUME NEW a \in 1..N, NEW b \in 0..N, b - a < j - i PROVE f[<<a, b>>] = new[<<a, b>>]
      <4>1. b - a < n
        BY <1>0, <2>0, <2>3, <3>1
      <4> QED
        BY <2>1, <2>2, <4>1
    <3>2. \A a \in 1..N : \A b \in 0..N : b - a < j - i => f[<<a, b>>] = new[<<a, b>>]
      BY <3>1
    <3>3. MeaningOf(q, text, f, i, j) = MeaningOf(q, text, new, i, j)
      <4> HIDE DEF S
      <4> QED
        BY <1>0, <3>2, MeaningLocal
    <3> QED
      BY <2>2, <3>3
  <2>4. Solves(new, n + 1)
    BY <2>3
  <2> HIDE DEF Solves
  <2> QED
    BY <2>0, <2>4
<1>3. S = Nat
  <2> HIDE DEF Solves
  <2>1. S \in SUBSET Nat
    OBVIOUS
  <2> HIDE DEF S
  <2> QED
    BY <1>1, <1>2, <2>1, NatSet
<1>4. N + 1 \in S
  <2> HIDE DEF S
  <2> QED
    BY <1>0, <1>3
<1>5. PICK f : Solves(f, N + 1)
  BY <1>4
<1>6. \A i \in 1..N : \A j \in 0..N : f[<<i, j>>] = MeaningOf(q, text, f, i, j)
  <2>1. \A i \in 1..N : \A j \in 0..N : j - i < N + 1
    BY <1>0
  <2> QED
    BY <1>5, <2>1
<1> DEFINE span == [at \in D |-> f[at]]
           Is(r) == r = [at \in D |-> Step(r, at)]
<1>7. ASSUME NEW i \in 1..N, NEW j \in 0..N PROVE span[<<i, j>>] = MeaningOf(q, text, span, i, j)
  <2>1. \A a \in 1..N : \A b \in 0..N : <<a, b>> \in D
    BY <1>0
  <2>2. \A a \in 1..N : \A b \in 0..N : f[<<a, b>>] = span[<<a, b>>]
    BY <2>1
  <2> HIDE DEF span
  <2>3. MeaningOf(q, text, f, i, j) = MeaningOf(q, text, span, i, j)
    BY <1>0, <2>2, MeaningLocal
  <2> QED
    BY <1>6, <2>2, <2>3
<1>8. Is(span)
  <2>1. ASSUME NEW at \in D PROVE span[at] = Step(span, at)
    <3>1. at[1] \in 1..N /\ at[2] \in 0..N /\ at = <<at[1], at[2]>>
      BY <1>0
    <3> HIDE DEF span
    <3> QED
      BY <1>7, <3>1
  <2>2. span = [at \in D |-> span[at]]
    OBVIOUS
  <2> HIDE DEF Step, span
  <2>3. [at \in D |-> span[at]] = [at \in D |-> Step(span, at)]
    BY <2>1
  <2> QED
    BY <2>2, <2>3
<1> DEFINE it == CHOOSE r : Is(r)
<1>9. Meaning(q, text) = it[<<1, N>>]
  BY Zenon DEF Meaning, N, D
<1> HIDE DEF Is, span
<1>10. Is(it)
  BY <1>8
<1> HIDE DEF it
<1>11. it = [at \in D |-> Step(it, at)]
  BY <1>10 DEF Is
<1>12. \A at \in D : it[at] = Step(it, at)
  <2> HIDE DEF Step
  <2> QED
    BY <1>11
<1>13. \A i \in 1..N : \A j \in 0..N : it[<<i, j>>] = MeaningOf(q, text, it, i, j)
  <2> SUFFICES ASSUME NEW i \in 1..N, NEW j \in 0..N PROVE it[<<i, j>>] = MeaningOf(q, text, it, i, j)
    OBVIOUS
  <2>1. <<i, j>> \in D
    BY <1>0
  <2>2. it[<<i, j>>] = Step(it, <<i, j>>)
    BY <1>12, <2>1
  <2> QED
    BY <2>2
<1>14. Spans(q, text, it)
  BY <1>13 DEF Spans, N
<1> QED
  BY <1>9, <1>14 DEF N

LEMMA Joins ==
  ASSUME NEW text, NEW i \in Nat \ {0}, NEW j \in Nat, NEW k \in (i + 1)..(j - 1),
         text[k] \in Operator, Depth(text, k) = Depth(text, i - 1),
         Right(text, i, k - 1), Right(text, k + 1, j)
  PROVE  Right(text, i, j)
<1>1. (k + 1) - 1 = k /\ k - 1 \in i..j /\ k + 1 \in i..j
  OBVIOUS
<1>2. text[k] \in Asks /\ text[k] \notin Opens /\ text[k - 1] \notin Asks /\ text[k + 1] \in Opens
  BY Kinds DEF Right, Asks
<1>3. Depth(text, i - 1) \in Int
  BY Depths
<1>4. \A n \in i..j : \/ n \in i..(k - 1)
                      \/ n = k
                      \/ n \in (k + 1)..j
  BY <1>1
<1>5. \A n \in i..j : text[n] \in Opens \cup Ends \cup Asks /\ Depth(text, n) >= Depth(text, i - 1)
  <2> SUFFICES ASSUME NEW n \in i..j
               PROVE  text[n] \in Opens \cup Ends \cup Asks /\ Depth(text, n) >= Depth(text, i - 1)
    OBVIOUS
  <2>1. CASE n \in i..(k - 1)
    BY <2>1 DEF Right
  <2>2. CASE n = k
    BY <1>2, <1>3, <2>2
  <2>3. CASE n \in (k + 1)..j
    BY <1>1, <2>3 DEF Right
  <2> QED
    BY <1>4, <2>1, <2>2, <2>3
<1>6. \A n \in i..j : n # i => (text[n] \in Opens <=> text[n - 1] \in Asks)
  <2> SUFFICES ASSUME NEW n \in i..j, n # i
               PROVE  text[n] \in Opens <=> text[n - 1] \in Asks
    OBVIOUS
  <2>1. CASE n \in i..(k - 1)
    BY <2>1 DEF Right
  <2>2. CASE n = k
    BY <1>2, <2>2
  <2>3. CASE n \in (k + 1)..j
    <3>1. CASE n = k + 1
      BY <1>1, <1>2, <3>1
    <3>2. CASE n # k + 1
      BY <2>3, <3>2 DEF Right
    <3> QED
      BY <3>1, <3>2
  <2> QED
    BY <1>4, <2>1, <2>2, <2>3
<1>7. text[i] \in Opens /\ text[j] \in Ends /\ Depth(text, j) = Depth(text, i - 1)
  BY <1>1 DEF Right
<1> QED
  BY <1>5, <1>6, <1>7 DEF Right

LEMMA Wraps ==
  ASSUME NEW text, NEW i \in Nat \ {0}, NEW j \in Nat, i + 1 <= j - 1,
         text[i] = "(", text[j] = ")", Right(text, i + 1, j - 1)
  PROVE  Right(text, i, j)
<1>1. (i + 1) - 1 = i /\ j - 1 \in i..j /\ j \in i..j /\ i \in i..j
  OBVIOUS
<1>2. text[i] \in Asks /\ text[i] \in Opens /\ text[j] \in Ends /\ text[j] \notin Opens /\ text[j - 1] \notin Asks
  BY Kinds DEF Right, Asks, Opens, Ends
<1>3. /\ Depth(text, i - 1) \in Int /\ Depth(text, i) = Depth(text, i - 1) + 1
      /\ Depth(text, j) = Depth(text, j - 1) - 1 /\ Depth(text, j - 1) = Depth(text, i)
  <2>1. Depth(text, i - 1) \in Int /\ Depth(text, i) = Depth(text, i - 1) + Turn(text[i])
    BY Depths
  <2>2. Depth(text, j) = Depth(text, j - 1) + Turn(text[j]) /\ Depth(text, j - 1) \in Int
    BY Depths
  <2>3. Depth(text, j - 1) = Depth(text, i)
    BY <1>1 DEF Right
  <2> QED
    BY <2>1, <2>2, <2>3, Kinds
<1>4. \A n \in i..j : n = i \/ n = j \/ n \in (i + 1)..(j - 1)
  OBVIOUS
<1>5. \A n \in i..j : text[n] \in Opens \cup Ends \cup Asks /\ Depth(text, n) >= Depth(text, i - 1)
  <2> SUFFICES ASSUME NEW n \in i..j
               PROVE  text[n] \in Opens \cup Ends \cup Asks /\ Depth(text, n) >= Depth(text, i - 1)
    OBVIOUS
  <2>1. CASE n = i \/ n = j
    BY <1>2, <1>3, <2>1
  <2>2. CASE n \in (i + 1)..(j - 1)
    <3>1. text[n] \in Opens \cup Ends \cup Asks /\ Depth(text, n) >= Depth(text, i) /\ Depth(text, n) \in Int
      <4>1. i + 1 \in Nat \ {0} /\ n \in Nat /\ i + 1 <= n
        BY <2>2
      <4>2. Depth(text, n) \in Int
        BY <4>1, Depths
      <4> QED
        BY <1>1, <2>2, <4>2 DEF Right
    <3> QED
      BY <1>3, <3>1
  <2> QED
    BY <1>4, <2>1, <2>2
<1>6. \A n \in i..j : n # i => (text[n] \in Opens <=> text[n - 1] \in Asks)
  <2> SUFFICES ASSUME NEW n \in i..j, n # i
               PROVE  text[n] \in Opens <=> text[n - 1] \in Asks
    OBVIOUS
  <2>1. CASE n = j
    BY <1>2, <2>1
  <2>2. CASE n = i + 1
    BY <1>1, <1>2, <2>2 DEF Right
  <2>3. CASE n \in (i + 1)..(j - 1) /\ n # i + 1
    BY <2>3 DEF Right
  <2> QED
    BY <1>4, <2>1, <2>2, <2>3
<1> QED
  BY <1>2, <1>3, <1>5, <1>6 DEF Right

LEMMA Alone ==
  ASSUME NEW text, NEW i \in Nat \ {0}, text[i] \in Atom
  PROVE  Right(text, i, i)
<1>1. /\ Depth(text, i - 1) \in Int /\ Depth(text, i) = Depth(text, i - 1) + Turn(text[i]) /\ Turn(text[i]) = 0
  <2>1. i \in Nat /\ i <= i
    OBVIOUS
  <2>2. Turn(text[i]) = 0
    BY Kinds
  <2> QED
    BY <2>1, <2>2, Depths
<1>2. \A n \in i..i : n = i
  OBVIOUS
<1> QED
  BY <1>1, <1>2 DEF Right, Opens, Ends

LEMMA Libraries == Lenient \in BOOLEAN /\ ~Lenient /\ Strict \in BOOLEAN /\ Strict
BY DEF Lenient, Strict

\* The tokens with a number.
LEMMA Numbers ==
  ASSUME NEW q
  PROVE  /\ Numbered(q) \subseteq Numeral \cup CellName
         /\ ~q => Numeral \subseteq Numbered(q)
         /\ q \in BOOLEAN => \A t \in Numbered(q) : Worth(q, t) \in Number
<1>1. \A n \in Name : Listed(q, n) \in Defined => n \in CellName
  BY TokenAssumption DEF Listed
<1>2. (IF q THEN Whole ELSE Numeral) \subseteq Numeral
  BY TokenAssumption
<1>3. Numbered(q) \subseteq Numeral \cup CellName
  BY <1>1, <1>2 DEF Numbered
<1>4. ~q => Numeral \subseteq Numbered(q)
  BY DEF Numbered
<1>5. ASSUME q \in BOOLEAN, NEW t \in Numbered(q) PROVE Worth(q, t) \in Number
  <2>1. CASE t \in Numeral
    <3>1. t \notin Name
      BY <2>1, TokenAssumption
    <3>2. Listed(q, t) = t
      BY <3>1 DEF Listed
    <3> QED
      BY <1>5, <2>1, <3>2, NumberAssumption DEF Worth
  <2>2. CASE t \notin Numeral
    <3>1. Listed(q, t) \in Defined
      BY <1>2, <1>5, <2>2 DEF Numbered
    <3> QED
      BY <1>5, <3>1, NumberAssumption DEF Worth
  <2> QED
    BY <2>1, <2>2
<1> QED
  BY <1>3, <1>4, <1>5

\* What a span with a meaning means.
Answer == {FormulaError} \cup {Value(x) : x \in Number}

LEMMA Answers ==
  /\ NoExpression \notin Answer /\ FormulaError # NoExpression
  /\ \A x : Value(x) # FormulaError /\ Value(x) # NoExpression /\ Value(x).value = x
  /\ \A x, y : Value(x) = Value(y) => x = y
<1>1. \A x : Value(x).kind = "value" /\ Value(x).value = x
  BY DEF Value
<1>2. FormulaError.kind = "error" /\ NoExpression.kind = "none"
  BY DEF FormulaError, NoExpression
<1> QED
  BY <1>1, <1>2 DEF Answer

LEMMA BothIs ==
  ASSUME NEW q \in BOOLEAN, NEW op \in Operator, NEW x, NEW y, x \in Answer \cup {NoExpression}, y \in Answer \cup {NoExpression}
  PROVE  /\ Both(q, op, x, y) # NoExpression <=> x # NoExpression /\ y # NoExpression
         /\ x # NoExpression /\ y # NoExpression => Both(q, op, x, y) \in Answer
<1>1. CASE x = NoExpression \/ y = NoExpression
  BY <1>1 DEF Both
<1>2. CASE x \in Answer /\ y \in Answer
  <2>1. x # NoExpression /\ y # NoExpression
    BY <1>2, Answers
  <2>2. CASE FormulaError \in {x, y} \/ (op = "/" /\ y = Value(Zero))
    BY <2>1, <2>2, Answers DEF Both, Answer
  <2>3. CASE ~(FormulaError \in {x, y} \/ (op = "/" /\ y = Value(Zero)))
    <3>1. PICK a \in Number, b \in Number : x = Value(a) /\ y = Value(b)
      BY <1>2, <2>3 DEF Answer
    <3>2. Both(q, op, x, y) = Value(Apply(q, op, a, b))
      BY <2>1, <2>3, <3>1, Answers DEF Both
    <3>3. Apply(q, op, a, b) \in Number
      <4>1. op = "/" => b # Zero
        BY <2>3, <3>1
      <4>2. op \in {"+", "-", "*", "/"}
        BY Kinds
      <4> QED
        BY <4>1, <4>2, NumberAssumption DEF Apply
    <3> QED
      BY <2>1, <3>2, <3>3, Answers DEF Answer
  <2> QED
    BY <2>2, <2>3
<1> QED
  BY <1>1, <1>2

\* The grammar takes what the constructor's rules take.
LEMMA Grammar ==
  ASSUME NEW q \in BOOLEAN, NEW text, NEW span, Len(text) \in Nat, Spans(q, text, span)
  PROVE  \A i \in 1..Len(text) : \A j \in 0..Len(text) :
           /\ span[<<i, j>>] # NoExpression <=> i <= j /\ Right(text, i, j)
           /\ span[<<i, j>>] \in Answer \cup {NoExpression}
<1> DEFINE N == Len(text)
           Claim(i, j) == /\ span[<<i, j>>] # NoExpression <=> i <= j /\ Right(text, i, j)
                          /\ span[<<i, j>>] \in Answer \cup {NoExpression}
           Below(n) == \A i \in 1..N : \A j \in 0..N : j - i < n => Claim(i, j)
           S == {n \in Nat : Below(n)}
<1>0. N \in Nat /\ \A i \in 1..N : \A j \in 0..N : span[<<i, j>>] = MeaningOf(q, text, span, i, j)
  BY DEF Spans
<1> HIDE DEF N
<1>1. ASSUME NEW i \in 1..N, NEW j \in 0..N, j < i PROVE Claim(i, j)
  <2>1. MeaningOf(q, text, span, i, j) = NoExpression
    BY <1>1 DEF MeaningOf
  <2>2. span[<<i, j>>] = NoExpression /\ ~(i <= j)
    BY <1>0, <1>1, <2>1
  <2> QED
    BY <2>2
<1>2. 0 \in S
  <2>1. ASSUME NEW i \in 1..N, NEW j \in 0..N, j - i < 0 PROVE Claim(i, j)
    <3>1. j < i
      BY <1>0, <2>1
    <3> HIDE DEF Claim
    <3> QED
      BY <1>1, <3>1
  <2> HIDE DEF Claim
  <2> QED
    BY <2>1
<1>3. ASSUME NEW n \in S PROVE n + 1 \in S
  <2>0. n \in Nat /\ Below(n)
    OBVIOUS
  <2> HIDE DEF S
  <2>1. ASSUME NEW i \in 1..N, NEW j \in 0..N, i <= j, j - i < n + 1 PROVE Claim(i, j)
    <3>0. i \in Nat \ {0} /\ j \in Nat /\ span[<<i, j>>] = MeaningOf(q, text, span, i, j)
      BY <1>0
    <3>1. CASE Outside(text, i, j, Operator) # {}
      <4> DEFINE k == Outermost(text, i, j)
      <4>1. k \in Outside(text, i, j, Operator) /\ k \in i..j /\ text[k] \in Operator
        BY <3>1, OutermostIs
      <4>2. Depth(text, k) = Depth(text, i - 1)
        BY <4>1 DEF Outside
      <4>3. k \in {i, j} => span[<<i, j>>] = NoExpression
        BY <2>1, <3>0, <3>1 DEF MeaningOf
      <4>4. k \notin {i, j} => span[<<i, j>>] = Both(q, text[k], span[<<i, k - 1>>], span[<<k + 1, j>>])
        BY <2>1, <3>0, <3>1 DEF MeaningOf
      <4>5. Right(text, i, j) => k \notin {i, j} /\ Right(text, i, k - 1) /\ Right(text, k + 1, j)
        <5> HIDE DEF k
        <5> SUFFICES ASSUME Right(text, i, j)
                     PROVE  k \notin {i, j} /\ Right(text, i, k - 1) /\ Right(text, k + 1, j)
          OBVIOUS
        <5>1. k \in (i + 1)..(j - 1) /\ Right(text, i, k - 1) /\ Right(text, k + 1, j)
          BY <2>1, <3>0, <4>1, Splits
        <5> QED
          BY <5>1
      <4> HIDE DEF k
      <4>6. CASE k \in {i, j}
        BY <4>3, <4>5, <4>6
      <4>7. CASE k \notin {i, j}
        <5>1. k \in (i + 1)..(j - 1) /\ k - 1 \in 0..N /\ k + 1 \in 1..N /\ i <= k - 1 /\ k + 1 <= j
          BY <1>0, <4>1, <4>7
        <5>2. (k - 1) - i < n /\ j - (k + 1) < n
          BY <2>0, <2>1, <5>1
        <5>3. Claim(i, k - 1) /\ Claim(k + 1, j)
          <6> HIDE DEF Claim
          <6> QED
            BY <2>0, <5>1, <5>2
        <5>4. Right(text, i, k - 1) /\ Right(text, k + 1, j) => Right(text, i, j)
          BY <3>0, <4>1, <4>2, <5>1, Joins
        <5>5. /\ span[<<i, j>>] # NoExpression <=> span[<<i, k - 1>>] # NoExpression /\ span[<<k + 1, j>>] # NoExpression
              /\ span[<<i, j>>] \in Answer \cup {NoExpression}
          BY <4>1, <4>4, <4>7, <5>3, BothIs
        <5> QED
          BY <2>1, <4>5, <5>1, <5>3, <5>4, <5>5
      <4> QED
        BY <4>6, <4>7
    <3>2. CASE Outside(text, i, j, Operator) = {}
      <4>1. CASE text[i] = "(" /\ text[j] = ")"
        <5>1. span[<<i, j>>] = span[<<i + 1, j - 1>>]
          BY <2>1, <3>0, <3>2, <4>1 DEF MeaningOf
        <5>2. i # j /\ i + 1 \in 1..N /\ j - 1 \in 0..N /\ (j - 1) - (i + 1) < n
          <6>1. i # j
            BY <4>1
          <6> QED
            BY <1>0, <2>0, <2>1, <6>1
        <5>3. Claim(i + 1, j - 1)
          <6> HIDE DEF Claim
          <6> QED
            BY <2>0, <5>2
        <5>4. i + 1 <= j - 1 /\ Right(text, i + 1, j - 1) => Right(text, i, j)
          BY <3>0, <4>1, Wraps
        <5>5. Right(text, i, j) => i + 1 <= j - 1 /\ Right(text, i + 1, j - 1)
          BY <2>1, <3>0, <3>2, <5>2, Peels
        <5> QED
          BY <2>1, <5>1, <5>3, <5>4, <5>5
      <4>2. CASE ~(text[i] = "(" /\ text[j] = ")")
        <5>1. Right(text, i, j) => i = j /\ text[i] \in Atom
          BY <2>1, <3>0, <3>2, <4>2, Peels
        <5>2. i = j /\ text[i] \in Atom => Right(text, i, j)
          BY <3>0, Alone
        <5>3. CASE i < j \/ text[i] \notin Atom
          <6>1. span[<<i, j>>] = NoExpression
            BY <2>1, <3>0, <3>2, <4>2, <5>3 DEF MeaningOf, Atom
          <6> QED
            BY <2>1, <5>1, <5>3, <6>1
        <5>4. CASE i = j /\ text[i] \in Atom
          <6>1. span[<<i, j>>] = IF text[i] \in Numbered(q) THEN Value(Worth(q, text[i])) ELSE FormulaError
            BY <2>1, <3>0, <3>2, <4>2, <5>4 DEF MeaningOf, Atom
          <6>2. span[<<i, j>>] \in Answer
            BY <6>1, Numbers DEF Answer
          <6> QED
            BY <2>1, <5>2, <5>4, <6>2, Answers
        <5> QED
          BY <2>1, <5>3, <5>4
      <4> QED
        BY <4>1, <4>2
    <3> QED
      BY <3>1, <3>2
  <2>2. ASSUME NEW i \in 1..N, NEW j \in 0..N, j - i < n + 1 PROVE Claim(i, j)
    <3>1. j < i \/ i <= j
      OBVIOUS
    <3> HIDE DEF Claim
    <3> QED
      BY <1>1, <2>1, <2>2, <3>1
  <2> HIDE DEF Claim
  <2>3. Below(n + 1)
    BY <2>2
  <2> QED
    BY <2>0, <2>3 DEF S
<1>4. S = Nat
  <2> HIDE DEF Below
  <2>1. S \in SUBSET Nat
    OBVIOUS
  <2> HIDE DEF S
  <2> QED
    BY <1>2, <1>3, <2>1, NatSet
<1>5. N \in S
  <2> HIDE DEF S
  <2> QED
    BY <1>0, <1>4
<1>6. \A i \in 1..N : \A j \in 0..N : Claim(i, j)
  <2> SUFFICES ASSUME NEW i \in 1..N, NEW j \in 0..N PROVE Claim(i, j)
    OBVIOUS
  <2>1. j - i < N
    BY <1>0
  <2> HIDE DEF Claim
  <2> QED
    BY <1>5, <2>1
<1> QED
  BY <1>6 DEF N

LEMMA MeaningIs ==
  ASSUME NEW q \in BOOLEAN, NEW text \in Seq(Token)
  PROVE  /\ Meaning(q, text) # NoExpression <=> text # <<>> /\ Right(text, 1, Len(text))
         /\ Meaning(q, text) \in Answer \cup {NoExpression}
<1>0. Len(text) \in Nat /\ (text # <<>> => Len(text) # 0)
  BY LenProperties, EmptySeq
<1>1. CASE text = <<>>
  BY <1>1 DEF Meaning
<1>2. CASE text # <<>>
  <2>1. PICK span : Spans(q, text, span) /\ Meaning(q, text) = span[<<1, Len(text)>>]
    BY <1>2, SpansOf
  <2>2. 1 \in 1..Len(text) /\ Len(text) \in 0..Len(text) /\ 1 <= Len(text)
    BY <1>0, <1>2
  <2>3. /\ span[<<1, Len(text)>>] # NoExpression <=> 1 <= Len(text) /\ Right(text, 1, Len(text))
        /\ span[<<1, Len(text)>>] \in Answer \cup {NoExpression}
    BY <1>0, <2>1, <2>2, Grammar
  <2> QED
    BY <1>2, <2>1, <2>2, <2>3
<1> QED
  BY <1>1, <1>2

\* A whole text is right if it is legal to its end.
LEMMA RightIsLegal ==
  ASSUME NEW text \in Seq(Token), text # <<>>
  PROVE  Right(text, 1, Len(text)) <=> Legal(text) /\ ~Expects(text) /\ Depth(text, Len(text)) = 0
<1> DEFINE N == Len(text)
<1>0. N \in Nat /\ N # 0 /\ DOMAIN text = 1..N /\ 1 \in 1..N /\ N \in 1..N
  BY LenProperties, EmptySeq
<1>1. Depth(text, 1 - 1) = 0
  <2>1. 1 - 1 = 0 /\ Depth(text, 0) = 0
    BY DepthIs, 0 \in Nat
  <2> QED
    BY <2>1
<1>2. Expects(text) <=> text[N] \in Asks
  BY DEF Expects, Last
<1>3. text[N] \in Ends <=> text[N] \notin Asks /\ text[N] \in Opens \cup Ends \cup Asks
  BY Kinds DEF Opens, Ends, Asks
<1> HIDE DEF N
<1>4. ASSUME Right(text, 1, N) PROVE Legal(text) /\ text[N] \in Ends /\ Depth(text, N) = 0
  BY <1>0, <1>1, <1>4 DEF Right, Legal
<1>5. ASSUME Legal(text), text[N] \in Ends, Depth(text, N) = 0 PROVE Right(text, 1, N)
  BY <1>0, <1>1, <1>5 DEF Right, Legal
<1>6. Legal(text) => text[N] \in Opens \cup Ends \cup Asks
  BY <1>0 DEF Legal
<1> QED
  BY <1>2, <1>3, <1>4, <1>5, <1>6 DEF N

\* What the constructor has taken to the end.
LEMMA WholeIs ==
  ASSUME NEW q \in BOOLEAN, NEW text \in Seq(Token)
  PROVE  Meaning(q, text) # NoExpression <=>
           Legal(text) /\ ~Expects(text) /\ Count(text, "(") = Count(text, ")")
<1>1. /\ Depth(text, Len(text)) = Count(text, "(") - Count(text, ")")
      /\ Count(text, "(") \in Nat /\ Count(text, ")") \in Nat
  BY CountIs, DepthOfAll
<1>2. CASE text = <<>>
  BY <1>2, MeaningIs DEF Expects
<1>3. CASE text # <<>>
  BY <1>1, <1>3, MeaningIs, RightIsLegal
<1> QED
  BY <1>2, <1>3

Closed(s) == s \o [i \in 1..(Count(s, "(") - Count(s, ")")) |-> ")"]

\* The missing parentheses can be added.
LEMMA ClosedIs ==
  ASSUME NEW s \in Seq(Token), Count(s, ")") <= Count(s, "(")
  PROVE  /\ Closed(s) \in Seq(Token) /\ Len(Closed(s)) = Len(s) + (Count(s, "(") - Count(s, ")"))
         /\ Count(s, "(") \in Nat /\ Count(s, ")") \in Nat /\ Len(s) \in Nat
         /\ \A n \in 1..Len(s) : Closed(s)[n] = s[n]
         /\ \A n \in (Len(s) + 1)..Len(Closed(s)) : Closed(s)[n] = ")"
<1> DEFINE d == Count(s, "(") - Count(s, ")")
           tail == [i \in 1..d |-> ")"]
<1>1. Count(s, "(") \in Nat /\ Count(s, ")") \in Nat /\ Len(s) \in Nat
  BY CountIs, LenProperties
<1>2. d \in Nat
  BY <1>1
<1> HIDE DEF d
<1>3. tail \in Seq(Token) /\ Len(tail) = d /\ \A i \in 1..d : tail[i] = ")"
  BY <1>2 DEF Token
<1>4. Closed(s) = s \o tail
  BY DEF Closed, d
<1> HIDE DEF tail
<1>5. /\ s \o tail \in Seq(Token) /\ Len(s \o tail) = Len(s) + d
      /\ \A n \in 1..(Len(s) + d) : (s \o tail)[n] = IF n <= Len(s) THEN s[n] ELSE tail[n - Len(s)]
  BY <1>3, ConcatProperties
<1>6. \A n \in 1..Len(s) : (s \o tail)[n] = s[n]
  BY <1>1, <1>2, <1>5
<1>7. \A n \in (Len(s) + 1)..(Len(s) + d) : (s \o tail)[n] = ")"
  <2> SUFFICES ASSUME NEW n \in (Len(s) + 1)..(Len(s) + d) PROVE (s \o tail)[n] = ")"
    OBVIOUS
  <2>1. n \in 1..(Len(s) + d) /\ ~(n <= Len(s)) /\ n - Len(s) \in 1..d
    BY <1>1, <1>2
  <2> QED
    BY <1>3, <1>5, <2>1
<1> QED
  BY <1>1, <1>4, <1>5, <1>6, <1>7 DEF d

LEMMA ClosedDepth ==
  ASSUME NEW s \in Seq(Token), Count(s, ")") <= Count(s, "("),
         NEW n \in Len(s)..Len(Closed(s))
  PROVE  Depth(Closed(s), n) = Len(Closed(s)) - n
<1> DEFINE N == Len(s)
           M == Len(Closed(s))
           d(m) == Depth(Closed(s), m)
           Fits(m) == N + m <= M => d(N + m) = M - (N + m)
           S == {m \in Nat : Fits(m)}
<1>0. /\ N \in Nat /\ M \in Nat /\ M = N + (Count(s, "(") - Count(s, ")"))
      /\ Count(s, "(") \in Nat /\ Count(s, ")") \in Nat
      /\ \A m \in 1..N : Closed(s)[m] = s[m]
      /\ \A m \in (N + 1)..M : Closed(s)[m] = ")"
  BY ClosedIs, LenProperties
<1>1. d(N) = Depth(s, N) /\ Depth(s, N) = Count(s, "(") - Count(s, ")")
  BY <1>0, DepthSame, DepthOfAll
<1>2. \A m \in Nat : d(m) \in Int /\ d(m + 1) = d(m) + Turn(Closed(s)[m + 1])
  BY DepthIs
<1> HIDE DEF N, M, d
<1>3. 0 \in S
  BY <1>0, <1>1
<1>4. ASSUME NEW m \in S PROVE m + 1 \in S
  <2> SUFFICES ASSUME N + (m + 1) <= M PROVE d(N + (m + 1)) = M - (N + (m + 1))
    OBVIOUS
  <2>1. m \in Nat /\ N + m <= M /\ d(N + m) = M - (N + m)
    BY <1>0
  <2>2. N + (m + 1) \in (N + 1)..M /\ N + (m + 1) = (N + m) + 1 /\ N + m \in Nat
    BY <1>0, <2>1
  <2>3. Closed(s)[(N + m) + 1] = ")"
    BY <1>0, <2>2
  <2>4. d((N + m) + 1) = d(N + m) + Turn(")")
    BY <1>2, <2>2, <2>3
  <2> QED
    BY <1>0, <2>1, <2>2, <2>4, Kinds
<1>5. S = Nat
  <2> HIDE DEF Fits
  <2>1. S \in SUBSET Nat
    OBVIOUS
  <2> HIDE DEF S
  <2> QED
    BY <1>3, <1>4, <2>1, NatSet
<1>6. n - N \in S
  <2>1. n - N \in Nat
    BY <1>0 DEF N, M
  <2> HIDE DEF S
  <2> QED
    BY <1>5, <2>1
<1>7. n \in N..M
  BY DEF N, M
<1>8. N + (n - N) = n
  BY <1>0, <1>7
<1>9. d(n) = M - n
  BY <1>0, <1>6, <1>7, <1>8
<1> QED
  BY <1>9 DEF M, d

LEMMA ClosedIsWhole ==
  ASSUME NEW s \in Seq(Token), Legal(s), ~Expects(s)
  PROVE  Count(s, ")") <= Count(s, "(") /\ Meaning(Lenient, Closed(s)) # NoExpression
<1> DEFINE N == Len(s)
           M == Len(Closed(s))
           c == Closed(s)
<1>0. Count(s, ")") <= Count(s, "(")
  BY Takes DEF Token
<1>1. /\ c \in Seq(Token) /\ N \in Nat /\ M \in Nat /\ N <= M
      /\ \A n \in 1..N : c[n] = s[n]
      /\ \A n \in (N + 1)..M : c[n] = ")"
  <2>1. Count(s, "(") \in Nat /\ Count(s, ")") \in Nat
    BY CountIs
  <2> QED
    BY <1>0, <2>1, ClosedIs
<1>2. DOMAIN c = 1..M /\ DOMAIN s = 1..N
  BY <1>1, LenProperties
<1>3. s # <<>> /\ N # 0 /\ s[N] \notin Asks
  BY EmptySeq DEF Expects, Last
<1>4. \A n \in N..M : Depth(c, n) = M - n
  BY <1>0, ClosedDepth
<1>5. \A n \in 1..N : Depth(c, n) = Depth(s, n)
  <2> SUFFICES ASSUME NEW n \in 1..N PROVE Depth(c, n) = Depth(s, n)
    OBVIOUS
  <2>1. n \in Nat /\ \A m \in 1..n : c[m] = s[m]
    BY <1>1
  <2> HIDE DEF c
  <2> QED
    BY <2>1, DepthSame
<1> HIDE DEF N, M, c
<1>6. \A n \in 1..M : c[n] \in Opens \cup Ends \cup Asks /\ Depth(c, n) >= 0
  <2> SUFFICES ASSUME NEW n \in 1..M PROVE c[n] \in Opens \cup Ends \cup Asks /\ Depth(c, n) >= 0
    OBVIOUS
  <2>1. CASE n \in 1..N
    BY <1>1, <1>2, <1>5, <2>1 DEF Legal
  <2>2. CASE n \notin 1..N
    <3>1. n \in (N + 1)..M /\ n \in N..M
      BY <1>1, <2>2
    <3>2. c[n] = ")" /\ Depth(c, n) = M - n
      BY <1>1, <1>4, <3>1
    <3> QED
      BY <1>1, <3>2 DEF Ends
  <2> QED
    BY <2>1, <2>2
<1>7. \A n \in 1..M : c[n] \in Opens <=> n = 1 \/ c[n - 1] \in Asks
  <2> SUFFICES ASSUME NEW n \in 1..M PROVE c[n] \in Opens <=> n = 1 \/ c[n - 1] \in Asks
    OBVIOUS
  <2>1. CASE n \in 1..N
    <3>1. n # 1 => n - 1 \in 1..N
      BY <1>1, <2>1
    <3> QED
      BY <1>1, <1>2, <2>1, <3>1 DEF Legal
  <2>2. CASE n \notin 1..N
    <3>1. n \in (N + 1)..M /\ n # 1 /\ (n - 1 = N \/ n - 1 \in (N + 1)..M)
      BY <1>1, <1>3, <2>2
    <3>2. c[n] = ")" /\ c[n - 1] \notin Asks
      <4>1. c[N] = s[N]
        BY <1>1, <1>3
      <4> QED
        BY <1>1, <1>3, <3>1, <4>1, Kinds
    <3> QED
      BY <3>1, <3>2, Kinds
  <2> QED
    BY <2>1, <2>2
<1>8. Legal(c)
  BY <1>2, <1>6, <1>7 DEF Legal
<1>9. c # <<>> /\ c[M] \notin Asks
  <2>1. M # 0
    BY <1>1, <1>3
  <2>2. c # <<>>
    BY <2>1, EmptySeq DEF c, M
  <2>3. CASE M = N
    BY <1>1, <1>3, <2>2, <2>3
  <2>4. CASE M # N
    <3>1. M \in (N + 1)..M
      BY <1>1, <2>4
    <3> QED
      BY <1>1, <2>2, <3>1, Kinds
  <2> QED
    BY <2>3, <2>4
<1>10. Depth(c, M) = 0
  BY <1>1, <1>4
<1>11. Right(c, 1, Len(c))
  <2>1. Len(c) = M
    BY DEF c, M
  <2>2. ~Expects(c)
    BY <1>9, <2>1 DEF Expects, Last
  <2> QED
    BY <1>1, <1>8, <1>9, <1>10, <2>1, <2>2, RightIsLegal
<1>12. Meaning(Lenient, c) # NoExpression
  BY <1>1, <1>9, <1>11, MeaningIs, Libraries
<1> QED
  BY <1>0, <1>12 DEF c

LEMMA ContinuedIs ==
  ASSUME NEW text \in Seq(Token), text # <<>>
  PROVE  CanBeContinued(text) <=> Legal(text)
<1>1. CanBeContinued(text) <=>
        \E s \in {text} \cup {Append(text, n) : n \in Numeral} :
          Count(s, "(") >= Count(s, ")") /\ Meaning(Lenient, Closed(s)) # NoExpression
  BY DEF CanBeContinued, Closed
<1>2. Len(text) \in Nat /\ DOMAIN text = 1..Len(text)
  BY LenProperties
<1>3. ASSUME NEW s \in {text} \cup {Append(text, n) : n \in Numeral},
             Count(s, "(") >= Count(s, ")"), Meaning(Lenient, Closed(s)) # NoExpression
      PROVE  Legal(text)
  <2>1. s \in Seq(Token) /\ Len(s) \in Nat /\ Len(s) >= Len(text) /\ \A n \in 1..Len(text) : s[n] = text[n]
    <3>1. CASE s = text
      BY <1>2, <3>1
    <3>2. CASE s # text
      <4>1. PICK m \in Numeral : s = Append(text, m)
        BY <1>3, <3>2
      <4>2. m \in Token
        BY DEF Token
      <4> DEFINE a == Append(text, m)
      <4>3. a \in Seq(Token) /\ Len(a) = Len(text) + 1 /\ \A n \in 1..Len(text) : a[n] = text[n]
        BY <4>2, Appended
      <4>4. s = a
        BY <4>1
      <4> HIDE DEF a
      <4> QED
        BY <1>2, <4>3, <4>4
    <3> QED
      BY <3>1, <3>2
  <2> DEFINE c == Closed(s)
  <2>2. /\ c \in Seq(Token) /\ Len(c) >= Len(s) /\ Len(c) \in Nat /\ DOMAIN c = 1..Len(c)
        /\ \A n \in 1..Len(s) : c[n] = s[n]
    <3>1. Count(s, "(") \in Nat /\ Count(s, ")") \in Nat
      BY <2>1, CountIs
    <3>2. Count(s, ")") <= Count(s, "(")
      BY <1>3, <3>1
    <3>3. /\ c \in Seq(Token) /\ Len(c) = Len(s) + (Count(s, "(") - Count(s, ")"))
          /\ \A n \in 1..Len(s) : c[n] = s[n]
      BY <2>1, <3>2, ClosedIs
    <3>4. Len(c) \in Nat /\ DOMAIN c = 1..Len(c)
      BY <3>3, LenProperties
    <3> HIDE DEF c
    <3> QED
      BY <2>1, <3>1, <3>2, <3>3, <3>4
  <2>3. Legal(c)
    BY <1>3, <2>2, WholeIs, Libraries
  <2> HIDE DEF c
  <2>4. \A n \in 1..Len(text) : c[n] = text[n] /\ n \in DOMAIN c
    BY <1>2, <2>1, <2>2
  <2>5. ASSUME NEW n \in 1..Len(text) PROVE Depth(c, n) = Depth(text, n)
    <3>1. n \in Nat /\ \A m \in 1..n : c[m] = text[m]
      BY <1>2, <2>4
    <3> QED
      BY <3>1, DepthSame
  <2>6. \A n \in 1..Len(text) : text[n] \in Opens \cup Ends \cup Asks /\ Depth(text, n) >= 0
    BY <2>3, <2>4, <2>5 DEF Legal
  <2>7. \A n \in 1..Len(text) : text[n] \in Opens <=> n = 1 \/ text[n - 1] \in Asks
    <3> SUFFICES ASSUME NEW n \in 1..Len(text) PROVE text[n] \in Opens <=> n = 1 \/ text[n - 1] \in Asks
      OBVIOUS
    <3>1. n # 1 => n - 1 \in 1..Len(text)
      BY <1>2
    <3> QED
      BY <2>3, <2>4, <3>1 DEF Legal
  <2> QED
    BY <1>2, <2>6, <2>7 DEF Legal
<1>4. ASSUME Legal(text)
      PROVE  \E s \in {text} \cup {Append(text, n) : n \in Numeral} :
               Count(s, "(") >= Count(s, ")") /\ Meaning(Lenient, Closed(s)) # NoExpression
  <2> DEFINE Good(s) == Count(s, "(") >= Count(s, ")") /\ Meaning(Lenient, Closed(s)) # NoExpression
  <2>0. ASSUME NEW s \in Seq(Token), Legal(s), ~Expects(s) PROVE Good(s)
    <3>1. Count(s, "(") \in Nat /\ Count(s, ")") \in Nat
      BY CountIs
    <3> QED
      BY <2>0, <3>1, ClosedIsWhole
  <2> HIDE DEF Good
  <2>1. CASE ~Expects(text)
    <3>1. Good(text)
      BY <1>4, <2>0, <2>1
    <3> QED
      BY <3>1 DEF Good
  <2>2. CASE Expects(text)
    <3>1. PICK n : n \in Numeral
      BY TextAssumption
    <3>2. n \in Token /\ n \in Opens /\ n # ")" /\ n \notin Asks
      BY <3>1, TokenAssumption, TextAssumption DEF Token, Opens, Atom, Asks
    <3>3. Legal(Append(text, n))
      BY <1>4, <2>2, <3>2, Takes
    <3>4. Append(text, n) \in Seq(Token) /\ ~Expects(Append(text, n))
      BY <3>2, Appended DEF Expects
    <3>5. Good(Append(text, n))
      BY <2>0, <3>3, <3>4
    <3> QED
      BY <3>1, <3>5 DEF Good
  <2> QED
    BY <2>1, <2>2
<1> QED
  BY <1>1, <1>3, <1>4

\* The constructor takes exactly the texts with a meaning, and refuses a text
\* at the first token after which nothing could give it one: the token before
\* and the two counts tell it all it needs.
THEOREM ConstructorTakesExpressions == Spec => []TextsAreExpressions
<1>1. ASSUME Reads PROVE TextsAreExpressions
  <2>1. tokens \in Seq(Token)
    BY <1>1 DEF Reads
  <2>2. Expects(tokens) <=> ExpectsOperand
    BY DEF Expects, ExpectsOperand, Asks
  <2>3. status # "refused" => /\ Legal(tokens)
                              /\ leftParen = Count(tokens, "(") /\ rightParen = Count(tokens, ")")
    BY <1>1 DEF Reads, Known
  <2>4. status \in {"formula", "evaluated"} => Meaning(Lenient, tokens) # NoExpression
    <3>1. status \in {"formula", "evaluated"} => ~ExpectsOperand /\ leftParen = rightParen
      BY <1>1 DEF Reads
    <3> QED
      BY <2>1, <2>2, <2>3, <3>1, WholeIs, Libraries
  <2>5. status = "unfinished" => Meaning(Lenient, tokens) = NoExpression
    <3>1. status = "unfinished" => ExpectsOperand \/ leftParen # rightParen
      BY <1>1 DEF Reads
    <3> QED
      BY <2>1, <2>2, <2>3, <3>1, WholeIs, Libraries
  <2>6. status # "refused" <=> tokens = <<>> \/ CanBeContinued(tokens)
    <3>1. status = "refused" => tokens # <<>> /\ ~Legal(tokens)
      BY <1>1 DEF Reads
    <3> QED
      BY <2>1, <2>3, <3>1, ContinuedIs
  <2> QED
    BY <2>4, <2>5, <2>6 DEF TextsAreExpressions
<1> QED
  BY <1>1, ReadsAlways, PTL

-----------------------------------------------------------------------------
(* The machine of both libraries.                                          *)

Opening == Operator \cup {"("}

Machine(strict, values, ops) == [strict |-> strict, values |-> values, ops |-> ops, ends |-> <<>>]

Failure(strict) == IF strict THEN ArgumentException ELSE FormulaError

LEMMA EndOfAppended ==
  ASSUME NEW S, NEW s \in Seq(S), NEW x \in S
  PROVE  /\ Append(s, x) \in Seq(S) /\ Append(s, x) # <<>> /\ Len(Append(s, x)) = Len(s) + 1 /\ Len(s) \in Nat
         /\ Last(Append(s, x)) = x /\ Front(Append(s, x)) = s
<1> DEFINE a == Append(s, x)
           N == Len(s)
           f == SubSeq(a, 1, N)
<1>1. a \in Seq(S) /\ Len(a) = N + 1 /\ (\A n \in 1..N : a[n] = s[n]) /\ a[N + 1] = x /\ N \in Nat
  BY AppendProperties, LenProperties
<1>2. a # <<>>
  BY <1>1, EmptySeq
<1>3. \A n \in 1..N : a[n] \in S
  <2>1. \A n \in 1..N : s[n] \in S
    BY ElementOfSeq
  <2> QED
    BY <1>1, <2>1
<1>4. f \in Seq(S) /\ Len(f) = N /\ \A n \in 1..N : f[n] = s[n]
  <2> HIDE DEF a, N
  <2>1. /\ f \in Seq(S) /\ Len(f) = (IF 1 <= N THEN N - 1 + 1 ELSE 0)
        /\ \A n \in 1..(N - 1 + 1) : f[n] = a[1 + n - 1]
    BY <1>1, <1>3, SubSeqProperties
  <2>2. (IF 1 <= N THEN N - 1 + 1 ELSE 0) = N /\ N - 1 + 1 = N
    BY <1>1
  <2>3. \A n \in 1..N : 1 + n - 1 = n
    OBVIOUS
  <2> QED
    BY <1>1, <2>1, <2>2, <2>3
<1>5. f = s
  BY <1>4, SeqEqual
<1>6. (N + 1) - 1 = N
  BY <1>1
<1> QED
  BY <1>1, <1>2, <1>5, <1>6 DEF Last, Front

LEMMA FailIs ==
  ASSUME NEW q, NEW v, NEW o
  PROVE  /\ Fail(Machine(q, v, o), FormulaError).ends = <<Failure(q)>>
         /\ \A r : Fail(Machine(q, v, o), r) =
                     [strict |-> q, values |-> v, ops |-> o, ends |-> <<IF q THEN ArgumentException ELSE r>>]
BY DEF Fail, Machine, Failure

LEMMA PushIs ==
  ASSUME NEW q, NEW v, NEW o, NEW x
  PROVE  /\ PushValue(Machine(q, v, o), x) = Machine(q, Append(v, x), o)
         /\ PushOperator(Machine(q, v, o), x) = Machine(q, v, Append(o, x))
<1> DEFINE m == Machine(q, v, o)
<1>1. m = [strict |-> q, values |-> v, ops |-> o, ends |-> <<>>]
  BY DEF Machine
<1>2. m.values = v /\ m.ops = o /\ m.ends = <<>>
  BY <1>1
<1>3. [m EXCEPT !.values = Append(v, x)] = Machine(q, Append(v, x), o)
  BY <1>1 DEF Machine
<1>4. [m EXCEPT !.ops = Append(o, x)] = Machine(q, v, Append(o, x))
  BY <1>1 DEF Machine
<1> HIDE DEF m
<1>5. PushValue(m, x) = [m EXCEPT !.values = Append(v, x)]
  BY <1>2 DEF PushValue
<1>6. PushOperator(m, x) = [m EXCEPT !.ops = Append(o, x)]
  BY <1>2 DEF PushOperator
<1> QED
  BY <1>3, <1>4, <1>5, <1>6 DEF m

LEMMA CombineIs ==
  ASSUME NEW q, NEW v \in Seq(Number), NEW o \in Seq(Opening), NEW op \in Opening,
         NEW x \in Number, NEW y \in Number
  PROVE  Combine(Machine(q, Append(Append(v, x), y), Append(o, op))) = Machine(q, Append(v, Apply(q, op, x, y)), o)
<1> DEFINE a == Append(v, x)
           b == Append(a, y)
           p == Append(o, op)
           m == Machine(q, b, p)
<1>1. a \in Seq(Number) /\ Len(a) = Len(v) + 1 /\ Len(v) \in Nat /\ Last(a) = x /\ Front(a) = v
  BY EndOfAppended
<1> HIDE DEF a
<1>2. Len(b) = Len(a) + 1 /\ Last(b) = y /\ Front(b) = a
  BY <1>1, EndOfAppended
<1>3. Last(p) = op /\ Front(p) = o
  BY EndOfAppended
<1> HIDE DEF b, p
<1>4. m = [strict |-> q, values |-> b, ops |-> p, ends |-> <<>>]
  BY DEF Machine
<1> HIDE DEF m
<1>5. ~(Len(m.values) < 2)
  BY <1>1, <1>2, <1>4
<1>6. m.ops = p /\ m.values = b /\ m.strict = q
  BY <1>4
<1>7. Combine(m) = [m EXCEPT !.values = Append(v, Apply(q, op, x, y)), !.ops = o]
  BY <1>1, <1>2, <1>3, <1>5, <1>6 DEF Combine
<1>8. Combine(m) = Machine(q, Append(v, Apply(q, op, x, y)), o)
  BY <1>4, <1>7 DEF Machine
<1> QED
  BY <1>8 DEF m, a, b, p

\* A value on top of the stacks; a product that waits for it is taken.
LEMMA AddValue ==
  ASSUME NEW q, NEW v, NEW o, NEW y, ~IsOnTop(o, Products)
  PROVE  AddDouble(Machine(q, v, o), y) = Machine(q, Append(v, y), o)
<1>1. Machine(q, v, o).ops = o
  BY DEF Machine
<1> QED
  BY <1>1, PushIs DEF AddDouble

LEMMA AddFactor ==
  ASSUME NEW q, NEW v \in Seq(Number), NEW o \in Seq(Opening), NEW y \in Number,
         NEW x \in Number, NEW op \in Products,
         NEW m, m = Machine(q, Append(v, x), Append(o, op))
  PROVE  IF y = Zero /\ op = "/" THEN AddDouble(m, y).ends = <<Failure(q)>>
         ELSE AddDouble(m, y) = Machine(q, Append(v, Apply(q, op, x, y)), o)
<1>1. m.ops = Append(o, op)
  BY DEF Machine
<1>2. op \in Opening
  BY Kinds DEF Opening
<1>3. Append(o, op) # <<>> /\ Last(Append(o, op)) = op
  BY <1>2, EndOfAppended
<1>4. IsOnTop(m.ops, Products) /\ Last(m.ops) = op
  BY <1>1, <1>3 DEF IsOnTop
<1>5. PushValue(m, y) = Machine(q, Append(Append(v, x), y), Append(o, op))
  BY PushIs
<1>6. Combine(PushValue(m, y)) = Machine(q, Append(v, Apply(q, op, x, y)), o)
  BY <1>2, <1>5, CombineIs
<1>7. Fail(m, FormulaError).ends = <<Failure(q)>>
  BY FailIs
<1>8. AddDouble(m, y) = IF y = Zero /\ op = "/" THEN Fail(m, FormulaError) ELSE Combine(PushValue(m, y))
  BY <1>4 DEF AddDouble
<1> QED
  BY <1>6, <1>7, <1>8

\* A sum whose value is there, or is the next to be taken.
Summed(m, q, v, o, x) ==
  \/ m = Machine(q, Append(v, x), o)
  \/ \E a, b \in Number : \E op \in Signs :
       m = Machine(q, Append(Append(v, a), b), Append(o, op)) /\ x = Apply(q, op, a, b)

LEMMA SummedIs ==
  ASSUME NEW q, NEW v \in Seq(Number), NEW o \in Seq(Opening), ~IsOnTop(o, Signs), NEW x,
         NEW m, Summed(m, q, v, o, x)
  PROVE  AddOrSubtract(m) = Machine(q, Append(v, x), o) /\ m.ends = <<>>
<1>1. CASE m = Machine(q, Append(v, x), o)
  <2>1. m.ops = o /\ m.ends = <<>>
    BY <1>1 DEF Machine
  <2> QED
    BY <1>1, <2>1 DEF AddOrSubtract
<1>2. CASE \E a, b \in Number : \E op \in Signs :
             m = Machine(q, Append(Append(v, a), b), Append(o, op)) /\ x = Apply(q, op, a, b)
  <2>1. PICK a \in Number, b \in Number, op \in Signs :
          m = Machine(q, Append(Append(v, a), b), Append(o, op)) /\ x = Apply(q, op, a, b)
    BY <1>2
  <2>2. op \in Opening
    BY Kinds DEF Opening
  <2>3. Append(o, op) # <<>> /\ Last(Append(o, op)) = op
    BY <2>2, EndOfAppended
  <2>4. m.ops = Append(o, op) /\ m.ends = <<>>
    BY <2>1 DEF Machine
  <2>5. IsOnTop(m.ops, Signs)
    BY <2>3, <2>4 DEF IsOnTop
  <2>6. Combine(m) = Machine(q, Append(v, x), o)
    BY <2>1, <2>2, CombineIs
  <2> QED
    BY <2>4, <2>5, <2>6 DEF AddOrSubtract
<1> QED
  BY <1>1, <1>2 DEF Summed

\* A parenthesis closes on the sum inside of it, which becomes an operand.
LEMMA ClosingIs ==
  ASSUME NEW q, NEW v \in Seq(Number), NEW o \in Seq(Opening), NEW x \in Number,
         NEW m, Summed(m, q, v, Append(o, "("), x)
  PROVE  RightParenthesis(m) = AddDouble(Machine(q, v, o), x) /\ m.ends = <<>>
<1> DEFINE p == Append(o, "(")
           n == AddOrSubtract(m)
           opened == Machine(q, Append(v, x), o)
<1>1. /\ p \in Seq(Opening) /\ p # <<>> /\ Last(p) = "(" /\ Front(p) = o /\ Len(p) = Len(o) + 1 /\ Len(o) \in Nat
  <2>1. "(" \in Opening
    BY DEF Opening
  <2> QED
    BY <2>1, EndOfAppended
<1>2. ~IsOnTop(p, Signs) /\ IsOnTop(p, {"("})
  BY <1>1, Kinds DEF IsOnTop
<1> HIDE DEF p
<1>3. n = Machine(q, Append(v, x), p) /\ m.ends = <<>>
  BY <1>1, <1>2, SummedIs DEF p
<1>4. n.ends = <<>> /\ n.ops = p /\ n.values = Append(v, x) /\ n.strict = q
  BY <1>3 DEF Machine
<1>5. [n EXCEPT !.ops = Front(@)] = opened
  <2> HIDE DEF n
  <2>1. [Machine(q, Append(v, x), p) EXCEPT !.ops = o] = opened
    BY DEF Machine
  <2> HIDE DEF opened
  <2>2. [n EXCEPT !.ops = o] = opened
    BY <1>3, <2>1, Zenon
  <2> QED
    BY <1>1, <1>4, <2>2
<1>6. opened # n
  <2>1. opened.ops = o /\ n.ops = p
    BY <1>3 DEF Machine
  <2>2. o # p
    BY <1>1
  <2> QED
    BY <2>1, <2>2
<1>7. Append(v, x) # <<>> /\ Last(Append(v, x)) = x /\ Front(Append(v, x)) = v
  BY EndOfAppended
<1>8. [opened EXCEPT !.values = Front(@)] = Machine(q, v, o)
  BY <1>7 DEF Machine
<1> HIDE DEF opened
<1>9. RightParenthesis(m) = AddDouble([opened EXCEPT !.values = Front(@)], Last(n.values))
  BY <1>2, <1>4, <1>5, <1>6, <1>7 DEF RightParenthesis
<1> QED
  BY <1>3, <1>4, <1>7, <1>8, <1>9

\* The rounds, by the kind of the token.
LEMMA RoundIs ==
  ASSUME NEW q, NEW v, NEW o, NEW t
  PROVE  LET m == Machine(q, v, o) IN
         /\ t \in Products \cup {"("} => EvaluateToken(m, t) = Machine(q, v, Append(o, t))
         /\ t \in Atom /\ (q \/ (t \in Name => t \in CellName)) =>
              IF t \in Numbered(q) THEN EvaluateToken(m, t) = AddDouble(m, Worth(q, t))
              ELSE EvaluateToken(m, t).ends = <<Failure(q)>>
<1> DEFINE m == Machine(q, v, o)
<1>1. m.ends = <<>> /\ m.strict = q
  BY DEF Machine
<1>2. /\ Numbered(q) \subseteq Numeral \cup Name /\ CellName \subseteq Name /\ (~q => Numeral \subseteq Numbered(q))
      /\ (Numeral \cup Name) \cap (Operator \cup {"(", ")"}) = {}
  BY Numbers, TokenAssumption DEF CellName
<1>3. PushOperator(m, t) = Machine(q, v, Append(o, t))
  BY PushIs
<1>4. \A r : q \/ r = FormulaError => Fail(m, r).ends = <<Failure(q)>>
  <2>1. \A r : Fail(m, r).ends = <<IF q THEN ArgumentException ELSE r>>
    BY <1>1 DEF Fail, Machine
  <2> QED
    BY <2>1 DEF Failure
<1> HIDE DEF m
<1>5. ASSUME t \in Products \cup {"("} PROVE EvaluateToken(m, t) = Machine(q, v, Append(o, t))
  <2>1. t \notin Numbered(q) /\ t \notin CellName /\ t \notin Signs
    BY <1>2, <1>5, Kinds
  <2> QED
    BY <1>1, <1>3, <1>5, <2>1 DEF EvaluateToken
<1>6. ASSUME t \in Atom, q \/ (t \in Name => t \in CellName)
      PROVE  IF t \in Numbered(q) THEN EvaluateToken(m, t) = AddDouble(m, Worth(q, t))
             ELSE EvaluateToken(m, t).ends = <<Failure(q)>>
  <2>1. CASE t \in Numbered(q)
    BY <1>1, <2>1 DEF EvaluateToken
  <2>2. CASE t \notin Numbered(q) /\ t \in CellName
    <3>1. EvaluateToken(m, t) = Fail(m, FormulaError)
      BY <1>1, <2>2 DEF EvaluateToken
    <3> QED
      BY <1>4, <2>2, <3>1
  <2>3. CASE t \notin Numbered(q) /\ t \notin CellName
    <3>1. q
      BY <1>2, <1>6, <2>3 DEF Atom
    <3>2. t \notin Signs /\ t \notin Products \cup {"("} /\ t # ")"
      BY <1>2, <1>6, Kinds DEF Atom
    <3>3. EvaluateToken(m, t) = Fail(m, StackEmpty)
      BY <1>1, <2>3, <3>1, <3>2 DEF EvaluateToken
    <3> QED
      BY <1>4, <2>3, <3>1, <3>3
  <2> QED
    BY <2>1, <2>2, <2>3
<1> QED
  BY <1>5, <1>6 DEF m

LEMMA SignIs ==
  ASSUME NEW m, m.ends = <<>>, NEW t \in Signs
  PROVE  EvaluateToken(m, t) = PushOperator(AddOrSubtract(m), t)
<1>1. t \notin Numbered(m.strict) /\ t \notin CellName
  BY Numbers, TokenAssumption, Kinds DEF CellName
<1> QED
  BY <1>1 DEF EvaluateToken

LEMMA ParenthesisIs ==
  ASSUME NEW m, m.ends = <<>>
  PROVE  EvaluateToken(m, ")") = RightParenthesis(m)
<1>1. ")" \notin Numbered(m.strict) /\ ")" \notin CellName
  BY Numbers, TokenAssumption DEF CellName
<1>2. ")" \notin Signs /\ ")" \notin Products \cup {"("}
  BY Kinds
<1> QED
  BY <1>1, <1>2 DEF EvaluateToken

-----------------------------------------------------------------------------
(* The evaluation of a span: it leaves one value, or has failed.           *)

\* Without names that Formula passes over.
Plain(text, q) == q \/ \A n \in 1..Len(text) : text[n] \in Name => text[n] \in CellName

Evaluates(text, span, run, q) ==
  /\ q \in BOOLEAN /\ Len(text) \in Nat /\ Spans(q, text, span) /\ Plain(text, q)
  /\ \A n \in 1..Len(text) : run[n] = EvaluateToken(run[n - 1], text[n])

Failed(q, m) == m.ends = <<Failure(q)>>

\* An operand: its value is taken like one that is read.
OperandDone(text, span, run, q, i, j) ==
  Outside(text, i, j, Operator) = {} =>
    \A v \in Seq(Number) : \A o \in Seq(Opening) :
      run[i - 1] = Machine(q, v, o) =>
        IF span[<<i, j>>] = FormulaError THEN Failed(q, run[j])
        ELSE run[j] = AddDouble(Machine(q, v, o), span[<<i, j>>].value)

\* A term, where no product waits: its value is on the stack.
TermDone(text, span, run, q, i, j) ==
  Outside(text, i, j, Signs) = {} =>
    \A v \in Seq(Number) : \A o \in Seq(Opening) :
      run[i - 1] = Machine(q, v, o) /\ ~IsOnTop(o, Products) =>
        IF span[<<i, j>>] = FormulaError THEN Failed(q, run[j])
        ELSE run[j] = Machine(q, Append(v, span[<<i, j>>].value), o)

\* A sum, where no operator waits: its last sign may still be there.
SumDone(text, span, run, q, i, j) ==
  \A v \in Seq(Number) : \A o \in Seq(Opening) :
    run[i - 1] = Machine(q, v, o) /\ ~IsOnTop(o, Operator) =>
      IF span[<<i, j>>] = FormulaError THEN Failed(q, run[j])
      ELSE Summed(run[j], q, v, o, span[<<i, j>>].value)

SpanDone(text, span, run, q, i, j) ==
  /\ OperandDone(text, span, run, q, i, j)
  /\ TermDone(text, span, run, q, i, j)
  /\ SumDone(text, span, run, q, i, j)

ShorterDone(text, span, run, q, i, j) ==
  \A a \in 1..Len(text) : \A b \in 1..Len(text) :
    a <= b /\ b - a < j - i /\ Right(text, a, b) => SpanDone(text, span, run, q, a, b)

LEMMA EndsStay ==
  ASSUME NEW text, NEW run, Len(text) \in Nat,
         \A n \in 1..Len(text) : run[n] = EvaluateToken(run[n - 1], text[n]),
         NEW i \in 0..Len(text), NEW j \in i..Len(text), run[i].ends # <<>>
  PROVE  run[j] = run[i]
<1> DEFINE N == Len(text)
           Same(d) == i + d <= N => run[i + d] = run[i]
           S == {d \in Nat : Same(d)}
<1>0. \A m, t : m.ends # <<>> => EvaluateToken(m, t) = m
  BY DEF EvaluateToken
<1>1. N \in Nat /\ i \in Nat
  OBVIOUS
<1> HIDE DEF N
<1>2. 0 \in S
  BY <1>1
<1>3. ASSUME NEW d \in S PROVE d + 1 \in S
  <2>1. d \in Nat /\ Same(d)
    OBVIOUS
  <2>2. ASSUME i + (d + 1) <= N PROVE run[i + (d + 1)] = run[i]
    <3>1. i + (d + 1) \in 1..N /\ (i + (d + 1)) - 1 = i + d /\ i + d <= N
      BY <1>1, <2>1, <2>2
    <3>2. run[i + (d + 1)] = EvaluateToken(run[i + d], text[i + (d + 1)])
      BY <3>1 DEF N
    <3>3. run[i + d] = run[i]
      BY <2>1, <3>1
    <3>4. \A t : EvaluateToken(run[i], t) = run[i]
      BY <1>0
    <3> QED
      BY <3>2, <3>3, <3>4
  <2> QED
    BY <2>1, <2>2
<1>4. S = Nat
  <2> HIDE DEF Same
  <2>1. S \in SUBSET Nat
    OBVIOUS
  <2> HIDE DEF S
  <2> QED
    BY <1>2, <1>3, <2>1, NatSet
<1>5. j - i \in S /\ i + (j - i) = j /\ j <= N
  <2>1. j - i \in Nat /\ i + (j - i) = j /\ j <= N
    BY <1>1 DEF N
  <2> HIDE DEF S
  <2> QED
    BY <1>4, <2>1
<1> QED
  BY <1>5

\* A failure of the first part of a span is one of the whole span.
LEMMA FailureStays ==
  ASSUME NEW text, NEW span, NEW run, NEW q, Evaluates(text, span, run, q),
         NEW i \in 0..Len(text), NEW j \in i..Len(text), Failed(q, run[i])
  PROVE  Failed(q, run[j])
<1>1. run[i].ends # <<>>
  BY DEF Failed
<1>2. run[j] = run[i]
  BY <1>1, EndsStay DEF Evaluates
<1> QED
  BY <1>2

LEMMA BothAre ==
  ASSUME NEW q, NEW op \in Operator, NEW x \in Answer, NEW y \in Answer
  PROVE  /\ x = FormulaError \/ y = FormulaError => Both(q, op, x, y) = FormulaError
         /\ x # FormulaError => x.value \in Number /\ x = Value(x.value)
         /\ x # FormulaError /\ y # FormulaError =>
              IF y.value = Zero /\ op = "/" THEN Both(q, op, x, y) = FormulaError
              ELSE Both(q, op, x, y) # FormulaError /\ Both(q, op, x, y).value = Apply(q, op, x.value, y.value)
<1>1. x # NoExpression /\ y # NoExpression
  BY Answers
<1>2. x = FormulaError \/ y = FormulaError => Both(q, op, x, y) = FormulaError
  BY <1>1 DEF Both
<1>3. \A z \in Answer : z # FormulaError => z.value \in Number /\ z = Value(z.value)
  <2> SUFFICES ASSUME NEW z \in Answer, z # FormulaError PROVE z.value \in Number /\ z = Value(z.value)
    OBVIOUS
  <2>1. PICK a \in Number : z = Value(a)
    BY DEF Answer
  <2>2. z.value = a
    BY <2>1, Answers
  <2> QED
    BY <2>1, <2>2
<1>4. ASSUME x # FormulaError, y # FormulaError
      PROVE  IF y.value = Zero /\ op = "/" THEN Both(q, op, x, y) = FormulaError
             ELSE Both(q, op, x, y) # FormulaError /\ Both(q, op, x, y).value = Apply(q, op, x.value, y.value)
  <2>1. y = Value(Zero) <=> y.value = Zero
    BY <1>3, <1>4, Answers
  <2>2. CASE y.value = Zero /\ op = "/"
    BY <1>1, <2>1, <2>2 DEF Both
  <2>3. CASE ~(y.value = Zero /\ op = "/")
    <3>1. Both(q, op, x, y) = Value(Apply(q, op, x.value, y.value))
      BY <1>1, <1>4, <2>1, <2>3 DEF Both
    <3> QED
      BY <2>3, <3>1, Answers
  <2> QED
    BY <2>2, <2>3
<1> QED
  BY <1>2, <1>3, <1>4

LEMMA Between ==
  ASSUME NEW N \in Nat, NEW i \in 1..N, NEW j \in i..N, NEW k \in (i + 1)..(j - 1)
  PROVE  /\ k - 1 \in 1..N /\ k + 1 \in 1..N /\ k - 1 \in 0..N /\ j \in 0..N /\ (k + 1) - 1 = k /\ k \in 1..N
         /\ i <= k - 1 /\ (k - 1) - i < j - i /\ k + 1 <= j /\ j - (k + 1) < j - i
         /\ j \in 1..N /\ j \in (k - 1)..N
OBVIOUS

\* How a span that is right is split, and what it means.
Split(q, text, span, i, j, k) ==
  /\ k \in (i + 1)..(j - 1) /\ text[k] \in Operator /\ Depth(text, k) = Depth(text, i - 1)
  /\ k - 1 \in 1..Len(text) /\ k + 1 \in 1..Len(text) /\ (k + 1) - 1 = k /\ k \in 1..Len(text)
  /\ i <= k - 1 /\ (k - 1) - i < j - i /\ k + 1 <= j /\ j - (k + 1) < j - i
  /\ j \in 1..Len(text) /\ k - 1 \in 0..Len(text) /\ j \in (k - 1)..Len(text)
  /\ Right(text, i, k - 1) /\ Right(text, k + 1, j)
  /\ span[<<i, k - 1>>] \in Answer /\ span[<<k + 1, j>>] \in Answer
  /\ k = Outermost(text, i, j) => span[<<i, j>>] = Both(q, text[k], span[<<i, k - 1>>], span[<<k + 1, j>>])

LEMMA SplitAt ==
  ASSUME NEW text, NEW span, NEW run, NEW q, Evaluates(text, span, run, q),
         NEW i \in 1..Len(text), NEW j \in i..Len(text), Right(text, i, j),
         NEW k \in Outside(text, i, j, Operator)
  PROVE  Split(q, text, span, i, j, k)
<1> DEFINE N == Len(text)
<1>0. q \in BOOLEAN /\ N \in Nat /\ Spans(q, text, span)
  BY DEF Evaluates
<1>1. /\ k \in (i + 1)..(j - 1) /\ text[k] \in Operator
      /\ Depth(text, k) = Depth(text, i - 1)
      /\ Right(text, i, k - 1) /\ Right(text, k + 1, j)
  <2>1. i \in Nat \ {0} /\ j \in Nat /\ i <= j
    BY <1>0
  <2> QED
    BY <2>1, Splits
<1>2. /\ k - 1 \in 1..N /\ k + 1 \in 1..N /\ k - 1 \in 0..N /\ j \in 0..N /\ (k + 1) - 1 = k /\ k \in 1..N
      /\ i <= k - 1 /\ (k - 1) - i < j - i /\ k + 1 <= j /\ j - (k + 1) < j - i
      /\ j \in 1..N /\ j \in (k - 1)..N
  BY <1>0, <1>1, Between
<1>3. span[<<i, k - 1>>] \in Answer /\ span[<<k + 1, j>>] \in Answer
  <2>1. \A a \in 1..N : \A b \in 0..N :
          /\ span[<<a, b>>] # NoExpression <=> a <= b /\ Right(text, a, b)
          /\ span[<<a, b>>] \in Answer \cup {NoExpression}
    BY <1>0, Grammar
  <2> QED
    BY <1>1, <1>2, <2>1
<1>4. ~(j < i) /\ k \notin {i, j}
  BY <1>0, <1>1
<1>5. span[<<i, j>>] = MeaningOf(q, text, span, i, j)
  BY <1>0, <1>2 DEF Spans
<1>6. ASSUME k = Outermost(text, i, j)
      PROVE  MeaningOf(q, text, span, i, j) = Both(q, text[k], span[<<i, k - 1>>], span[<<k + 1, j>>])
  BY <1>4, <1>6 DEF MeaningOf
<1> QED
  BY <1>1, <1>2, <1>3, <1>5, <1>6 DEF Split

LEMMA SplitIs ==
  ASSUME NEW text, NEW span, NEW run, NEW q, Evaluates(text, span, run, q),
         NEW i \in 1..Len(text), NEW j \in i..Len(text), Right(text, i, j),
         Outside(text, i, j, Operator) # {}
  PROVE  Split(q, text, span, i, j, Outermost(text, i, j))
<1>1. i \in Int /\ j \in Int
  OBVIOUS
<1>2. Outermost(text, i, j) \in Outside(text, i, j, Operator)
  BY <1>1, OutermostIs
<1> QED
  BY <1>2, SplitAt

LEMMA AnswerIs ==
  ASSUME NEW text, NEW span, NEW run, NEW q, Evaluates(text, span, run, q),
         NEW i \in 1..Len(text), NEW j \in i..Len(text), Right(text, i, j)
  PROVE  /\ span[<<i, j>>] \in Answer
         /\ span[<<i, j>>] # FormulaError => span[<<i, j>>].value \in Number
<1>0. q \in BOOLEAN /\ Len(text) \in Nat /\ Spans(q, text, span)
  BY DEF Evaluates
<1>1. \A a \in 1..Len(text) : \A b \in 0..Len(text) :
        /\ span[<<a, b>>] # NoExpression <=> a <= b /\ Right(text, a, b)
        /\ span[<<a, b>>] \in Answer \cup {NoExpression}
  BY <1>0, Grammar
<1>2. j \in 0..Len(text) /\ i <= j
  BY <1>0
<1>3. span[<<i, j>>] \in Answer
  BY <1>1, <1>2
<1>4. "+" \in Operator
  BY Kinds
<1> QED
  BY <1>3, <1>4, BothAre

LEMMA OperandStep ==
  ASSUME NEW text, NEW span, NEW run, NEW q, Evaluates(text, span, run, q),
         NEW i \in 1..Len(text), NEW j \in i..Len(text), Right(text, i, j),
         ShorterDone(text, span, run, q, i, j)
  PROVE  OperandDone(text, span, run, q, i, j)
<1> DEFINE N == Len(text)
           x == span[<<i, j>>]
<1> SUFFICES ASSUME Outside(text, i, j, Operator) = {}, NEW v \in Seq(Number), NEW o \in Seq(Opening),
                    run[i - 1] = Machine(q, v, o)
             PROVE  IF x = FormulaError THEN Failed(q, run[j])
                    ELSE run[j] = AddDouble(Machine(q, v, o), x.value)
  BY DEF OperandDone
<1>0. /\ N \in Nat /\ i \in Nat \ {0} /\ j \in Nat /\ i <= j /\ j \in 1..N /\ j \in 0..N
      /\ Spans(q, text, span) /\ Plain(text, q)
      /\ \A n \in 1..N : run[n] = EvaluateToken(run[n - 1], text[n])
  BY DEF Evaluates
<1>1. x = MeaningOf(q, text, span, i, j)
  BY <1>0 DEF Spans
<1>2. \/ i = j /\ text[i] \in Atom
      \/ text[i] = "(" /\ text[j] = ")" /\ i + 1 <= j - 1 /\ Right(text, i + 1, j - 1)
  BY <1>0, Peels
<1>3. CASE i = j /\ text[i] \in Atom
  <2>1. text[i] # "("
    BY <1>3, Kinds
  <2>2. x = IF text[i] \in Numbered(q) THEN Value(Worth(q, text[i])) ELSE FormulaError
    BY <1>0, <1>1, <1>3, <2>1 DEF MeaningOf, Atom
  <2>3. /\ q \/ (text[i] \in Name => text[i] \in CellName)
        /\ run[i] = EvaluateToken(run[i - 1], text[i])
    BY <1>0 DEF Plain
  <2>4. IF text[i] \in Numbered(q) THEN run[i] = AddDouble(Machine(q, v, o), Worth(q, text[i]))
        ELSE run[i].ends = <<Failure(q)>>
    BY <1>3, <2>3, RoundIs
  <2>5. CASE text[i] \in Numbered(q)
    <3>1. x # FormulaError /\ x.value = Worth(q, text[i])
      BY <2>2, <2>5, Answers
    <3> QED
      BY <1>3, <2>4, <2>5, <3>1
  <2>6. CASE text[i] \notin Numbered(q)
    BY <1>3, <2>2, <2>4, <2>6 DEF Failed
  <2> QED
    BY <2>5, <2>6
<1>4. CASE text[i] = "(" /\ text[j] = ")" /\ i + 1 <= j - 1 /\ Right(text, i + 1, j - 1)
  <2>1. /\ i + 1 \in 1..N /\ j - 1 \in 1..N /\ (i + 1) - 1 = i /\ (j - 1) - (i + 1) < j - i
        /\ j - 1 \in 0..N /\ j \in (j - 1)..N /\ j - 1 \in (i + 1)..N
    BY <1>0, <1>4
  <2>2. x = span[<<i + 1, j - 1>>]
    BY <1>0, <1>1, <1>4 DEF MeaningOf
  <2>3. run[i] = Machine(q, v, Append(o, "("))
    BY <1>0, <1>4, RoundIs
  <2>4. Append(o, "(") \in Seq(Opening) /\ ~IsOnTop(Append(o, "("), Operator)
    <3>1. "(" \in Opening
      BY DEF Opening
    <3>2. Append(o, "(") \in Seq(Opening) /\ Last(Append(o, "(")) = "("
      BY <3>1, EndOfAppended
    <3> QED
      BY <3>2, Kinds DEF IsOnTop
  <2>5. SumDone(text, span, run, q, i + 1, j - 1)
    BY <1>0, <1>4, <2>1 DEF ShorterDone, SpanDone
  <2>6. IF x = FormulaError THEN Failed(q, run[j - 1]) ELSE Summed(run[j - 1], q, v, Append(o, "("), x.value)
    BY <2>1, <2>2, <2>3, <2>4, <2>5 DEF SumDone
  <2>7. CASE x = FormulaError
    BY <2>1, <2>6, <2>7, FailureStays
  <2>8. CASE x # FormulaError
    <3>1. x.value \in Number
      BY <1>4, <2>1, <2>2, <2>8, AnswerIs
    <3> HIDE DEF x
    <3>2. RightParenthesis(run[j - 1]) = AddDouble(Machine(q, v, o), x.value) /\ run[j - 1].ends = <<>>
      BY <2>6, <2>8, <3>1, ClosingIs
    <3>3. run[j] = EvaluateToken(run[j - 1], ")")
      BY <1>0, <1>4
    <3>4. EvaluateToken(run[j - 1], ")") = RightParenthesis(run[j - 1])
      BY <3>2, ParenthesisIs
    <3> QED
      BY <2>8, <3>2, <3>3, <3>4
  <2> QED
    BY <2>7, <2>8
<1> QED
  BY <1>2, <1>3, <1>4

LEMMA TermStep ==
  ASSUME NEW text, NEW span, NEW run, NEW q, Evaluates(text, span, run, q),
         NEW i \in 1..Len(text), NEW j \in i..Len(text), Right(text, i, j),
         ShorterDone(text, span, run, q, i, j), OperandDone(text, span, run, q, i, j)
  PROVE  TermDone(text, span, run, q, i, j)
<1> DEFINE N == Len(text)
           x == span[<<i, j>>]
<1> SUFFICES ASSUME Outside(text, i, j, Signs) = {}, NEW v \in Seq(Number), NEW o \in Seq(Opening),
                    run[i - 1] = Machine(q, v, o), ~IsOnTop(o, Products)
             PROVE  IF x = FormulaError THEN Failed(q, run[j])
                    ELSE run[j] = Machine(q, Append(v, x.value), o)
  BY DEF TermDone
<1>0. /\ N \in Nat /\ i \in Nat \ {0} /\ j \in Nat /\ i <= j
      /\ \A n \in 1..N : run[n] = EvaluateToken(run[n - 1], text[n])
  BY DEF Evaluates
<1>1. CASE Outside(text, i, j, Operator) = {}
  <2>1. IF x = FormulaError THEN Failed(q, run[j]) ELSE run[j] = AddDouble(Machine(q, v, o), x.value)
    BY <1>1 DEF OperandDone
  <2>2. CASE x # FormulaError
    <3>1. x.value \in Number
      BY <2>2, AnswerIs
    <3> HIDE DEF x
    <3>2. AddDouble(Machine(q, v, o), x.value) = Machine(q, Append(v, x.value), o)
      BY AddValue
    <3> QED
      BY <2>1, <2>2, <3>2
  <2> QED
    BY <2>1, <2>2
<1>2. CASE Outside(text, i, j, Operator) # {}
  <2> DEFINE k == Outermost(text, i, j)
             s == span[<<i, k - 1>>]
             t == span[<<k + 1, j>>]
  <2>a. Split(q, text, span, i, j, k) /\ k = Outermost(text, i, j)
    BY <1>2, SplitIs
  <2>1. /\ k \in (i + 1)..(j - 1) /\ text[k] \in Operator /\ Depth(text, k) = Depth(text, i - 1)
        /\ k - 1 \in 1..N /\ k + 1 \in 1..N /\ (k + 1) - 1 = k /\ k \in 1..N
        /\ i <= k - 1 /\ (k - 1) - i < j - i /\ k + 1 <= j /\ j - (k + 1) < j - i
        /\ j \in 1..N /\ k - 1 \in 0..N /\ j \in (k - 1)..N
        /\ Right(text, i, k - 1) /\ Right(text, k + 1, j) /\ s \in Answer /\ t \in Answer
        /\ x = Both(q, text[k], s, t)
    <3> HIDE DEF k
    <3> QED
      BY <2>a DEF Split
  <2>2. text[k] \in Products /\ \A m \in Outside(text, i, j, Products) : m <= k
    <3>1. /\ k \in Outside(text, i, j, Operator)
          /\ IF text[k] \in Signs THEN \A m \in Outside(text, i, j, Signs) : m <= k
             ELSE \A m \in Outside(text, i, j, Products) : m <= k
      BY <1>0, <1>2, OutermostIs
    <3>2. text[k] \notin Signs
      BY <3>1 DEF Outside
    <3> QED
      BY <2>1, <3>1, <3>2, Kinds
  <2> HIDE DEF k
  <2>3. Outside(text, i, k - 1, Signs) = {}
    BY <1>0, <2>1 DEF Outside
  <2>4. Outside(text, k + 1, j, Operator) = {}
    <3> SUFFICES ASSUME NEW m \in Outside(text, k + 1, j, Operator) PROVE FALSE
      OBVIOUS
    <3>1. /\ m \in (k + 1)..j /\ text[m] \in Operator /\ Depth(text, m) = Depth(text, (k + 1) - 1)
          /\ text[m] \in Products \cup Signs
      <4>1. Operator = Products \cup Signs
        BY Kinds
      <4> QED
        BY <4>1 DEF Outside
    <3>2. m \in i..j /\ Depth(text, m) = Depth(text, i - 1) /\ ~(m <= k)
      <4>1. i \in Int /\ j \in Int /\ k \in Int /\ m \in Int
        BY <1>0, <2>1, <3>1
      <4>2. Depth(text, m) = Depth(text, i - 1)
        BY <2>1, <3>1
      <4> QED
        BY <2>1, <3>1, <4>1, <4>2
    <3>3. m \in Outside(text, i, j, Operator)
      BY <3>1, <3>2 DEF Outside
    <3>4. text[m] \in Products
      BY <1>0, <3>1, <3>2 DEF Outside
    <3>5. m \in Outside(text, i, j, Products)
      BY <3>2, <3>4 DEF Outside
    <3>6. m <= k
      BY <2>2, <3>5
    <3> QED
      BY <3>2, <3>6
  <2>5. TermDone(text, span, run, q, i, k - 1) /\ OperandDone(text, span, run, q, k + 1, j)
    BY <2>1 DEF ShorterDone, SpanDone
  <2>6. IF s = FormulaError THEN Failed(q, run[k - 1]) ELSE run[k - 1] = Machine(q, Append(v, s.value), o)
    BY <2>3, <2>5 DEF TermDone
  <2>7. CASE s = FormulaError
    <3>1. x = FormulaError
      BY <2>1, <2>7, BothAre
    <3>2. Failed(q, run[j])
      BY <2>1, <2>6, <2>7, FailureStays
    <3> QED
      BY <3>1, <3>2
  <2>8. CASE s # FormulaError
    <3>1. s.value \in Number
      BY <2>1, <2>8, BothAre
    <3> HIDE DEF s, x
    <3>2. Append(v, s.value) \in Seq(Number) /\ Append(o, text[k]) \in Seq(Opening)
      <4>1. text[k] \in Opening
        BY <2>1 DEF Opening
      <4> QED
        BY <3>1, <4>1, EndOfAppended
    <3>3. run[k] = Machine(q, Append(v, s.value), Append(o, text[k]))
      <4>1. run[k] = EvaluateToken(run[k - 1], text[k])
        BY <1>0, <2>1
      <4> QED
        BY <2>2, <2>6, <2>8, <4>1, RoundIs
    <3>4. IF t = FormulaError THEN Failed(q, run[j])
          ELSE run[j] = AddDouble(Machine(q, Append(v, s.value), Append(o, text[k])), t.value)
      BY <2>1, <2>4, <2>5, <3>2, <3>3 DEF OperandDone
    <3> HIDE DEF t
    <3>5. CASE t = FormulaError
      <4>1. x = FormulaError
        BY <2>1, <3>5, BothAre
      <4> QED
        BY <3>4, <3>5, <4>1
    <3>6. CASE t # FormulaError
      <4>1. t.value \in Number
        BY <2>1, <3>6, BothAre
      <4>2. IF t.value = Zero /\ text[k] = "/" THEN x = FormulaError
            ELSE x # FormulaError /\ x.value = Apply(q, text[k], s.value, t.value)
        BY <2>1, <2>8, <3>6, BothAre
      <4>3. IF t.value = Zero /\ text[k] = "/" THEN run[j].ends = <<Failure(q)>>
            ELSE run[j] = Machine(q, Append(v, Apply(q, text[k], s.value, t.value)), o)
        <5> DEFINE op == text[k]
                   a == s.value
                   b == t.value
                   m == Machine(q, Append(v, a), Append(o, op))
        <5>1. a \in Number /\ b \in Number /\ op \in Products
          BY <2>2, <3>1, <4>1
        <5>2. run[j] = AddDouble(m, b)
          BY <3>4, <3>6
        <5> HIDE DEF a, b, op
        <5>3. m = Machine(q, Append(v, a), Append(o, op))
          OBVIOUS
        <5> HIDE DEF m
        <5>4. IF b = Zero /\ op = "/" THEN AddDouble(m, b).ends = <<Failure(q)>>
              ELSE AddDouble(m, b) = Machine(q, Append(v, Apply(q, op, a, b)), o)
          BY <5>1, <5>3, AddFactor
        <5>5. IF b = Zero /\ op = "/" THEN run[j].ends = <<Failure(q)>>
              ELSE run[j] = Machine(q, Append(v, Apply(q, op, a, b)), o)
          BY <5>2, <5>4
        <5> QED
          BY <5>5 DEF a, b, op
      <4> QED
        BY <4>2, <4>3 DEF Failed
    <3> QED
      BY <3>5, <3>6 DEF x
  <2> QED
    BY <2>7, <2>8
<1> QED
  BY <1>1, <1>2

LEMMA SumStep ==
  ASSUME NEW text, NEW span, NEW run, NEW q, Evaluates(text, span, run, q),
         NEW i \in 1..Len(text), NEW j \in i..Len(text), Right(text, i, j),
         ShorterDone(text, span, run, q, i, j), TermDone(text, span, run, q, i, j)
  PROVE  SumDone(text, span, run, q, i, j)
<1> DEFINE N == Len(text)
           x == span[<<i, j>>]
<1> SUFFICES ASSUME NEW v \in Seq(Number), NEW o \in Seq(Opening),
                    run[i - 1] = Machine(q, v, o), ~IsOnTop(o, Operator)
             PROVE  IF x = FormulaError THEN Failed(q, run[j]) ELSE Summed(run[j], q, v, o, x.value)
  BY DEF SumDone
<1>0. /\ N \in Nat /\ i \in Nat \ {0} /\ j \in Nat /\ i <= j
      /\ \A n \in 1..N : run[n] = EvaluateToken(run[n - 1], text[n])
  BY DEF Evaluates
<1>1. ~IsOnTop(o, Signs) /\ ~IsOnTop(o, Products)
  BY Kinds DEF IsOnTop
<1>2. CASE Outside(text, i, j, Signs) = {}
  BY <1>1, <1>2 DEF TermDone, Summed
<1>3. CASE Outside(text, i, j, Signs) # {}
  <2> DEFINE k == Outermost(text, i, j)
             s == span[<<i, k - 1>>]
             t == span[<<k + 1, j>>]
  <2>0. Outside(text, i, j, Operator) # {}
    BY <1>3, Kinds DEF Outside
  <2>a. Split(q, text, span, i, j, k) /\ k = Outermost(text, i, j)
    BY <2>0, SplitIs
  <2>1. /\ k \in (i + 1)..(j - 1) /\ text[k] \in Operator /\ Depth(text, k) = Depth(text, i - 1)
        /\ k - 1 \in 1..N /\ k + 1 \in 1..N /\ (k + 1) - 1 = k /\ k \in 1..N
        /\ i <= k - 1 /\ (k - 1) - i < j - i /\ k + 1 <= j /\ j - (k + 1) < j - i
        /\ j \in 1..N /\ k - 1 \in 0..N /\ j \in (k - 1)..N
        /\ Right(text, i, k - 1) /\ Right(text, k + 1, j) /\ s \in Answer /\ t \in Answer
        /\ x = Both(q, text[k], s, t)
    <3> HIDE DEF k
    <3> QED
      BY <2>a DEF Split
  <2>2. text[k] \in Signs /\ \A m \in Outside(text, i, j, Signs) : m <= k
    BY <1>0, <1>3, <2>0, OutermostIs
  <2> HIDE DEF k
  <2>3. Outside(text, k + 1, j, Signs) = {}
    <3> SUFFICES ASSUME NEW m \in Outside(text, k + 1, j, Signs) PROVE FALSE
      OBVIOUS
    <3>1. m \in (k + 1)..j /\ m \in i..j /\ text[m] \in Signs /\ Depth(text, m) = Depth(text, i - 1)
      BY <1>0, <2>1 DEF Outside
    <3>2. m <= k
      BY <2>2, <3>1 DEF Outside
    <3> QED
      BY <2>1, <3>1, <3>2
  <2>4. SumDone(text, span, run, q, i, k - 1) /\ TermDone(text, span, run, q, k + 1, j)
    BY <2>1 DEF ShorterDone, SpanDone
  <2>5. IF s = FormulaError THEN Failed(q, run[k - 1]) ELSE Summed(run[k - 1], q, v, o, s.value)
    BY <2>4 DEF SumDone
  <2>6. CASE s = FormulaError
    <3>1. x = FormulaError
      BY <2>1, <2>6, BothAre
    <3>2. Failed(q, run[j])
      BY <2>1, <2>5, <2>6, FailureStays
    <3> QED
      BY <3>1, <3>2
  <2>7. CASE s # FormulaError
    <3>1. s.value \in Number
      BY <2>1, <2>7, BothAre
    <3> HIDE DEF s, x
    <3>2. /\ Append(v, s.value) \in Seq(Number) /\ Append(o, text[k]) \in Seq(Opening)
          /\ ~IsOnTop(Append(o, text[k]), Products)
      <4>1. text[k] \in Opening
        BY <2>1 DEF Opening
      <4>2. Append(o, text[k]) \in Seq(Opening) /\ Last(Append(o, text[k])) = text[k]
        BY <4>1, EndOfAppended
      <4>3. Append(v, s.value) \in Seq(Number)
        BY <3>1, EndOfAppended
      <4> QED
        BY <2>2, <4>2, <4>3, Kinds DEF IsOnTop
    <3>3. run[k] = Machine(q, Append(v, s.value), Append(o, text[k]))
      <4>1. run[k] = EvaluateToken(run[k - 1], text[k])
        BY <1>0, <2>1
      <4>2. AddOrSubtract(run[k - 1]) = Machine(q, Append(v, s.value), o) /\ run[k - 1].ends = <<>>
        BY <1>1, <2>5, <2>7, SummedIs
      <4>3. EvaluateToken(run[k - 1], text[k]) = PushOperator(AddOrSubtract(run[k - 1]), text[k])
        BY <2>2, <4>2, SignIs
      <4> QED
        BY <4>1, <4>2, <4>3, PushIs
    <3>4. IF t = FormulaError THEN Failed(q, run[j])
          ELSE run[j] = Machine(q, Append(Append(v, s.value), t.value), Append(o, text[k]))
      BY <2>1, <2>3, <2>4, <3>2, <3>3 DEF TermDone
    <3> HIDE DEF t
    <3>5. CASE t = FormulaError
      <4>1. x = FormulaError
        BY <2>1, <3>5, BothAre
      <4> QED
        BY <3>4, <3>5, <4>1
    <3>6. CASE t # FormulaError
      <4>1. t.value \in Number
        BY <2>1, <3>6, BothAre
      <4>2. x # FormulaError /\ x.value = Apply(q, text[k], s.value, t.value)
        <5>1. text[k] # "/"
          BY <2>2 DEF Signs
        <5> QED
          BY <2>1, <2>7, <3>6, <5>1, BothAre
      <4>3. Summed(run[j], q, v, o, x.value)
        BY <2>2, <3>1, <3>4, <3>6, <4>1, <4>2 DEF Summed
      <4> QED
        BY <4>2, <4>3
    <3> QED
      BY <3>5, <3>6 DEF x
  <2> QED
    BY <2>6, <2>7
<1> QED
  BY <1>2, <1>3

LEMMA SpansDone ==
  ASSUME NEW text, NEW span, NEW run, NEW q, Evaluates(text, span, run, q)
  PROVE  \A i \in 1..Len(text) : \A j \in 1..Len(text) :
           i <= j /\ Right(text, i, j) => SpanDone(text, span, run, q, i, j)
<1> DEFINE N == Len(text)
           Done(i, j) == i <= j /\ Right(text, i, j) => SpanDone(text, span, run, q, i, j)
           Below(n) == \A i \in 1..N : \A j \in 1..N : j - i < n => Done(i, j)
           S == {n \in Nat : Below(n)}
<1>0. N \in Nat
  BY DEF Evaluates
<1>1. 0 \in S
  <2>1. \A i \in 1..N : \A j \in 1..N : j - i < 0 => ~(i <= j)
    BY <1>0
  <2>2. Below(0)
    BY <2>1
  <2> QED
    BY <2>2
<1>2. ASSUME NEW n \in S PROVE n + 1 \in S
  <2>1. n \in Nat /\ Below(n)
    OBVIOUS
  <2>2. ASSUME NEW i \in 1..N, NEW j \in 1..N, j - i < n + 1, i <= j, Right(text, i, j)
        PROVE  SpanDone(text, span, run, q, i, j)
    <3>1. j \in i..Len(text)
      BY <1>0, <2>2
    <3>2. ASSUME NEW a \in 1..N, NEW b \in 1..N, a <= b, b - a < j - i, Right(text, a, b)
          PROVE  SpanDone(text, span, run, q, a, b)
      <4>1. b - a < n
        BY <1>0, <2>1, <2>2, <3>2
      <4> QED
        BY <2>1, <3>2, <4>1
    <3>3. ShorterDone(text, span, run, q, i, j)
      BY <3>2 DEF ShorterDone
    <3> HIDE DEF S
    <3>4. OperandDone(text, span, run, q, i, j)
      BY <2>2, <3>1, <3>3, OperandStep
    <3>5. TermDone(text, span, run, q, i, j)
      BY <2>2, <3>1, <3>3, <3>4, TermStep
    <3>6. SumDone(text, span, run, q, i, j)
      BY <2>2, <3>1, <3>3, <3>5, SumStep
    <3> QED
      BY <3>4, <3>5, <3>6 DEF SpanDone
  <2>3. Below(n + 1)
    BY <2>2
  <2>4. n + 1 \in Nat
    BY <2>1
  <2> HIDE DEF Below
  <2> QED
    BY <2>3, <2>4
<1>3. S = Nat
  <2> HIDE DEF Below
  <2>1. S \in SUBSET Nat
    OBVIOUS
  <2> HIDE DEF S
  <2> QED
    BY <1>1, <1>2, <2>1, NatSet
<1>4. N \in S
  <2> HIDE DEF S
  <2> QED
    BY <1>0, <1>3
<1>5. \A i \in 1..N : \A j \in 1..N : Done(i, j)
  <2> SUFFICES ASSUME NEW i \in 1..N, NEW j \in 1..N PROVE Done(i, j)
    OBVIOUS
  <2>1. j - i < N
    BY <1>0
  <2> HIDE DEF Done
  <2> QED
    BY <1>4, <2>1
<1> QED
  BY <1>5

\* A sum that is still to be taken, and what the end of the loop finds of it.
Waits(m, q, v, o, a, b, op) == m = Machine(q, Append(Append(v, a), b), Append(o, op))

Taken(m, q, v, o, x) ==
  /\ m.ends = <<>> /\ m.ops # <<>> /\ Len(m.ops) = Len(o) + 1 /\ Len(m.values) = Len(v) + 2
  /\ IsOnTop(m.ops, Signs) /\ ~IsOnTop(m.ops, Products \cup {"("})
  /\ Combine(m) = Machine(q, Append(v, x), o)

LEMMA LastSum ==
  ASSUME NEW q, NEW v \in Seq(Number), NEW o \in Seq(Opening), NEW a \in Number, NEW b \in Number,
         NEW op \in Signs, NEW m, Waits(m, q, v, o, a, b, op)
  PROVE  Taken(m, q, v, o, Apply(q, op, a, b))
<1> DEFINE u == Append(v, a)
           w == Append(u, b)
           p == Append(o, op)
<1>1. op \in Opening
  BY Kinds DEF Opening
<1>2. p # <<>> /\ Last(p) = op /\ Len(p) = Len(o) + 1
  BY <1>1, EndOfAppended
<1>3. u \in Seq(Number) /\ Len(u) = Len(v) + 1 /\ Len(v) \in Nat
  BY EndOfAppended
<1> HIDE DEF u
<1>4. Len(w) = Len(u) + 1
  BY <1>3, EndOfAppended
<1>5. m = Machine(q, w, p)
  BY DEF Waits, u
<1>6. Combine(m) = Machine(q, Append(v, Apply(q, op, a, b)), o)
  BY <1>1, <1>5, CombineIs DEF u
<1> HIDE DEF w, p
<1>7. m.ends = <<>> /\ m.ops = p /\ m.values = w
  BY <1>5 DEF Machine
<1>8. IsOnTop(m.ops, Signs) /\ ~IsOnTop(m.ops, Products \cup {"("})
  BY <1>2, <1>7, Kinds DEF IsOnTop
<1> QED
  BY <1>2, <1>3, <1>4, <1>6, <1>7, <1>8 DEF Taken

\* What the end of the loop leaves is returned.
LEMMA EndIs ==
  ASSUME NEW q, NEW m, NEW x \in Number, NEW v \in Seq(Number), NEW o \in Seq(Opening),
         Len(v) = 0, Len(o) = 0, Summed(m, q, v, o, x)
  PROVE  EvaluateEnd(m) = Value(x)
<1> DEFINE y == Append(v, x)
<1>1. y # <<>> /\ Last(y) = x
  BY EndOfAppended
<1>2. o = <<>>
  BY EmptySeq
<1>3. CASE m = Machine(q, y, o)
  <2>1. m.ends = <<>> /\ m.ops = <<>> /\ m.values = y
    BY <1>2, <1>3 DEF Machine
  <2>2. ~IsOnTop(m.ops, Products \cup {"("})
    BY <2>1 DEF IsOnTop
  <2> HIDE DEF y
  <2> QED
    BY <1>1, <2>1, <2>2 DEF EvaluateEnd
<1>4. CASE \E a, b \in Number : \E op \in Signs :
             m = Machine(q, Append(Append(v, a), b), Append(o, op)) /\ x = Apply(q, op, a, b)
  <2>1. PICK a \in Number, b \in Number, op \in Signs : Waits(m, q, v, o, a, b, op) /\ x = Apply(q, op, a, b)
    BY <1>4 DEF Waits
  <2> HIDE DEF y
  <2>2. Taken(m, q, v, o, x)
    BY <2>1, LastSum
  <2>3. Combine(m).ends = <<>> /\ Combine(m).values = y
    BY <2>2 DEF Taken, Machine, y
  <2>4. /\ m.ends = <<>> /\ m.ops # <<>> /\ Len(m.ops) = 1 /\ Len(m.values) = 2
        /\ IsOnTop(m.ops, Signs) /\ ~IsOnTop(m.ops, Products \cup {"("})
    BY <2>2 DEF Taken
  <2> QED
    BY <1>1, <2>3, <2>4 DEF EvaluateEnd
<1> QED
  BY <1>3, <1>4 DEF Summed

\* Both libraries return the meaning of an expression of plain tokens.
LEMMA EvaluatedIs ==
  ASSUME NEW text \in Seq(Token), NEW q \in BOOLEAN, Meaning(q, text) # NoExpression, Plain(text, q)
  PROVE  /\ Meaning(q, text) \in Answer
         /\ Evaluated(text, q) = IF Meaning(q, text) = FormulaError THEN Failure(q) ELSE Meaning(q, text)
<1> DEFINE N == Len(text)
           x == Meaning(q, text)
<1>0. text # <<>> /\ Right(text, 1, N) /\ x \in Answer
  BY MeaningIs
<1>1. N \in Nat /\ 1 \in 1..N /\ N \in 1..N /\ 1 <= N
  BY <1>0, LenProperties, EmptySeq
<1>2. PICK span : Spans(q, text, span) /\ x = span[<<1, Len(text)>>]
  BY <1>0, SpansOf
<1>3. PICK run : /\ Evaluated(text, q) = EvaluateEnd(run[Len(text)])
                 /\ run[0] = Start(q)
                 /\ \A i \in 1..Len(text) : run[i] = EvaluateToken(run[i - 1], text[i])
  BY RunOf
<1> HIDE DEF x
<1>4. Evaluates(text, span, run, q)
  BY <1>1, <1>2, <1>3 DEF Evaluates
<1>5. SumDone(text, span, run, q, 1, N)
  BY <1>0, <1>1, <1>4, SpansDone DEF SpanDone
<1>6. run[1 - 1] = Machine(q, <<>>, <<>>) /\ ~IsOnTop(<<>>, Operator)
  BY <1>3 DEF Start, Machine, IsOnTop
<1>7. IF x = FormulaError THEN Failed(q, run[N]) ELSE Summed(run[N], q, <<>>, <<>>, x.value)
  <2>1. <<>> \in Seq(Number) /\ <<>> \in Seq(Opening)
    OBVIOUS
  <2> QED
    BY <1>2, <1>5, <1>6, <2>1 DEF SumDone
<1>8. CASE x = FormulaError
  <2>1. run[N].ends = <<Failure(q)>>
    BY <1>7, <1>8 DEF Failed
  <2>2. run[N].ends # <<>> /\ run[N].ends[1] = Failure(q)
    BY <2>1
  <2>3. EvaluateEnd(run[N]) = Failure(q)
    BY <2>2 DEF EvaluateEnd
  <2> QED
    BY <1>0, <1>3, <1>8, <2>3 DEF x
<1>9. CASE x # FormulaError
  <2>1. x.value \in Number /\ x = Value(x.value)
    BY <1>0, <1>9, BothAre, Kinds
  <2>2. EvaluateEnd(run[N]) = Value(x.value)
    <3>1. <<>> \in Seq(Number) /\ <<>> \in Seq(Opening) /\ Len(<<>>) = 0
      OBVIOUS
    <3> QED
      BY <1>7, <1>9, <2>1, <3>1, EndIs
  <2> QED
    BY <1>0, <1>3, <1>9, <2>1, <2>2 DEF x
<1> QED
  BY <1>8, <1>9

\* A formula that was evaluated has a meaning.
LEMMA Returned ==
  ASSUME Reads, status = "evaluated"
  PROVE  /\ tokens \in Seq(Token) /\ Legal(tokens) /\ ~Expects(tokens) /\ tokens # <<>>
         /\ Depth(tokens, Len(tokens)) = 0
         /\ \A q \in BOOLEAN : Meaning(q, tokens) # NoExpression
         /\ result[1] = Evaluated(tokens, Lenient)
         /\ ToSet(varList) = NormalNames(tokens)
<1>1. /\ tokens \in Seq(Token) /\ Known /\ ~ExpectsOperand /\ leftParen = rightParen
      /\ result = <<Evaluate(tokens)>>
  BY DEF Reads
<1>2. Legal(tokens) /\ ~Expects(tokens) /\ Count(tokens, "(") = Count(tokens, ")")
  BY <1>1 DEF Known, Expects, ExpectsOperand, Asks
<1>3. Count(tokens, "(") \in Nat /\ Depth(tokens, Len(tokens)) = Count(tokens, "(") - Count(tokens, ")")
  BY <1>1, CountIs, DepthOfAll
<1>4. \A q \in BOOLEAN : Meaning(q, tokens) # NoExpression
  BY <1>1, <1>2, WholeIs
<1>5. result[1] = Evaluated(tokens, Lenient)
  BY <1>1 DEF Evaluate
<1> QED
  BY <1>1, <1>2, <1>3, <1>4, <1>5 DEF Known, Expects

LEMMA PlainIs ==
  ASSUME Reads, status = "evaluated", Misnamed = {}, NEW q
  PROVE  Plain(tokens, q)
<1>1. DOMAIN tokens = 1..Len(tokens) /\ ToSet(tokens) \cap Name \subseteq CellName
  BY Returned, NamesAreCells, LenProperties
<1>2. \A n \in 1..Len(tokens) : tokens[n] \in Name => tokens[n] \in CellName
  BY <1>1 DEF ToSet
<1> QED
  BY <1>2 DEF Plain

-----------------------------------------------------------------------------
(* The names the loop passes over: in a sum with one the stack of values   *)
(* falls behind that of the operators.                                     *)

Sums == Signs \cup {"("}

\* A sign stands at the bottom or on a parenthesis.
Paired(ops) == \A n \in 2..Len(ops) : ops[n] \in Signs => ops[n - 1] = "("

\* d parentheses are open, and at most e more values than signs are there.
Behind(v, o, d, e) ==
  /\ v \in Seq(Number) /\ o \in Seq(Sums) /\ Paired(o)
  /\ Count(o, "(") = d /\ Len(v) + d <= Len(o) + e

Failing(m) == m.ends \in {<<FormulaError>>, <<StackEmpty>>}

Lags(m, d, e) ==
  Failing(m) \/ \E v \in Seq(Number) : \E o \in Seq(Sums) : m = Machine(Lenient, v, o) /\ Behind(v, o, d, e)

LEMMA StackIs ==
  ASSUME NEW S, NEW s \in Seq(S), s # <<>>
  PROVE  \E f \in Seq(S) : \E x \in S : s = Append(f, x) /\ Len(s) = Len(f) + 1 /\ Len(f) \in Nat
<1> DEFINE N == Len(s)
           f == [i \in 1..(N - 1) |-> s[i]]
           x == s[N]
           a == Append(f, x)
<1>1. N \in Nat \ {0} /\ \A i \in 1..N : s[i] \in S
  BY EmptySeq, ElementOfSeq, LenProperties
<1>2. N - 1 \in Nat /\ x \in S
  BY <1>1
<1>3. f \in Seq(S) /\ Len(f) = N - 1 /\ \A i \in 1..(N - 1) : f[i] = s[i]
  <2>1. \A i \in 1..(N - 1) : s[i] \in S
    BY <1>1
  <2> HIDE DEF N
  <2> QED
    BY <1>2, <2>1, IsASeq
<1> HIDE DEF f, x
<1>4. a \in Seq(S) /\ Len(a) = Len(f) + 1 /\ (\A i \in 1..Len(f) : a[i] = f[i]) /\ a[Len(f) + 1] = x
  BY <1>2, <1>3, AppendProperties
<1> HIDE DEF a
<1>5. Len(a) = N /\ \A i \in 1..N : a[i] = s[i]
  <2>1. Len(a) = N
    BY <1>1, <1>3, <1>4
  <2>2. a[N] = s[N]
    BY <1>1, <1>3, <1>4 DEF x
  <2>3. \A i \in 1..N : i # N => i \in 1..(N - 1)
    BY <1>1
  <2> QED
    BY <1>3, <1>4, <2>1, <2>2, <2>3
<1>6. a = s
  BY <1>4, <1>5, SeqEqual
<1> QED
  BY <1>1, <1>2, <1>3, <1>6 DEF a

\* A stack with one more operator.
LEMMA Stacked ==
  ASSUME NEW o \in Seq(Sums), NEW t \in Sums
  PROVE  /\ Append(o, t) \in Seq(Sums) /\ Append(o, t) # <<>> /\ Len(Append(o, t)) = Len(o) + 1
         /\ Len(o) \in Nat /\ Last(Append(o, t)) = t
         /\ Count(o, "(") \in Nat
         /\ Count(Append(o, t), "(") = Count(o, "(") + (IF t = "(" THEN 1 ELSE 0)
         /\ Paired(Append(o, t)) <=> Paired(o) /\ (t \in Signs => ~IsOnTop(o, Signs))
<1> DEFINE p == Append(o, t)
           N == Len(o)
<1>1. Sums \subseteq Token
  BY Kinds DEF Sums, Token
<1>2. o \in Seq(Token) /\ t \in Token
  <2>1. N \in Nat /\ o \in [1..N -> Sums]
    BY LenProperties
  <2>2. o = [n \in 1..N |-> o[n]] /\ \A n \in 1..N : o[n] \in Token
    BY <1>1, <2>1
  <2>3. [n \in 1..N |-> o[n]] \in Seq(Token)
    <3> HIDE DEF N
    <3> QED
      BY <2>1, <2>2, IsASeq
  <2> QED
    BY <1>1, <2>2, <2>3
<1>3. /\ p \in Seq(Sums) /\ p # <<>> /\ Len(p) = N + 1 /\ N \in Nat /\ Last(p) = t
      /\ \A n \in 1..N : p[n] = o[n]
  BY AppendProperties, EndOfAppended
<1>4. p[N + 1] = t
  BY <1>3 DEF Last
<1>5. Count(o, "(") \in Nat /\ Count(p, "(") = Count(o, "(") + (IF t = "(" THEN 1 ELSE 0)
  BY <1>2, CountIs, CountOfAppended
<1>6. o # <<>> => N > 0 /\ Last(o) = o[N] /\ o[N] \in Sums
  BY <1>3, EmptySeq, ElementOfSeq DEF Last
<1>7. o = <<>> => N = 0
  BY EmptySeq
<1> HIDE DEF p, N
<1>8. ASSUME Paired(p) PROVE Paired(o) /\ (t \in Signs => ~IsOnTop(o, Signs))
  <2>1. \A n \in 2..N : o[n] \in Signs => o[n - 1] = "("
    <3> SUFFICES ASSUME NEW n \in 2..N, o[n] \in Signs PROVE o[n - 1] = "("
      OBVIOUS
    <3>1. n \in 2..Len(p) /\ n \in 1..N /\ n - 1 \in 1..N
      BY <1>3
    <3> QED
      BY <1>3, <1>8, <3>1 DEF Paired
  <2>2. ASSUME t \in Signs, o # <<>> PROVE Last(o) \notin Signs
    <3>1. N + 1 \in 2..Len(p) /\ (N + 1) - 1 = N /\ N \in 1..N
      BY <1>3, <1>6, <2>2
    <3>2. p[N] = "("
      BY <1>4, <1>8, <2>2, <3>1 DEF Paired
    <3>3. o[N] = "("
      BY <1>3, <3>1, <3>2
    <3> QED
      BY <1>6, <2>2, <3>3, Kinds
  <2> QED
    BY <2>1, <2>2 DEF Paired, IsOnTop, N
<1>9. ASSUME Paired(o), t \in Signs => ~IsOnTop(o, Signs) PROVE Paired(p)
  <2> SUFFICES ASSUME NEW n \in 2..(N + 1), p[n] \in Signs PROVE p[n - 1] = "("
    BY <1>3 DEF Paired
  <2>1. CASE n = N + 1
    <3>1. n - 1 = N /\ N \in 1..N /\ N > 0
      BY <1>3, <2>1
    <3>2. o # <<>>
      BY <1>7, <3>1
    <3>3. o[N] \notin Signs
      BY <1>4, <1>6, <1>9, <2>1, <3>2 DEF IsOnTop
    <3>4. o[N] = "("
      BY <1>6, <3>2, <3>3 DEF Sums
    <3> QED
      BY <1>3, <3>1, <3>4
  <2>2. CASE n # N + 1
    <3>1. n \in 2..N /\ n \in 1..N /\ n - 1 \in 1..N
      BY <1>3, <2>2
    <3> QED
      BY <1>3, <1>9, <3>1 DEF Paired, N
  <2> QED
    BY <2>1, <2>2
<1> QED
  BY <1>3, <1>5, <1>8, <1>9 DEF p, N

LEMMA NoProducts ==
  ASSUME NEW o \in Seq(Sums)
  PROVE  /\ ~IsOnTop(o, Products) /\ o \in Seq(Opening)
         /\ o # <<>> => Last(o) \in Sums
<1>1. o # <<>> => Last(o) \in Sums
  BY EmptySeq, ElementOfSeq DEF Last
<1>2. Sums \cap Products = {} /\ Sums \subseteq Opening
  BY Kinds DEF Sums, Opening
<1>3. o \in Seq(Opening)
  <2> DEFINE N == Len(o)
  <2>1. N \in Nat /\ o \in [1..N -> Sums]
    BY LenProperties
  <2>2. o = [n \in 1..N |-> o[n]] /\ \A n \in 1..N : o[n] \in Opening
    BY <1>2, <2>1
  <2>3. [n \in 1..N |-> o[n]] \in Seq(Opening)
    <3> HIDE DEF N
    <3> QED
      BY <2>1, <2>2, IsASeq
  <2> QED
    BY <2>2, <2>3
<1> QED
  BY <1>1, <1>2, <1>3 DEF IsOnTop

\* After the sum in front of it was taken, no sign is on top.
Ready(m, d, e) ==
  \E v \in Seq(Number) : \E o \in Seq(Sums) :
    m = Machine(Lenient, v, o) /\ Behind(v, o, d, e) /\ ~IsOnTop(o, Signs)

LEMMA SumTaken ==
  ASSUME NEW v \in Seq(Number), NEW o \in Seq(Sums), NEW d \in Int, NEW e \in Int, Behind(v, o, d, e)
  PROVE  \/ AddOrSubtract(Machine(Lenient, v, o)).ends = <<StackEmpty>>
         \/ Ready(AddOrSubtract(Machine(Lenient, v, o)), d, e)
<1> DEFINE m == Machine(Lenient, v, o)
<1>0. m.ends = <<>> /\ m.ops = o /\ m.values = v
  BY DEF Machine
<1>1. CASE ~IsOnTop(o, Signs)
  <2>1. AddOrSubtract(m) = m
    BY <1>0, <1>1 DEF AddOrSubtract
  <2> HIDE DEF m
  <2>2. Ready(m, d, e)
    BY <1>1 DEF Ready, m
  <2> QED
    BY <2>1, <2>2 DEF m
<1>2. CASE IsOnTop(o, Signs) /\ Len(v) < 2
  <2>1. AddOrSubtract(m) = Fail(m, StackEmpty)
    BY <1>0, <1>2 DEF AddOrSubtract, Combine
  <2>2. Fail(m, StackEmpty).ends = <<StackEmpty>>
    BY DEF Fail, Machine, Lenient
  <2> QED
    BY <2>1, <2>2
<1>3. CASE IsOnTop(o, Signs) /\ ~(Len(v) < 2)
  <2>0. o # <<>> /\ v # <<>> /\ Len(v) \in Nat
    BY <1>3, EmptySeq, LenProperties DEF IsOnTop
  <2>1. PICK p \in Seq(Sums), t \in Sums : o = Append(p, t)
    BY <2>0, StackIs
  <2>2. PICK w \in Seq(Number), y \in Number : v = Append(w, y) /\ Len(v) = Len(w) + 1 /\ Len(w) \in Nat
    BY <2>0, StackIs
  <2>3. w # <<>>
    <3>1. Len(w) # 0
      BY <1>3, <2>0, <2>2
    <3> QED
      BY <3>1, EmptySeq
  <2>4. PICK u \in Seq(Number), x \in Number : w = Append(u, x) /\ Len(w) = Len(u) + 1 /\ Len(u) \in Nat
    BY <2>3, StackIs
  <2>5. /\ Len(o) = Len(p) + 1 /\ Len(p) \in Nat /\ t \in Signs /\ Paired(p) /\ ~IsOnTop(p, Signs)
        /\ Count(o, "(") = Count(p, "(")
    <3>1. t \in Signs
      <4>1. Last(o) = t
        BY <2>1, Stacked
      <4> QED
        BY <1>3, <4>1 DEF IsOnTop
    <3>2. Paired(o)
      BY DEF Behind
    <3>3. t # "("
      BY <3>1, Kinds
    <3> QED
      BY <2>1, <3>1, <3>2, <3>3, Stacked
  <2> DEFINE z == Apply(Lenient, t, x, y)
             r == Append(u, z)
  <2>6. z \in Number
    BY <2>2, <2>4, <2>5, NumberAssumption, Kinds, Libraries DEF Apply, Signs
  <2> HIDE DEF z
  <2>7. r \in Seq(Number) /\ Len(r) = Len(u) + 1
    BY <2>4, <2>6, EndOfAppended
  <2>8. Combine(m) = Machine(Lenient, r, p)
    <3>1. m = Machine(Lenient, Append(Append(u, x), y), Append(p, t))
      BY <2>1, <2>2, <2>4
    <3>2. p \in Seq(Opening) /\ t \in Opening
      BY <2>1, NoProducts, Kinds DEF Sums, Opening
    <3>3. Combine(Machine(Lenient, Append(Append(u, x), y), Append(p, t))) = Machine(Lenient, Append(u, Apply(Lenient, t, x, y)), p)
      BY <2>2, <2>4, <3>2, CombineIs
    <3> HIDE DEF m
    <3> QED
      BY <3>1, <3>3 DEF z, r
  <2>9. AddOrSubtract(m) = Combine(m)
    BY <1>0, <1>3 DEF AddOrSubtract
  <2>10. Behind(r, p, d, e)
    <3> HIDE DEF r
    <3>1. Len(v) + d <= Len(o) + e /\ Count(o, "(") = d
      BY DEF Behind
    <3>2. Len(r) + d <= Len(p) + e
      BY <2>2, <2>4, <2>5, <2>7, <3>1
    <3> QED
      BY <2>1, <2>5, <2>7, <3>1, <3>2 DEF Behind
  <2> HIDE DEF r, m
  <2>11. Ready(AddOrSubtract(m), d, e)
    BY <2>1, <2>5, <2>7, <2>8, <2>9, <2>10 DEF Ready
  <2> QED
    BY <2>11 DEF m
<1> QED
  BY <1>1, <1>2, <1>3

LEMMA FailingStays ==
  ASSUME NEW m, Failing(m), NEW t, NEW d, NEW e
  PROVE  Lags(EvaluateToken(m, t), d, e)
<1>1. m.ends # <<>>
  BY DEF Failing
<1>2. EvaluateToken(m, t) = m
  BY <1>1 DEF EvaluateToken
<1> QED
  BY <1>2 DEF Lags

\* An operand, its name misnamed or not.
LEMMA LagsOperand ==
  ASSUME NEW m, NEW d \in Int, NEW e \in Int, Lags(m, d, e), NEW t \in Numeral \cup Name
  PROVE  /\ t \notin Name \ CellName => Lags(EvaluateToken(m, t), d, e + 1)
         /\ t \in Name \ CellName => Lags(EvaluateToken(m, t), d, e)
<1>1. CASE Failing(m)
  BY <1>1, FailingStays
<1>2. CASE ~Failing(m)
  <2>1. PICK v \in Seq(Number), o \in Seq(Sums) : m = Machine(Lenient, v, o) /\ Behind(v, o, d, e)
    BY <1>2 DEF Lags
  <2>2. m.ends = <<>> /\ m.strict = Lenient /\ ~Lenient
    BY <2>1 DEF Machine, Lenient
  <2>3. ~IsOnTop(o, Products) /\ t \notin Operator \cup {"(", ")"}
    BY NoProducts, TokenAssumption
  <2>4. CASE t \in Numbered(Lenient)
    <3>1. EvaluateToken(m, t) = AddDouble(m, Worth(Lenient, t))
      BY <2>2, <2>4 DEF EvaluateToken
    <3>2. Worth(Lenient, t) \in Number /\ t \notin Name \ CellName
      BY <2>4, Numbers, Libraries, TokenAssumption
    <3>3. EvaluateToken(m, t) = Machine(Lenient, Append(v, Worth(Lenient, t)), o)
      <4>1. \A y : AddDouble(Machine(Lenient, v, o), y) = Machine(Lenient, Append(v, y), o)
        BY <2>3, AddValue
      <4> QED
        BY <2>1, <3>1, <4>1
    <3>4. Append(v, Worth(Lenient, t)) \in Seq(Number) /\ Len(Append(v, Worth(Lenient, t))) = Len(v) + 1 /\ Len(v) \in Nat
      BY <3>2, EndOfAppended
    <3>5. Len(o) \in Nat
      BY LenProperties
    <3> DEFINE w == Append(v, Worth(Lenient, t))
    <3> HIDE DEF w
    <3>6. Behind(w, o, d, e + 1)
      <4>1. Len(v) + d <= Len(o) + e
        BY <2>1 DEF Behind
      <4>2. Len(w) + d <= Len(o) + (e + 1)
        BY <3>4, <3>5, <4>1 DEF w
      <4> QED
        BY <2>1, <3>4, <4>2 DEF Behind, w
    <3>7. Lags(EvaluateToken(m, t), d, e + 1)
      BY <3>3, <3>4, <3>6 DEF Lags, w
    <3> QED
      BY <3>2, <3>7
  <2>5. CASE t \notin Numbered(Lenient) /\ t \in CellName
    <3>1. EvaluateToken(m, t) = Fail(m, FormulaError)
      BY <2>2, <2>5 DEF EvaluateToken
    <3>2. Fail(m, FormulaError).ends = <<FormulaError>>
      BY <2>1, FailIs DEF Failure, Lenient
    <3> QED
      BY <2>5, <3>1, <3>2 DEF Lags, Failing
  <2>6. CASE t \notin Numbered(Lenient) /\ t \notin CellName
    <3>1. EvaluateToken(m, t) = m
      BY <2>2, <2>3, <2>6, Kinds DEF EvaluateToken
    <3>2. Numeral \subseteq Numbered(Lenient)
      BY Numbers, Libraries
    <3>3. t \in Name \ CellName
      BY <2>6, <3>2
    <3>4. Lags(EvaluateToken(m, t), d, e)
      BY <3>1
    <3> QED
      BY <3>3, <3>4
  <2> QED
    BY <2>4, <2>5, <2>6
<1> QED
  BY <1>1, <1>2

LEMMA LagsSign ==
  ASSUME NEW m, NEW d \in Int, NEW e \in Int, Lags(m, d, e), NEW t \in Signs
  PROVE  Lags(EvaluateToken(m, t), d, e - 1)
<1>1. CASE Failing(m)
  BY <1>1, FailingStays
<1>2. CASE ~Failing(m)
  <2>1. PICK v \in Seq(Number), o \in Seq(Sums) : m = Machine(Lenient, v, o) /\ Behind(v, o, d, e)
    BY <1>2 DEF Lags
  <2>2. m.ends = <<>>
    BY <2>1 DEF Machine
  <2>3. EvaluateToken(m, t) = PushOperator(AddOrSubtract(m), t)
    BY <2>2, SignIs
  <2>4. CASE AddOrSubtract(m).ends = <<StackEmpty>>
    <3>1. AddOrSubtract(m).ends # <<>>
      BY <2>4
    <3>2. PushOperator(AddOrSubtract(m), t) = AddOrSubtract(m)
      BY <3>1 DEF PushOperator
    <3> QED
      BY <2>3, <2>4, <3>2 DEF Lags, Failing
  <2>5. CASE Ready(AddOrSubtract(m), d, e)
    <3>1. PICK w \in Seq(Number), p \in Seq(Sums) :
             AddOrSubtract(m) = Machine(Lenient, w, p) /\ Behind(w, p, d, e) /\ ~IsOnTop(p, Signs)
      BY <2>5 DEF Ready
    <3> DEFINE r == Append(p, t)
    <3>2. EvaluateToken(m, t) = Machine(Lenient, w, r)
      <4>1. PushOperator(Machine(Lenient, w, p), t) = Machine(Lenient, w, Append(p, t))
        BY PushIs
      <4> QED
        BY <2>3, <3>1, <4>1 DEF r
    <3>3. t \in Sums /\ t # "("
      BY Kinds DEF Sums
    <3>4. Paired(p) /\ Count(p, "(") = d /\ Len(w) + d <= Len(p) + e
      BY <3>1 DEF Behind
    <3>5. r \in Seq(Sums) /\ Paired(r) /\ Count(r, "(") = d /\ Len(r) = Len(p) + 1 /\ Len(p) \in Nat
      BY <3>1, <3>3, <3>4, Stacked
    <3> HIDE DEF r
    <3>6. Len(w) \in Nat
      BY LenProperties
    <3>7. Len(w) + d <= Len(r) + (e - 1)
      BY <3>4, <3>5, <3>6
    <3>8. Behind(w, r, d, e - 1)
      BY <3>5, <3>7 DEF Behind
    <3> QED
      BY <3>2, <3>5, <3>8 DEF Lags
  <2> QED
    BY <2>1, <2>4, <2>5, SumTaken
<1> QED
  BY <1>1, <1>2

LEMMA LagsOpened ==
  ASSUME NEW m, NEW d \in Int, NEW e \in Int, Lags(m, d, e)
  PROVE  Lags(EvaluateToken(m, "("), d + 1, e)
<1>1. CASE Failing(m)
  BY <1>1, FailingStays
<1>2. CASE ~Failing(m)
  <2>1. PICK v \in Seq(Number), o \in Seq(Sums) : m = Machine(Lenient, v, o) /\ Behind(v, o, d, e)
    BY <1>2 DEF Lags
  <2> DEFINE r == Append(o, "(")
  <2>2. EvaluateToken(m, "(") = Machine(Lenient, v, r)
    <3>1. EvaluateToken(Machine(Lenient, v, o), "(") = Machine(Lenient, v, Append(o, "("))
      BY RoundIs
    <3> QED
      BY <2>1, <3>1 DEF r
  <2>3. Paired(o) /\ Count(o, "(") = d /\ Len(v) + d <= Len(o) + e /\ Len(v) \in Nat
    BY <2>1, LenProperties DEF Behind
  <2>4. "(" \in Sums /\ "(" \notin Signs
    BY Kinds DEF Sums
  <2>5. r \in Seq(Sums) /\ Paired(r) /\ Count(r, "(") = d + 1 /\ Len(r) = Len(o) + 1 /\ Len(o) \in Nat
    BY <2>3, <2>4, Stacked
  <2> HIDE DEF r
  <2>6. Len(v) + (d + 1) <= Len(r) + e
    BY <2>3, <2>5
  <2>7. Behind(v, r, d + 1, e)
    BY <2>5, <2>6 DEF Behind
  <2> QED
    BY <2>2, <2>5, <2>7 DEF Lags
<1> QED
  BY <1>1, <1>2

LEMMA ValuesAre ==
  ASSUME NEW q, NEW v, NEW o, NEW u
  PROVE  [Machine(q, v, o) EXCEPT !.values = u] = Machine(q, u, o)
BY DEF Machine

LEMMA LagsClosed ==
  ASSUME NEW m, NEW d \in Int, NEW e \in Int, Lags(m, d, e), d > 0
  PROVE  Lags(EvaluateToken(m, ")"), d - 1, e)
<1>1. CASE Failing(m)
  BY <1>1, FailingStays
<1>2. CASE ~Failing(m)
  <2>1. PICK v \in Seq(Number), o \in Seq(Sums) : m = Machine(Lenient, v, o) /\ Behind(v, o, d, e)
    BY <1>2 DEF Lags
  <2>2. m.ends = <<>>
    BY <2>1 DEF Machine
  <2> DEFINE n == AddOrSubtract(m)
  <2>3. EvaluateToken(m, ")") = RightParenthesis(m)
    BY <2>2, ParenthesisIs
  <2>4. CASE n.ends = <<StackEmpty>>
    <3>1. n.ends # <<>>
      BY <2>4
    <3>2. RightParenthesis(m) = n
      BY <3>1 DEF RightParenthesis
    <3> QED
      BY <2>3, <2>4, <3>2 DEF Lags, Failing
  <2>5. CASE Ready(n, d, e)
    <3> HIDE DEF n
    <3>1. PICK w \in Seq(Number), o1 \in Seq(Sums) :
             n = Machine(Lenient, w, o1) /\ Behind(w, o1, d, e) /\ ~IsOnTop(o1, Signs)
      BY <2>5 DEF Ready
    <3>2. Paired(o1) /\ Count(o1, "(") = d /\ Len(w) + d <= Len(o1) + e /\ Len(w) \in Nat
      BY <3>1, LenProperties DEF Behind
    <3>3. o1 # <<>>
      <4>1. \A S : Count(<<>>, S) = 0
        BY FS_EmptySet DEF Count
      <4> QED
        BY <3>2, <4>1
    <3>4. PICK p \in Seq(Sums), t \in Sums : o1 = Append(p, t)
      BY <3>3, StackIs
    <3>5. t = "(" /\ IsOnTop(o1, {"("}) /\ Front(o1) = p
      <4>1. Last(o1) = t /\ Front(o1) = p
        BY <3>4, EndOfAppended
      <4>2. t \notin Signs
        BY <3>1, <3>3, <4>1 DEF IsOnTop
      <4> QED
        BY <3>3, <3>4, <4>1, <4>2 DEF IsOnTop, Sums
    <3>6. Paired(p) /\ Count(p, "(") = d - 1 /\ Len(o1) = Len(p) + 1 /\ Len(p) \in Nat
      <4>1. Count(p, "(") \in Nat
        BY <3>4, Stacked
      <4>2. /\ Count(o1, "(") = Count(p, "(") + 1 /\ Len(o1) = Len(p) + 1 /\ Len(p) \in Nat
            /\ Paired(p)
        BY <3>2, <3>4, <3>5, Stacked
      <4> QED
        BY <3>2, <4>1, <4>2
    <3> DEFINE opened == [n EXCEPT !.ops = Front(@)]
    <3>7. opened = Machine(Lenient, w, p) /\ n.ends = <<>> /\ n.values = w /\ n.ops = o1 /\ ~n.strict
      <4>1. n.ends = <<>> /\ n.values = w /\ n.ops = o1 /\ ~n.strict
        BY <3>1 DEF Machine, Lenient
      <4>2. [Machine(Lenient, w, o1) EXCEPT !.ops = p] = Machine(Lenient, w, p)
        BY DEF Machine
      <4> QED
        BY <3>1, <3>5, <4>1, <4>2
    <3> HIDE DEF opened
    <3>8. RightParenthesis(m) = IF w = <<>> THEN opened ELSE AddDouble([opened EXCEPT !.values = Front(@)], Last(w))
      BY <3>5, <3>7 DEF RightParenthesis, n, opened
    <3>9. Behind(w, p, d - 1, e)
      <4>1. Len(w) + (d - 1) <= Len(p) + e
        BY <3>2, <3>6
      <4> QED
        BY <3>4, <3>6, <4>1 DEF Behind
    <3>10. RightParenthesis(m) = Machine(Lenient, w, p)
      <4>1. CASE w = <<>>
        BY <3>7, <3>8, <4>1
      <4>2. CASE w # <<>>
        <5>1. PICK u \in Seq(Number), x \in Number : w = Append(u, x)
          BY <4>2, StackIs
        <5>2. Front(w) = u /\ Last(w) = x
          BY <5>1, EndOfAppended
        <5>3. [Machine(Lenient, w, p) EXCEPT !.values = Front(@)] = Machine(Lenient, u, p)
          <6>1. Machine(Lenient, w, p).values = w
            BY DEF Machine
          <6>2. [Machine(Lenient, w, p) EXCEPT !.values = u] = Machine(Lenient, u, p)
            BY ValuesAre
          <6> QED
            BY <5>2, <6>1, <6>2
        <5>4. ~IsOnTop(p, Products)
          BY <3>4, NoProducts
        <5>5. AddDouble(Machine(Lenient, u, p), x) = Machine(Lenient, Append(u, x), p)
          BY <5>4, AddValue
        <5> QED
          BY <3>7, <3>8, <4>2, <5>1, <5>2, <5>3, <5>5
      <4> QED
        BY <4>1, <4>2
    <3> QED
      BY <2>3, <3>4, <3>9, <3>10 DEF Lags
  <2> HIDE DEF n
  <2>6. n.ends = <<StackEmpty>> \/ Ready(n, d, e)
    BY <2>1, SumTaken DEF n
  <2> QED
    BY <2>4, <2>5, <2>6
<1> QED
  BY <1>1, <1>2

\* The end of a sum in which a value is missing.
LEMMA LagsAtEnd ==
  ASSUME NEW m, Lags(m, 0, 0)
  PROVE  EvaluateEnd(m) \in {FormulaError, StackEmpty}
<1>1. CASE Failing(m)
  <2>1. PICK r \in {FormulaError, StackEmpty} : m.ends = <<r>>
    BY <1>1 DEF Failing
  <2>2. m.ends # <<>> /\ m.ends[1] \in {FormulaError, StackEmpty}
    BY <2>1
  <2> QED
    BY <2>2 DEF EvaluateEnd
<1>2. CASE ~Failing(m)
  <2>1. PICK v \in Seq(Number), o \in Seq(Sums) : m = Machine(Lenient, v, o) /\ Behind(v, o, 0, 0)
    BY <1>2 DEF Lags
  <2>2. m.ends = <<>> /\ m.ops = o /\ m.values = v /\ ~m.strict
    BY <2>1 DEF Machine, Lenient
  <2>3. Paired(o) /\ Count(o, "(") = 0 /\ Len(v) <= Len(o) /\ Len(v) \in Nat /\ Len(o) \in Nat
    BY <2>1, LenProperties DEF Behind
  <2>4. CASE o = <<>>
    <3>1. v = <<>>
      BY <2>3, <2>4, EmptySeq
    <3> QED
      BY <2>2, <2>4, <3>1 DEF EvaluateEnd
  <2>5. CASE o # <<>>
    <3>1. PICK p \in Seq(Sums), t \in Sums : o = Append(p, t)
      BY <2>5, StackIs
    <3>2. /\ t # "(" /\ Last(o) = t /\ Len(o) = Len(p) + 1 /\ Len(p) \in Nat /\ Count(p, "(") = 0
          /\ (t \in Signs => ~IsOnTop(p, Signs))
      <4>1. Count(p, "(") \in Nat /\ Count(o, "(") = Count(p, "(") + (IF t = "(" THEN 1 ELSE 0)
        BY <3>1, Stacked
      <4> QED
        BY <2>3, <3>1, <4>1, Stacked
    <3>3. t \in Signs /\ IsOnTop(o, Signs)
      BY <2>5, <3>2 DEF Sums, IsOnTop
    <3>4. p = <<>>
      <4> SUFFICES ASSUME p # <<>> PROVE FALSE
        OBVIOUS
      <4>1. PICK r \in Seq(Sums), u \in Sums : p = Append(r, u)
        BY StackIs
      <4>2. Last(p) = u /\ Count(r, "(") \in Nat /\ Count(p, "(") = Count(r, "(") + (IF u = "(" THEN 1 ELSE 0)
        BY <4>1, Stacked
      <4>3. u # "("
        BY <3>2, <4>2
      <4>4. u \in Signs
        BY <4>3 DEF Sums
      <4> QED
        BY <3>2, <3>3, <4>2, <4>4 DEF IsOnTop
    <3>5. Len(v) < 2
      BY <2>3, <3>2, <3>4, EmptySeq
    <3>6. Combine(m) = Fail(m, StackEmpty)
      BY <2>2, <3>5 DEF Combine
    <3>7. Fail(m, StackEmpty).ends = <<StackEmpty>>
      BY <2>1 DEF Fail, Machine, Lenient
    <3>8. Combine(m).ends # <<>> /\ Combine(m).ends[1] = StackEmpty
      BY <3>6, <3>7
    <3> QED
      BY <2>2, <2>5, <3>3, <3>8 DEF EvaluateEnd
  <2> QED
    BY <2>4, <2>5
<1> QED
  BY <1>1, <1>2

LEMMA LagsMore ==
  ASSUME NEW m, NEW d \in Int, NEW e \in Int, NEW f \in Int, e <= f, Lags(m, d, e)
  PROVE  Lags(m, d, f)
<1>1. CASE Failing(m)
  BY <1>1 DEF Lags
<1>2. CASE ~Failing(m)
  <2>1. PICK v \in Seq(Number), o \in Seq(Sums) : m = Machine(Lenient, v, o) /\ Behind(v, o, d, e)
    BY <1>2 DEF Lags
  <2>2. Len(v) + d <= Len(o) + e /\ Len(v) \in Nat /\ Len(o) \in Nat
    BY <2>1, LenProperties DEF Behind
  <2>3. Len(v) + d <= Len(o) + f
    BY <2>2
  <2>4. Behind(v, o, d, f)
    BY <2>1, <2>3 DEF Behind
  <2> QED
    BY <2>1, <2>4 DEF Lags
<1> QED
  BY <1>1, <1>2

\* Whether an operand is behind the first n tokens, and whether one was passed over.
Given(text, n)   == IF n = 0 \/ text[n] \in Asks THEN 0 ELSE 1
Skipped(text, n) == IF \E k \in 1..n : text[k] \in Name \ CellName THEN 1 ELSE 0

LEMMA SkippedIs ==
  ASSUME NEW text, NEW n \in Nat
  PROVE  /\ Skipped(text, 0) = 0 /\ Skipped(text, n) \in {0, 1}
         /\ text[n + 1] \notin Name \ CellName => Skipped(text, n + 1) = Skipped(text, n)
         /\ text[n + 1] \in Name \ CellName => Skipped(text, n + 1) = 1
<1>1. \A k \in 1..(n + 1) : k = n + 1 \/ k \in 1..n
  OBVIOUS
<1>2. n + 1 \in 1..(n + 1) /\ (1..n) \subseteq 1..(n + 1) /\ \A k \in 1..0 : FALSE
  OBVIOUS
<1> QED
  BY <1>1, <1>2 DEF Skipped

LEMMA LagsRound ==
  ASSUME NEW text \in Seq(Token), Legal(text), ToSet(text) \cap Products = {},
         NEW n \in Nat, n + 1 \in 1..Len(text),
         NEW m, Lags(m, Depth(text, n), Given(text, n) - Skipped(text, n))
  PROVE  Lags(EvaluateToken(m, text[n + 1]), Depth(text, n + 1), Given(text, n + 1) - Skipped(text, n + 1))
<1> DEFINE t == text[n + 1]
           d == Depth(text, n)
           g == Given(text, n)
           s == Skipped(text, n)
<1>1. n + 1 \in DOMAIN text /\ DOMAIN text = 1..Len(text)
  BY LenProperties
<1>2. t \in Opens \cup Ends \cup Asks /\ Depth(text, n + 1) >= 0 /\ (t \in Opens <=> n = 0 \/ text[n] \in Asks)
  <2>1. (n + 1 = 1) = (n = 0) /\ (n + 1) - 1 = n
    OBVIOUS
  <2> QED
    BY <1>1, <2>1 DEF Legal
<1>3. g \in {0, 1} /\ s \in {0, 1} /\ (g = 0 <=> t \in Opens) /\ d \in Int
  <2>1. s \in {0, 1} /\ d \in Int
    BY SkippedIs, DepthIs
  <2>2. g \in {0, 1} /\ (g = 0 <=> n = 0 \/ text[n] \in Asks)
    BY DEF Given
  <2> QED
    BY <1>2, <2>1, <2>2
<1>4. Given(text, n + 1) \in {0, 1} /\ (Given(text, n + 1) = 0 <=> t \in Asks)
  BY DEF Given
<1>5. t \notin Products
  BY <1>1 DEF ToSet
<1>6. /\ Depth(text, n + 1) = d + Turn(t) /\ Skipped(text, n + 1) \in {0, 1}
      /\ t \notin Name \ CellName => Skipped(text, n + 1) = s
      /\ t \in Name \ CellName => Skipped(text, n + 1) = 1
  BY DepthIs, SkippedIs
<1>7. Lags(m, d, g - s)
  OBVIOUS
<1> HIDE DEF t, d, g, s
<1> SUFFICES Lags(EvaluateToken(m, t), Depth(text, n + 1), Given(text, n + 1) - Skipped(text, n + 1))
  BY DEF t
<1>8. CASE t \in Atom
  <2>1. g = 0 /\ Given(text, n + 1) = 1 /\ Depth(text, n + 1) = d /\ t \in Numeral \cup Name
    <3>1. t \in Opens /\ t \notin Asks /\ Turn(t) = 0
      BY <1>8, Kinds DEF Opens, Asks
    <3> QED
      BY <1>3, <1>4, <1>6, <1>8, <3>1 DEF Atom
  <2>2. CASE t \in Name \ CellName
    <3>1. Lags(EvaluateToken(m, t), d, g - s)
      BY <1>3, <1>7, <2>1, <2>2, LagsOperand
    <3>2. Given(text, n + 1) - Skipped(text, n + 1) \in Int /\ g - s \in Int
          /\ g - s <= Given(text, n + 1) - Skipped(text, n + 1)
      BY <1>3, <1>6, <2>1, <2>2
    <3> QED
      BY <1>3, <2>1, <3>1, <3>2, LagsMore
  <2>3. CASE t \notin Name \ CellName
    <3>1. Lags(EvaluateToken(m, t), d, (g - s) + 1)
      BY <1>3, <1>7, <2>1, <2>3, LagsOperand
    <3>2. Given(text, n + 1) - Skipped(text, n + 1) = (g - s) + 1
      BY <1>3, <1>6, <2>1, <2>3
    <3> QED
      BY <2>1, <3>1, <3>2
  <2> QED
    BY <2>2, <2>3
<1>9. t \notin Atom => t \notin Name \ CellName
  <2>1. t \in Opens \cup Ends \cup Asks /\ t \notin Atom => t \in Operator \cup {"(", ")"}
    BY DEF Opens, Ends, Asks
  <2> QED
    BY <1>2, <2>1, TokenAssumption
<1>10. CASE t = "("
  <2>1. t \in Opens /\ t \in Asks /\ t \notin Atom /\ Turn(t) = 1
    BY <1>10, Kinds DEF Opens, Asks
  <2>2. Given(text, n + 1) - Skipped(text, n + 1) = g - s /\ Depth(text, n + 1) = d + 1 /\ g - s \in Int
    BY <1>3, <1>4, <1>6, <1>9, <2>1
  <2>3. Lags(EvaluateToken(m, "("), d + 1, g - s)
    BY <1>3, <1>7, <2>2, LagsOpened
  <2> QED
    BY <1>10, <2>2, <2>3
<1>11. CASE t = ")"
  <2>1. t \notin Opens /\ t \notin Asks /\ t \notin Atom /\ Turn(t) = -1
    BY <1>11, Kinds
  <2>2. Given(text, n + 1) - Skipped(text, n + 1) = g - s /\ Depth(text, n + 1) = d - 1 /\ d > 0 /\ g - s \in Int
    BY <1>2, <1>3, <1>4, <1>6, <1>9, <2>1
  <2>3. Lags(EvaluateToken(m, ")"), d - 1, g - s)
    BY <1>3, <1>7, <2>2, LagsClosed
  <2> QED
    BY <1>11, <2>2, <2>3
<1>12. CASE t \in Signs
  <2>1. t \notin Opens /\ t \in Asks /\ t \notin Atom /\ Turn(t) = 0
    BY <1>12, Kinds DEF Opens, Asks
  <2>2. Given(text, n + 1) - Skipped(text, n + 1) = (g - s) - 1 /\ Depth(text, n + 1) = d /\ g - s \in Int
    BY <1>3, <1>4, <1>6, <1>9, <2>1
  <2>3. Lags(EvaluateToken(m, t), d, (g - s) - 1)
    BY <1>3, <1>7, <1>12, <2>2, LagsSign
  <2> QED
    BY <2>2, <2>3
<1>13. t \in Atom \/ t = "(" \/ t = ")" \/ t \in Signs
  BY <1>2, <1>5, Kinds DEF Opens, Ends, Asks
<1> QED
  BY <1>8, <1>10, <1>11, <1>12, <1>13

\* A sum with a name that is no cell name has no value.
LEMMA SkippedHasNoValue ==
  ASSUME NEW text \in Seq(Token), text # <<>>, Legal(text), ~Expects(text), Depth(text, Len(text)) = 0,
         ToSet(text) \cap Products = {}, (ToSet(text) \cap Name) \ CellName # {}
  PROVE  Evaluated(text, Lenient) \in {FormulaError, StackEmpty}
<1> DEFINE N == Len(text)
<1>1. PICK run : /\ Evaluated(text, Lenient) = EvaluateEnd(run[Len(text)])
                 /\ run[0] = Start(Lenient)
                 /\ \A i \in 1..Len(text) : run[i] = EvaluateToken(run[i - 1], text[i])
  BY RunOf
<1> DEFINE After(n) == n <= N => Lags(run[n], Depth(text, n), Given(text, n) - Skipped(text, n))
           S == {n \in Nat : After(n)}
<1>2. N \in Nat /\ N # 0 /\ DOMAIN text = 1..N
  BY EmptySeq, LenProperties
<1>3. 0 \in S
  <2>1. Depth(text, 0) = 0 /\ Given(text, 0) - Skipped(text, 0) = 0
    BY DepthIs, SkippedIs DEF Given
  <2>2. run[0] = Machine(Lenient, <<>>, <<>>)
    BY <1>1 DEF Start, Machine
  <2>3. /\ <<>> \in Seq(Number) /\ <<>> \in Seq(Sums) /\ Paired(<<>>) /\ Len(<<>>) + 0 <= Len(<<>>) + 0
        /\ Count(<<>>, "(") = 0
    BY FS_EmptySet DEF Paired, Count
  <2>4. Behind(<<>>, <<>>, 0, 0)
    BY <2>3 DEF Behind
  <2>5. Lags(run[0], 0, 0)
    BY <2>2, <2>3, <2>4 DEF Lags
  <2> QED
    BY <2>1, <2>5
<1>4. ASSUME NEW n \in S PROVE n + 1 \in S
  <2>1. n \in Nat /\ After(n)
    OBVIOUS
  <2>2. ASSUME n + 1 <= N PROVE Lags(run[n + 1], Depth(text, n + 1), Given(text, n + 1) - Skipped(text, n + 1))
    <3>1. n + 1 \in 1..Len(text) /\ (n + 1) - 1 = n /\ n <= N
      BY <1>2, <2>1, <2>2
    <3>2. run[n + 1] = EvaluateToken(run[n], text[n + 1])
      BY <1>1, <3>1
    <3>3. Lags(run[n], Depth(text, n), Given(text, n) - Skipped(text, n))
      BY <2>1, <3>1
    <3> HIDE DEF N, S
    <3> QED
      BY <2>1, <3>1, <3>2, <3>3, LagsRound
  <2> QED
    BY <2>1, <2>2
<1>5. S = Nat
  <2> HIDE DEF After
  <2>1. S \in SUBSET Nat
    OBVIOUS
  <2> HIDE DEF S
  <2> QED
    BY <1>3, <1>4, <2>1, NatSet
<1>6. Lags(run[N], Depth(text, N), Given(text, N) - Skipped(text, N))
  <2>1. N \in S
    BY <1>2, <1>5
  <2> QED
    BY <1>2, <2>1
<1>7. Given(text, N) = 1
  BY <1>2 DEF Given, Expects, Last
<1>8. Skipped(text, N) = 1
  BY <1>2 DEF Skipped, ToSet
<1>9. Lags(run[N], 0, 0)
  BY <1>6, <1>7, <1>8
<1> QED
  BY <1>1, <1>9, LagsAtEnd

\* Evaluate returns what the expression means.  The loop keeps to the grammar:
\* an operand is taken with the product that waits for it, a term is one value
\* when no product waits, and a sum is one but for its last sign, which is
\* taken by what comes next.
THEOREM EvaluateReturnsMeaning == Spec => []EvaluateIsMeaning
<1>1. ASSUME Reads PROVE EvaluateIsMeaning
  <2> SUFFICES ASSUME status = "evaluated"
               PROVE  IF Misnamed = {} THEN result[1] = Meaning(Lenient, tokens)
                      ELSE ToSet(tokens) \cap Products = {} => result[1].kind # "value"
    BY DEF EvaluateIsMeaning
  <2>1. /\ tokens \in Seq(Token) /\ Legal(tokens) /\ ~Expects(tokens) /\ tokens # <<>>
        /\ Depth(tokens, Len(tokens)) = 0
        /\ \A q \in BOOLEAN : Meaning(q, tokens) # NoExpression
        /\ result[1] = Evaluated(tokens, Lenient)
        /\ ToSet(varList) = NormalNames(tokens)
    BY <1>1, Returned
  <2>2. ASSUME Misnamed = {} PROVE result[1] = Meaning(Lenient, tokens)
    <3>1. Plain(tokens, Lenient)
      BY <1>1, <2>2, PlainIs
    <3>2. Failure(Lenient) = FormulaError /\ Lenient \in BOOLEAN
      BY DEF Failure, Lenient
    <3> QED
      BY <2>1, <3>1, <3>2, EvaluatedIs
  <2>3. ASSUME Misnamed # {}, ToSet(tokens) \cap Products = {} PROVE result[1].kind # "value"
    <3>1. result[1] \in {FormulaError, StackEmpty}
      BY <2>1, <2>3, NamesAreCells, SkippedHasNoValue
    <3> QED
      BY <3>1 DEF FormulaError, StackEmpty
  <2> QED
    BY <2>2, <2>3
<1> QED
  BY <1>1, ReadsAlways, PTL

\* The older library's Evaluate returns the meaning too, in its own arithmetic:
\* the argument is the same, and the tokens that it does not read fail as the
\* names without a value do.
THEOREM EvaluatorReturnsMeaning == Spec => []EvaluatorIsMeaning
<1>1. ASSUME Reads PROVE EvaluatorIsMeaning
  <2> SUFFICES ASSUME status = "evaluated", ~Spaced(tokens, blanks)
               PROVE  Evaluated(tokens, Strict) = IF Meaning(Strict, tokens) = FormulaError
                                                  THEN ArgumentException ELSE Meaning(Strict, tokens)
    BY DEF EvaluatorIsMeaning, EvaluateExpression
  <2>1. Strict \in BOOLEAN /\ Strict /\ Failure(Strict) = ArgumentException
    BY DEF Strict, Failure
  <2>2. tokens \in Seq(Token) /\ Meaning(Strict, tokens) # NoExpression
    BY <1>1, <2>1, Returned
  <2>3. Plain(tokens, Strict)
    BY <2>1 DEF Plain
  <2> QED
    BY <2>1, <2>2, <2>3, EvaluatedIs
<1> QED
  BY <1>1, ReadsAlways, PTL

=============================================================================
