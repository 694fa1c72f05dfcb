----------------------------- MODULE GuestProofs -----------------------------
(***************************************************************************)
(* For every program, whatever its words or bytes are, every memory and    *)
(* every choice of the host: the registers and the PC hold words, the      *)
(* memory holds bytes, the decoders make instructions of the types the     *)
(* executors expect, and an instruction that fails leaves the PC on        *)
(* itself.                                                                 *)
(*                                                                         *)
(* For each processor there is a set of machines (RvMachine,               *)
(* ArmMachine(T), X86Machine), a lemma per group of the decoder and one    *)
(* per group of the executor, and three theorems: the decoder makes an     *)
(* instruction of any code (Decodes), an instruction keeps the machine     *)
(* (Executes), and so does a step, which goes back to its instruction if   *)
(* it fails (Steps).                                                       *)
(*                                                                         *)
(* The inductive invariant (GuestInv) adds to the machine's type what the  *)
(* next step needs: the program is one of those the assumption on the      *)
(* constants allows, and after a fault the PC is still in the code, since  *)
(* Retry fetches from there without asking again.                          *)
(*                                                                         *)
(* On ARM, MRS puts a status where a word would be: T is the set of        *)
(* registers that may hold one, and KeepsStatuses says that an             *)
(* instruction uses no other of its registers for one. The rounds of a     *)
(* repeated string operation are a recursive function, and so are the sums *)
(* in Words, which are folds of the community modules: that the recursions *)
(* have solutions, and that the order of the summands does not matter, are *)
(* inductions over sets of numbers and of subsets (SetInduction,           *)
(* SubsetInduction, RecursionExists).                                      *)
(***************************************************************************)
EXTENDS Guest, FiniteSetTheorems, WellFoundedInduction, TLAPS

-----------------------------------------------------------------------------
(* Words, for every length of a byte: what is cut out of a word has the    *)
(* size of the field, sums of distinct powers stay below the next one, and *)
(* the operations on words give words.                                     *)

\* Induction, on sets of natural numbers.
LEMMA SetInduction ==
  ASSUME NEW S, 0 \in S, \A n \in Nat : n \in S => n + 1 \in S
  PROVE  Nat \subseteq S
<1> DEFINE T == Nat \ S
           R == OpToRel(<, Nat)
<1>1. SUFFICES ASSUME T # {} PROVE FALSE
  OBVIOUS
<1>2. PICK x \in T : \A y \in T : <<y, x>> \notin R
  <2> IsWellFoundedOn(R, Nat)
    BY NatLessThanWellFounded
  <2> T \subseteq Nat
    OBVIOUS
  <2> HIDE DEF R, T
  <2> QED
    BY <1>1, WFMin
<1>3. x # 0 /\ x - 1 \in Nat /\ (x - 1) + 1 = x
  OBVIOUS
<1>4. x - 1 \in T
  BY <1>3
<1>5. <<x - 1, x>> \in R
  BY <1>3 DEF OpToRel
<1> QED BY <1>2, <1>4, <1>5

-----------------------------------------------------------------------------
(* Powers of two                                                           *)

\* A power of two counts the subsets of an interval.
LEMMA PowerOfCardinality ==
  ASSUME NEW n \in Nat
  PROVE  /\ IsFiniteSet(1 .. n) /\ IsFiniteSet(SUBSET (1 .. n))
         /\ Cardinality(SUBSET (1 .. n)) = 2^n
<1>1. IsFiniteSet(1 .. n) /\ Cardinality(1 .. n) = n
  BY FS_Interval
<1> QED BY <1>1, FS_SUBSET

\* Each power of two is twice the one before it.
LEMMA PowerSucc ==
  ASSUME NEW n \in Nat
  PROVE  2^(n + 1) = 2 * 2^n /\ 2^n \in Nat
<1> DEFINE A == SUBSET (1 .. n)
           B == {s \cup {n + 1} : s \in A}
           f == [s \in A |-> s \cup {n + 1}]
<1>1. IsFiniteSet(A) /\ Cardinality(A) = 2^n /\ Cardinality(A) \in Nat
  BY PowerOfCardinality, FS_CardinalityType
<1>2. IsFiniteSet(B) /\ Cardinality(B) = Cardinality(A)
  <2>1. f \in Bijection(A, B)
    <3>1. f \in [A -> B]
      OBVIOUS
    <3>2. \A s, t \in A : f[s] = f[t] => s = t
      <4> SUFFICES ASSUME NEW s \in A, NEW t \in A, f[s] = f[t] PROVE s = t
        OBVIOUS
      <4>1. n + 1 \notin s /\ n + 1 \notin t
        OBVIOUS
      <4>2. s = (s \cup {n + 1}) \ {n + 1} /\ t = (t \cup {n + 1}) \ {n + 1}
        BY <4>1
      <4>3. f[s] = s \cup {n + 1} /\ f[t] = t \cup {n + 1}
        OBVIOUS
      <4> QED BY <4>2, <4>3
    <3>3. \A b \in B : \E s \in A : f[s] = b
      OBVIOUS
    <3> QED BY <3>1, <3>2, <3>3 DEF Bijection, Injection, Surjection, IsInjective
  <2> QED BY <2>1, <1>1, FS_Bijection DEF ExistsBijection
<1>3. A \cap B = {}
  <2> SUFFICES ASSUME NEW s \in A PROVE s \notin B
    OBVIOUS
  <2>1. n + 1 \notin s
    OBVIOUS
  <2> QED BY <2>1
<1>4. A \cup B = SUBSET (1 .. n + 1)
  <2>1. ASSUME NEW t \in SUBSET (1 .. n + 1) PROVE t \in A \cup B
    <3>1. CASE n + 1 \in t
      <4>1. t = (t \ {n + 1}) \cup {n + 1} /\ t \ {n + 1} \in A
        BY <3>1
      <4> QED BY <4>1
    <3>2. CASE n + 1 \notin t
      <4> t \in A
        BY <3>2
      <4> QED OBVIOUS
    <3> QED BY <3>1, <3>2
  <2>2. ASSUME NEW t \in A \cup B PROVE t \in SUBSET (1 .. n + 1)
    OBVIOUS
  <2> QED BY <2>1, <2>2
<1>5. Cardinality(SUBSET (1 .. n + 1)) = 2^(n + 1)
  <2> n + 1 \in Nat
    OBVIOUS
  <2> HIDE DEF A, B
  <2> QED BY PowerOfCardinality
<1> HIDE DEF A, B
<1>6. Cardinality(A \cup B) = Cardinality(A) + Cardinality(B) - Cardinality({})
  BY <1>1, <1>2, <1>3, FS_Union
<1>7. Cardinality({}) = 0
  BY FS_EmptySet
<1>8. Cardinality(A \cup B) = 2^(n + 1)
  BY <1>4, <1>5
<1> QED
  BY <1>1, <1>2, <1>6, <1>7, <1>8

-----------------------------------------------------------------------------
(* Sums.  SumFunction is a recursion over the subsets of a domain; that    *)
(* there is a function that satisfies it is an induction on their size.    *)

\* The argument the fold takes next.
First(s) == CHOOSE x \in s : TRUE

\* it sums up h over each set of C.
Sums(h, it, C) ==
  it = [s \in C |-> IF s = {} THEN 0 ELSE h[First(s)] + it[s \ {First(s)}]]

\* The sums of h over the subsets of its domain.
Running(h) == CHOOSE it : Sums(h, it, SUBSET (DOMAIN h))

\* The sum of a function is its running sum over the whole domain.
LEMMA SumIsRunning ==
  ASSUME NEW h
  PROVE  SumFunction(h) = Running(h)[DOMAIN h]
BY DEF Running, Sums, First, SumFunction, SumFunctionOnSet, FoldFunctionOnSet, MapThenFoldSet

\* The subsets of D with at most n elements.
UpTo(D, n) == {s \in SUBSET D : Cardinality(s) <= n}

\* The recursion that defines the running sum has a solution.
LEMMA RunningExists ==
  ASSUME NEW h, IsFiniteSet(DOMAIN h)
  PROVE  Sums(h, Running(h), SUBSET (DOMAIN h))
<1> DEFINE D == DOMAIN h
           S == {n \in Nat : \E it : Sums(h, it, UpTo(D, n))}
<1>1. \A s \in SUBSET D : IsFiniteSet(s) /\ Cardinality(s) \in Nat
  BY FS_Subset, FS_CardinalityType
<1>2. \A s \in SUBSET D : s # {} => /\ First(s) \in s
                                    /\ s \ {First(s)} \in SUBSET D
                                    /\ Cardinality(s \ {First(s)}) = Cardinality(s) - 1
  BY <1>1, FS_RemoveElement DEF First
<1>3. 0 \in S
  <2>1. \A s \in UpTo(D, 0) : s = {}
    BY <1>1, FS_EmptySet DEF UpTo
  <2>2. Sums(h, [s \in UpTo(D, 0) |-> 0], UpTo(D, 0))
    BY <2>1 DEF Sums
  <2> QED BY <2>2
<1>4. ASSUME NEW n \in Nat, n \in S PROVE n + 1 \in S
  <2>1. PICK it : Sums(h, it, UpTo(D, n))
    BY <1>4
  <2> DEFINE jt == [s \in UpTo(D, n + 1) |->
                      IF s = {} THEN 0 ELSE h[First(s)] + it[s \ {First(s)}]]
  <2>2. ASSUME NEW s \in UpTo(D, n + 1), s # {}
        PROVE  jt[s \ {First(s)}] = it[s \ {First(s)}]
    <3> DEFINE t == s \ {First(s)}
    <3>1. s \in SUBSET D /\ Cardinality(s) <= n + 1
      BY DEF UpTo
    <3>2. t \in SUBSET D /\ Cardinality(t) = Cardinality(s) - 1 /\ Cardinality(s) \in Nat
      BY <1>1, <1>2, <2>2, <3>1
    <3>3. t \in UpTo(D, n) /\ t \in UpTo(D, n + 1)
      BY <3>1, <3>2 DEF UpTo
    <3>4. it[t] = IF t = {} THEN 0 ELSE h[First(t)] + it[t \ {First(t)}]
      BY <2>1, <3>3 DEF Sums
    <3>5. jt[t] = IF t = {} THEN 0 ELSE h[First(t)] + it[t \ {First(t)}]
      BY <3>3
    <3> QED BY <3>4, <3>5
  <2>3. Sums(h, jt, UpTo(D, n + 1))
    BY <2>2 DEF Sums
  <2> HIDE DEF jt
  <2> QED BY <2>3
<1>5. Cardinality(D) \in S
  <2> HIDE DEF S
  <2> Cardinality(D) \in Nat
    BY FS_CardinalityType
  <2> QED BY <1>3, <1>4, SetInduction
<1>6. UpTo(D, Cardinality(D)) = SUBSET D
  BY FS_Subset DEF UpTo
<1>7. \E it : Sums(h, it, SUBSET D)
  BY <1>5, <1>6
<1> QED BY <1>7 DEF Running

\* The recursion of a sum.
LEMMA RunningStep ==
  ASSUME NEW h, IsFiniteSet(DOMAIN h), NEW s \in SUBSET (DOMAIN h)
  PROVE  /\ s = {} => Running(h)[s] = 0
         /\ s # {} => /\ First(s) \in s
                      /\ Running(h)[s] = h[First(s)] + Running(h)[s \ {First(s)}]
BY RunningExists DEF Sums, First

\* Induction on the subsets of a finite set.
LEMMA SubsetInduction ==
  ASSUME NEW D, IsFiniteSet(D), NEW P, {} \in P,
         \A s \in SUBSET D : s # {} /\ (\A x \in s : s \ {x} \in P) => s \in P
  PROVE  SUBSET D \subseteq P
<1> DEFINE S == {n \in Nat : \A s \in SUBSET D : Cardinality(s) = n => s \in P}
<1>1. \A s \in SUBSET D : IsFiniteSet(s) /\ Cardinality(s) \in Nat
  BY FS_Subset, FS_CardinalityType
<1>2. 0 \in S
  BY <1>1, FS_EmptySet
<1>3. ASSUME NEW n \in Nat, n \in S PROVE n + 1 \in S
  <2> SUFFICES ASSUME NEW s \in SUBSET D, Cardinality(s) = n + 1 PROVE s \in P
    OBVIOUS
  <2>1. s # {}
    BY <1>1, FS_EmptySet
  <2>2. ASSUME NEW x \in s PROVE s \ {x} \in P
    <3>1. Cardinality(s \ {x}) = (n + 1) - 1 /\ s \ {x} \in SUBSET D
      BY <1>1, FS_RemoveElement
    <3> QED BY <1>3, <3>1
  <2> QED BY <2>1, <2>2
<1>4. Nat \subseteq S
  <2> HIDE DEF S
  <2> QED BY <1>2, <1>3, SetInduction
<1> QED BY <1>1, <1>4

\* A running sum of integers is an integer.
LEMMA RunningTyped ==
  ASSUME NEW h, IsFiniteSet(DOMAIN h), \A x \in DOMAIN h : h[x] \in Int
  PROVE  \A s \in SUBSET (DOMAIN h) : Running(h)[s] \in Int
<1> DEFINE D == DOMAIN h
           P == {s \in SUBSET D : Running(h)[s] \in Int}
<1>1. {} \in P
  <2>1. {} \in SUBSET D /\ Running(h)[{}] = 0
    BY RunningStep
  <2> QED BY <2>1
<1>2. ASSUME NEW s \in SUBSET D, s # {}, \A x \in s : s \ {x} \in P PROVE s \in P
  <2>1. s \in SUBSET (DOMAIN h)
    OBVIOUS
  <2> HIDE DEF P
  <2>2. First(s) \in s /\ Running(h)[s] = h[First(s)] + Running(h)[s \ {First(s)}]
    BY <1>2, <2>1, RunningStep
  <2>3. s \ {First(s)} \in P
    BY <1>2, <2>2
  <2> QED BY <2>2, <2>3 DEF P
<1>3. SUBSET D \subseteq P
  <2> IsFiniteSet(D)
    OBVIOUS
  <2> HIDE DEF P, D
  <2> QED BY <1>1, <1>2, SubsetInduction
<1> QED BY <1>3

\* Any element may come first.
LEMMA AnyFirst ==
  ASSUME NEW h, IsFiniteSet(DOMAIN h), \A x \in DOMAIN h : h[x] \in Int
  PROVE  \A s \in SUBSET (DOMAIN h) : \A y \in s : Running(h)[s] = h[y] + Running(h)[s \ {y}]
<1> DEFINE D == DOMAIN h
           P == {s \in SUBSET D : \A y \in s : Running(h)[s] = h[y] + Running(h)[s \ {y}]}
<1>1. {} \in P
  OBVIOUS
<1>2. ASSUME NEW s \in SUBSET D, s # {}, \A x \in s : s \ {x} \in P PROVE s \in P
  <2> SUFFICES ASSUME NEW y \in s PROVE Running(h)[s] = h[y] + Running(h)[s \ {y}]
    OBVIOUS
  <2> DEFINE x == First(s)
  <2>1. x \in s /\ Running(h)[s] = h[x] + Running(h)[s \ {x}]
    BY <1>2, RunningStep
  <2> HIDE DEF x
  <2>2. CASE x = y
    BY <2>1, <2>2
  <2>3. CASE x # y
    <3> DEFINE r == s \ {x, y}
    <3>1. (s \ {x}) \ {y} = r /\ (s \ {y}) \ {x} = r /\ r \in SUBSET D
      OBVIOUS
    <3>2. y \in s \ {x} /\ x \in s \ {y}
      BY <2>1, <2>3
    <3>3. Running(h)[s \ {x}] = h[y] + Running(h)[r]
      BY <1>2, <2>1, <3>1, <3>2
    <3>4. Running(h)[s \ {y}] = h[x] + Running(h)[r]
      BY <1>2, <2>1, <3>1, <3>2
    <3>5. h[x] \in Int /\ h[y] \in Int /\ Running(h)[r] \in Int
      BY <2>1, <3>1, RunningTyped
    <3> HIDE DEF r
    <3> QED BY <2>1, <3>3, <3>4, <3>5
  <2> QED BY <2>2, <2>3
<1>3. SUBSET D \subseteq P
  <2> IsFiniteSet(D)
    OBVIOUS
  <2> HIDE DEF P, D
  <2> QED BY <1>1, <1>2, SubsetInduction
<1> QED BY <1>3

\* The sum over a part is that of the function on the part.
LEMMA RunningOnPart ==
  ASSUME NEW h, IsFiniteSet(DOMAIN h), NEW s \in SUBSET (DOMAIN h)
  PROVE  SumFunction([x \in s |-> h[x]]) = Running(h)[s]
<1> DEFINE g == [x \in s |-> h[x]]
           P == {t \in SUBSET s : Running(g)[t] = Running(h)[t]}
<1>1. DOMAIN g = s /\ IsFiniteSet(s)
  BY FS_Subset
<1>2. {} \in P
  BY <1>1, RunningStep
<1>3. ASSUME NEW t \in SUBSET s, t # {}, \A x \in t : t \ {x} \in P PROVE t \in P
  <2>1. /\ First(t) \in t
        /\ Running(g)[t] = g[First(t)] + Running(g)[t \ {First(t)}]
        /\ Running(h)[t] = h[First(t)] + Running(h)[t \ {First(t)}]
    <3> HIDE DEF g
    <3> t \in SUBSET (DOMAIN g) /\ t \in SUBSET (DOMAIN h)
      BY <1>1
    <3> QED BY <1>1, <1>3, RunningStep
  <2> QED BY <1>3, <2>1
<1>4. SUBSET s \subseteq P
  <2> HIDE DEF P
  <2> QED BY <1>1, <1>2, <1>3, SubsetInduction
<1>5. SumFunction(g) = Running(g)[s]
  BY <1>1, SumIsRunning
<1> QED BY <1>4, <1>5

\* What a sum is: nothing for nothing, and one value more for one element more.
LEMMA SumStep ==
  ASSUME NEW h, IsFiniteSet(DOMAIN h), \A x \in DOMAIN h : h[x] \in Int
  PROVE  /\ SumFunction(h) \in Int
         /\ DOMAIN h = {} => SumFunction(h) = 0
         /\ \A y \in DOMAIN h : SumFunction(h) = h[y] + SumFunction([x \in DOMAIN h \ {y} |-> h[x]])
<1>1. SumFunction(h) = Running(h)[DOMAIN h]
  BY SumIsRunning
<1>2. SumFunction(h) \in Int /\ (DOMAIN h = {} => SumFunction(h) = 0)
  <2>1. DOMAIN h \in SUBSET (DOMAIN h)
    OBVIOUS
  <2>2. Running(h)[DOMAIN h] \in Int
    BY <2>1, RunningTyped
  <2>3. DOMAIN h = {} => Running(h)[DOMAIN h] = 0
    BY <2>1, RunningStep
  <2> QED BY <1>1, <2>2, <2>3
<1>3. ASSUME NEW y \in DOMAIN h
      PROVE  SumFunction(h) = h[y] + SumFunction([x \in DOMAIN h \ {y} |-> h[x]])
  <2>1. SumFunction([x \in DOMAIN h \ {y} |-> h[x]]) = Running(h)[DOMAIN h \ {y}]
    BY RunningOnPart
  <2> QED BY <1>1, <2>1, AnyFirst
<1> QED BY <1>2, <1>3

-----------------------------------------------------------------------------
(* Ranges.  Every power is a positive number, every sum of distinct powers *)
(* is below the next one.                                                  *)

\* A power of two is a positive number.
LEMMA PowerPositive ==
  \A n \in Nat : 2^n \in Nat /\ 2^n >= 1
<1> DEFINE S == {n \in Nat : 2^n \in Nat /\ 2^n >= 1}
<1>1. 0 \in S
  OBVIOUS
<1>2. ASSUME NEW n \in Nat, n \in S PROVE n + 1 \in S
  BY <1>2, PowerSucc
<1>3. Nat \subseteq S
  <2> HIDE DEF S
  <2> QED BY <1>1, <1>2, SetInduction
<1> QED BY <1>3

\* The power of a sum is the product of the powers.
LEMMA PowerAdd ==
  ASSUME NEW m \in Nat
  PROVE  \A n \in Nat : 2^(m + n) = 2^m * 2^n
<1> DEFINE S == {n \in Nat : 2^(m + n) = 2^m * 2^n}
<1>1. 0 \in S
  <2> 2^m \in Nat /\ m + 0 = m /\ 2^0 = 1
    BY PowerPositive
  <2> QED OBVIOUS
<1>2. ASSUME NEW n \in Nat, n \in S PROVE n + 1 \in S
  <2>1. m + (n + 1) = (m + n) + 1 /\ m + n \in Nat
    OBVIOUS
  <2>2. 2^((m + n) + 1) = 2 * 2^(m + n) /\ 2^(n + 1) = 2 * 2^n
    BY <2>1, PowerSucc
  <2>3. 2^(m + n) = 2^m * 2^n /\ 2^m \in Nat /\ 2^n \in Nat
    BY <1>2, PowerPositive
  <2>4. \A a, b, c \in Nat : c = a * b => 2 * c = a * (2 * b)
    OBVIOUS
  <2>5. 2^(m + n) \in Nat
    BY <2>1, PowerPositive
  <2>6. 2 * 2^(m + n) = 2^m * (2 * 2^n)
    BY <2>3, <2>4, <2>5
  <2> QED BY <2>1, <2>2, <2>6
<1>3. Nat \subseteq S
  <2> HIDE DEF S
  <2> QED BY <1>1, <1>2, SetInduction
<1> QED BY <1>3

\* Powers of two grow with the exponent.
LEMMA PowersGrow ==
  ASSUME NEW m \in Nat, NEW n \in Nat, m <= n
  PROVE  2^m <= 2^n
<1>1. n - m \in Nat /\ m + (n - m) = n
  OBVIOUS
<1>2. 2^n = 2^m * 2^(n - m)
  BY <1>1, PowerAdd
<1>3. 2^m \in Nat /\ 2^(n - m) \in Nat /\ 2^(n - m) >= 1
  BY <1>1, PowerPositive
<1>4. \A a, b \in Nat : b >= 1 => a <= a * b
  OBVIOUS
<1> QED BY <1>2, <1>3, <1>4

\* The sum of powers that Field and ValueOf are.
Powers(S, lo) == [i \in S |-> 2^(i - lo)]

\* Distinct powers of two below the nth add up to less than it.
LEMMA PowersSum ==
  ASSUME NEW lo \in Nat
  PROVE  \A n \in Nat : \A S \in SUBSET (lo .. lo + n - 1) :
            SumFunction(Powers(S, lo)) \in 0 .. 2^n - 1
<1> DEFINE P == {n \in Nat : \A S \in SUBSET (lo .. lo + n - 1) :
                               SumFunction(Powers(S, lo)) \in 0 .. 2^n - 1}
<1>1. ASSUME NEW n \in Nat, NEW S \in SUBSET (lo .. lo + n - 1)
      PROVE  /\ DOMAIN Powers(S, lo) = S /\ IsFiniteSet(S)
             /\ \A i \in S : Powers(S, lo)[i] = 2^(i - lo) /\ Powers(S, lo)[i] \in Int
  <2>1. IsFiniteSet(lo .. lo + n - 1)
    BY FS_Interval
  <2>2. IsFiniteSet(S)
    BY <2>1, FS_Subset
  <2>3. \A i \in S : i - lo \in Nat
    OBVIOUS
  <2> QED BY <2>2, <2>3, PowerPositive DEF Powers
<1>2. 0 \in P
  <2> SUFFICES ASSUME NEW S \in SUBSET (lo .. lo + 0 - 1)
               PROVE  SumFunction(Powers(S, lo)) \in 0 .. 2^0 - 1
    OBVIOUS
  <2>1. S = {}
    OBVIOUS
  <2>2. DOMAIN Powers(S, lo) = {} /\ IsFiniteSet(DOMAIN Powers(S, lo))
    BY <2>1, FS_EmptySet DEF Powers
  <2>3. SumFunction(Powers(S, lo)) = 0
    BY <2>2, SumStep
  <2> QED BY <2>3
<1>3. ASSUME NEW n \in Nat, n \in P PROVE n + 1 \in P
  <2> SUFFICES ASSUME NEW S \in SUBSET (lo .. lo + (n + 1) - 1)
               PROVE  SumFunction(Powers(S, lo)) \in 0 .. 2^(n + 1) - 1
    OBVIOUS
  <2> DEFINE y == lo + n
             T == S \ {y}
  <2>1. T \in SUBSET (lo .. lo + n - 1)
    OBVIOUS
  <2>2. SumFunction(Powers(T, lo)) \in 0 .. 2^n - 1
    BY <1>3, <2>1
  <2>3. 2^(n + 1) = 2 * 2^n /\ 2^n \in Nat /\ 2^n >= 1
    BY PowerSucc, PowerPositive
  <2>4. CASE y \notin S
    <3>1. SumFunction(Powers(S, lo)) \in 0 .. 2^n - 1
      <4> T = S
        BY <2>4
      <4> QED BY <2>2
    <3> QED BY <2>3, <3>1
  <2>5. CASE y \in S
    <3>1. /\ DOMAIN Powers(S, lo) = S /\ IsFiniteSet(S)
          /\ \A i \in S : Powers(S, lo)[i] = 2^(i - lo) /\ Powers(S, lo)[i] \in Int
      <4> n + 1 \in Nat
        OBVIOUS
      <4> QED BY <1>1
    <3>2. SumFunction(Powers(S, lo))
             = Powers(S, lo)[y] + SumFunction([x \in S \ {y} |-> Powers(S, lo)[x]])
      BY <2>5, <3>1, SumStep
    <3>3. [x \in S \ {y} |-> Powers(S, lo)[x]] = Powers(T, lo)
      BY <3>1 DEF Powers
    <3>4. Powers(S, lo)[y] = 2^n
      <4> y - lo = n
        OBVIOUS
      <4> QED BY <2>5, <3>1
    <3> HIDE DEF y, T
    <3> QED BY <2>2, <2>3, <3>2, <3>3, <3>4
  <2> QED BY <2>4, <2>5
<1>4. Nat \subseteq P
  <2> HIDE DEF P
  <2> QED BY <1>2, <1>3, SetInduction
<1> QED BY <1>4

\* A field of n bits is an unsigned number of n bits.
LEMMA FieldRange ==
  ASSUME NEW raw, NEW lo \in Nat, NEW n \in Nat
  PROVE  Field(raw, lo, n) \in 0 .. 2^n - 1 /\ Field(raw, lo, n) \in Unsigned(n)
<1> DEFINE S == raw \cap (lo .. lo + n - 1)
<1>1. S \in SUBSET (lo .. lo + n - 1)
  OBVIOUS
<1>2. Field(raw, lo, n) = SumFunction(Powers(S, lo))
  BY DEF Field, Powers
<1> HIDE DEF S
<1> QED BY <1>1, <1>2, PowersSum DEF Unsigned

\* A signed field is a number in two's complement.
LEMMA SignedFieldRange ==
  ASSUME NEW raw, NEW lo \in Nat, NEW n \in Nat
  PROVE  /\ SignedField(raw, lo, n + 1) \in -(2^n) .. 2^n - 1
         /\ SignedField(raw, lo, n + 1) \in TwosComplement(n + 1)
<1>1. (n + 1) - 1 = n /\ lo + (n + 1) - 1 = lo + n
  OBVIOUS
<1>2. SignedField(raw, lo, n + 1) = Field(raw, lo, n) - (IF lo + n \in raw THEN 2^n ELSE 0)
  BY <1>1 DEF SignedField
<1>3. Field(raw, lo, n) \in 0 .. 2^n - 1 /\ 2^n \in Nat /\ 2^n >= 1
  BY FieldRange, PowerPositive
<1>4. SignedField(raw, lo, n + 1) \in -(2^n) .. 2^n - 1
  BY <1>2, <1>3
<1> QED BY <1>1, <1>4 DEF TwosComplement

-----------------------------------------------------------------------------
(* Words                                                                   *)

\* The span of m + n bytes is the product of theirs.
LEMMA SpanAdd ==
  ASSUME NEW m \in Nat, NEW n \in Nat
  PROVE  Span(m + n) = Span(m) * Span(n)
<1>1. m * ByteBits \in Nat /\ n * ByteBits \in Nat
  BY WordsAssumption
<1>2. (m + n) * ByteBits = m * ByteBits + n * ByteBits
  BY WordsAssumption
<1> QED BY <1>1, <1>2, PowerAdd DEF Span

\* Spans grow with the number of bytes.
LEMMA SpanGrows ==
  ASSUME NEW m \in Nat, NEW n \in Nat, m <= n
  PROVE  Span(m) <= Span(n)
<1>1. m * ByteBits \in Nat /\ n * ByteBits \in Nat /\ m * ByteBits <= n * ByteBits
  BY WordsAssumption
<1> QED BY <1>1, PowersGrow DEF Span

\* The sizes of the data types.
LEMMA Spans ==
  /\ \A n \in Nat : Span(n) \in Nat /\ Span(n) >= 1
  /\ Span(0) = 1 /\ Span(1) \in Nat /\ Span(2) \in Nat /\ Span(3) \in Nat /\ M \in Nat
  /\ Span(1) >= 2 /\ Span(2) >= 4 /\ M >= 16
  /\ Span(2) = Span(1) * Span(1) /\ Span(3) = Span(2) * Span(1)
  /\ M = Span(2) * Span(2) /\ M = Span(3) * Span(1) /\ M = Span(4)
  /\ Width \in Nat /\ Width >= 4 /\ M = 2^Width
  /\ \E h \in Nat : M = 2 * h /\ h >= 8
<1>1. ASSUME NEW n \in Nat PROVE Span(n) \in Nat /\ Span(n) >= 1
  <2> n * ByteBits \in Nat
    BY WordsAssumption
  <2> QED BY PowerPositive DEF Span
<1>2. Span(0) = 1
  <2>1. 0 * ByteBits = 0
    BY WordsAssumption
  <2>2. 2^0 = 1
    OBVIOUS
  <2>3. Span(0) = 2^(0 * ByteBits)
    BY DEF Span
  <2> QED BY <2>1, <2>2, <2>3
<1>3. Span(1) >= 2
  <2>1. 1 * ByteBits = ByteBits /\ 1 <= ByteBits /\ ByteBits \in Nat
    BY WordsAssumption
  <2>2. 2^1 <= 2^ByteBits
    BY <2>1, PowersGrow
  <2> QED BY <2>1, <2>2 DEF Span
<1>4. Span(2) = Span(1) * Span(1)
  <2> 2 = 1 + 1
    OBVIOUS
  <2> QED BY SpanAdd
<1>5. Span(3) = Span(2) * Span(1)
  <2> 3 = 2 + 1
    OBVIOUS
  <2> QED BY SpanAdd
<1>6. M = Span(2) * Span(2) /\ M = Span(3) * Span(1) /\ M = Span(4)
  <2> 4 = 2 + 2 /\ 4 = 3 + 1
    OBVIOUS
  <2> QED BY SpanAdd DEF M
<1>7. Span(1) \in Nat /\ Span(2) \in Nat /\ Span(3) \in Nat /\ M \in Nat
  BY <1>1 DEF M
<1>8. \A a, b, c \in Nat : b >= a /\ c >= a /\ a >= 1 => b * c >= a * a
  OBVIOUS
<1>9. Span(2) >= 4 /\ M >= 16
  <2>1. Span(1) * Span(1) >= 2 * 2
    BY <1>3, <1>7, <1>8
  <2>2. Span(2) >= 4
    BY <2>1, <1>4
  <2>3. Span(2) * Span(2) >= 4 * 4
    BY <2>2, <1>7, <1>8
  <2> QED BY <2>2, <2>3, <1>6
<1>10. Width \in Nat /\ Width >= 4 /\ M = 2^Width
  BY WordsAssumption DEF Width, M, Span
<1>11. \E h \in Nat : M = 2 * h /\ h >= 8
  <2>1. Width - 1 \in Nat /\ (Width - 1) + 1 = Width
    BY <1>10
  <2>2. M = 2 * 2^(Width - 1) /\ 2^(Width - 1) \in Nat
    BY <1>10, <2>1, PowerSucc
  <2> QED BY <1>9, <2>2
<1> QED BY <1>1, <1>2, <1>3, <1>4, <1>5, <1>6, <1>7, <1>9, <1>10, <1>11

\* A set of bits stands for a word.
LEMMA ValueOfType ==
  ASSUME NEW S \in SUBSET Position
  PROVE  ValueOf[S] \in Word
<1>1. Position = 0 .. 0 + Width - 1
  BY Spans DEF Position
<1>2. ValueOf[S] = SumFunction(Powers(S, 0))
  <2> \A i \in S : i - 0 = i
    BY DEF Position
  <2> [i \in S |-> 2^i] = Powers(S, 0)
    BY DEF Powers
  <2> QED BY DEF ValueOf
<1>3. SumFunction(Powers(S, 0)) \in 0 .. 2^Width - 1
  BY <1>1, Spans, PowersSum
<1> QED BY <1>2, <1>3, Spans DEF Word

\* A word has bits in the positions of a word.
LEMMA BitsOfType ==
  ASSUME NEW x \in Word
  PROVE  BitsOf[x] \in SUBSET Position
BY DEF BitsOf

\* The bitwise operations on words give words.
LEMMA BitwiseType ==
  ASSUME NEW x \in Word, NEW y \in Word
  PROVE  And(x, y) \in Word /\ Or(x, y) \in Word /\ Xor(x, y) \in Word /\ Not(x) \in Word
<1>1. /\ BitsOf[x] \cap BitsOf[y] \in SUBSET Position
      /\ BitsOf[x] \cup BitsOf[y] \in SUBSET Position
      /\ SymDiff(BitsOf[x], BitsOf[y]) \in SUBSET Position
  BY BitsOfType DEF SymDiff
<1>2. And(x, y) \in Word /\ Or(x, y) \in Word /\ Xor(x, y) \in Word
  BY <1>1, ValueOfType DEF And, Or, Xor
<1>3. Not(x) \in Word
  BY Spans DEF Not, Word
<1> QED BY <1>2, <1>3

-----------------------------------------------------------------------------
(* Bytes                                                                   *)

\* The numbers a byte holds.
Byte == 0 .. Span(1) - 1

\* A number put together from n bytes fits in n bytes.
LEMMA OfBytesRange ==
  ASSUME NEW b
  PROVE  \A n \in Nat : (\A k \in 0 .. n - 1 : b[k] \in Byte) => OfBytes(b, n) \in 0 .. Span(n) - 1
<1> DEFINE h(n) == [k \in 0 .. n - 1 |-> b[k] * Span(k)]
           Good(n) == \A k \in 0 .. n - 1 : b[k] \in Byte
           P == {n \in Nat : Good(n) => OfBytes(b, n) \in 0 .. Span(n) - 1}
<1>1. ASSUME NEW n \in Nat, Good(n)
      PROVE  /\ DOMAIN h(n) = 0 .. n - 1 /\ IsFiniteSet(0 .. n - 1)
             /\ \A k \in 0 .. n - 1 : h(n)[k] = b[k] * Span(k) /\ h(n)[k] \in Int
  <2>1. IsFiniteSet(0 .. n - 1)
    BY FS_Interval
  <2>2. ASSUME NEW k \in 0 .. n - 1 PROVE b[k] \in Int /\ Span(k) \in Int
    BY <1>1, Spans DEF Byte
  <2>3. \A i, j \in Int : i * j \in Int
    OBVIOUS
  <2> QED BY <2>1, <2>2, <2>3
<1>2. 0 \in P
  <2>1. 0 .. 0 - 1 = {} /\ DOMAIN h(0) = {}
    OBVIOUS
  <2>2. SumFunction(h(0)) = 0
    BY <2>1, FS_EmptySet, SumStep
  <2>3. OfBytes(b, 0) = SumFunction(h(0))
    BY DEF OfBytes
  <2> HIDE DEF h, Good
  <2>4. OfBytes(b, 0) = 0 /\ 0 \in 0 .. Span(0) - 1
    BY <2>2, <2>3, Spans
  <2> QED BY <2>4
<1>3. ASSUME NEW n \in Nat, n \in P PROVE n + 1 \in P
  <2> SUFFICES ASSUME Good(n + 1) PROVE OfBytes(b, n + 1) \in 0 .. Span(n + 1) - 1
    OBVIOUS
  <2>1. n + 1 \in Nat /\ n \in 0 .. (n + 1) - 1 /\ (0 .. (n + 1) - 1) \ {n} = 0 .. n - 1
    OBVIOUS
  <2>2. /\ DOMAIN h(n + 1) = 0 .. (n + 1) - 1 /\ IsFiniteSet(0 .. (n + 1) - 1)
        /\ \A k \in 0 .. (n + 1) - 1 : h(n + 1)[k] = b[k] * Span(k) /\ h(n + 1)[k] \in Int
    <3> HIDE DEF h
    <3> QED BY <1>1, <2>1
  <2>3. SumFunction(h(n + 1))
          = h(n + 1)[n] + SumFunction([x \in (0 .. (n + 1) - 1) \ {n} |-> h(n + 1)[x]])
    <3> HIDE DEF h
    <3> QED BY <2>1, <2>2, SumStep
  <2>4. [x \in (0 .. (n + 1) - 1) \ {n} |-> h(n + 1)[x]] = h(n)
    BY <2>1, <2>2
  <2>5. OfBytes(b, n + 1) = b[n] * Span(n) + OfBytes(b, n)
    <3> OfBytes(b, n + 1) = SumFunction(h(n + 1)) /\ OfBytes(b, n) = SumFunction(h(n))
      BY DEF OfBytes
    <3> h(n + 1)[n] = b[n] * Span(n)
      BY <2>1, <2>2
    <3> HIDE DEF h
    <3> QED BY <2>3, <2>4
  <2>6. OfBytes(b, n) \in 0 .. Span(n) - 1
    BY <1>3
  <2>7. b[n] \in Byte /\ Span(n) \in Nat /\ Span(n) >= 1 /\ Span(n + 1) = Span(n) * Span(1)
    BY SpanAdd, Spans, <2>1
  <2>8. \A c \in Byte, m \in Nat : \A o : o \in 0 .. m - 1 => c * m + o \in 0 .. (m * Span(1)) - 1
    BY Spans DEF Byte
  <2> HIDE DEF h, P, Good
  <2> QED BY <2>5, <2>6, <2>7, <2>8
<1>4. Nat \subseteq P
  <2> HIDE DEF P
  <2> QED BY <1>2, <1>3, SetInduction
<1> QED BY <1>4

\* A remainder is below the divisor.
LEMMA Remainder ==
  ASSUME NEW x \in Int, NEW d \in Nat, d >= 1
  PROVE  x % d \in 0 .. d - 1 /\ x % d \in Nat
OBVIOUS

\* A quotient is not above the dividend.
LEMMA Quotient ==
  ASSUME NEW x \in Nat, NEW d \in Nat, d >= 1
  PROVE  x \div d \in 0 .. x
OBVIOUS

\* A number below d * e has a quotient by d below e.
LEMMA QuotientBelow ==
  ASSUME NEW x \in Nat, NEW d \in Nat, d >= 1, NEW e \in Nat, x < d * e
  PROVE  x \div d \in 0 .. e - 1
OBVIOUS

\* A byte of a number is a byte.
LEMMA ByteAtType ==
  ASSUME NEW x \in Int, NEW k \in Nat
  PROVE  ByteAt(x, k) \in Byte
<1>1. x \div Span(k) \in Int
  BY Spans
<1> QED BY <1>1, Spans, Remainder DEF ByteAt, Byte

\* Swapping n bytes gives a number of n bytes.
LEMMA SwapBytesType ==
  ASSUME NEW x \in Int, NEW n \in Nat
  PROVE  SwapBytes(x, n) \in 0 .. Span(n) - 1
<1> DEFINE b == [k \in 0 .. n - 1 |-> ByteAt(x, n - 1 - k)]
<1>1. ASSUME NEW k \in 0 .. n - 1 PROVE b[k] \in Byte
  <2> n - 1 - k \in Nat
    OBVIOUS
  <2> QED BY ByteAtType
<1> HIDE DEF b
<1>2. OfBytes(b, n) \in 0 .. Span(n) - 1
  BY <1>1, OfBytesRange
<1> QED BY <1>2 DEF SwapBytes, b

-----------------------------------------------------------------------------
(* Arithmetic                                                              *)

\* The words are the residues modulo M.
LEMMA WordType ==
  /\ M \in Nat /\ M >= 16 /\ Word = 0 .. M - 1 /\ Word \subseteq Nat
  /\ 0 \in Word /\ 1 \in Word /\ M - 1 \in Word
  /\ \A x \in Int : x % M \in Word
  /\ \A x \in Word : x % M = x
<1>1. M \in Nat /\ M >= 16 /\ Word = 0 .. M - 1
  BY Spans DEF Word
<1>2. \A d \in Nat : d >= 1 => \A x \in Int : x % d \in 0 .. d - 1
  OBVIOUS
<1>3. \A d \in Nat : d >= 1 => \A x \in 0 .. d - 1 : x % d = x
  OBVIOUS
<1>4. \A x \in Int : x % M \in Word
  <2> M >= 1
    BY <1>1
  <2> QED BY <1>1, <1>2
<1>5. \A x \in Word : x % M = x
  BY <1>1, <1>3
<1>6. Word \subseteq Nat /\ 0 \in Word /\ 1 \in Word /\ M - 1 \in Word
  BY <1>1
<1> QED BY <1>1, <1>4, <1>5, <1>6

\* The signed reading of an integer is an integer.
LEMMA SignedType ==
  ASSUME NEW x \in Int, NEW m \in Nat
  PROVE  Signed(x, m) \in Int
BY DEF Signed

\* Cutting a number to n bytes, and extending it again, gives a word.
LEMMA NarrowType ==
  ASSUME NEW x \in Int, NEW n \in {1, 2, 4}
  PROVE  /\ x % Span(n) \in 0 .. Span(n) - 1
         /\ x % Span(n) \in Word
         /\ SignExtended(x, n) \in Word
<1>1. Span(n) \in Nat /\ Span(n) >= 1 /\ Span(n) <= M
  <2> n \in Nat /\ n <= 4 /\ 4 \in Nat
    OBVIOUS
  <2> QED BY SpanGrows, Spans
<1>2. x % Span(n) \in 0 .. Span(n) - 1
  BY <1>1, Remainder
<1>3. x % Span(n) \in Word
  BY <1>1, <1>2, WordType
<1>4. SignExtended(x, n) \in Word
  <2>1. x % Span(n) \in Int
    BY <1>2
  <2>2. Signed(x % Span(n), Span(n)) \in Int
    BY <1>1, <2>1, SignedType
  <2> QED BY <2>2, WordType DEF SignExtended
<1> QED BY <1>2, <1>3, <1>4

\* The shifts of a word give words.
LEMMA ShiftType ==
  ASSUME NEW x \in Word, NEW n \in Nat
  PROVE  /\ ShiftedLeft(x, n) \in Word /\ ShiftedRight(x, n) \in Word
         /\ ArithmeticRight(x, n) \in Word
         /\ n <= Width => RotatedRight(x, n) \in Word
<1>1. 2^n \in Nat /\ 2^n >= 1 /\ x \in Nat
  BY PowerPositive, WordType
<1>2. x * 2^n \in Int /\ x \div 2^n \in 0 .. x
  BY <1>1
<1>3. Signed(x, M) \in Int /\ Signed(x, M) \div 2^n \in Int
  <2>1. Signed(x, M) \in Int
    BY <1>1, SignedType, WordType
  <2>2. \A d \in Nat : d >= 1 => \A y \in Int : y \div d \in Int
    OBVIOUS
  <2> QED BY <1>1, <2>1, <2>2
<1>4. ASSUME n <= Width PROVE (x \div 2^n) + (x * 2^(Width - n)) \in Int
  <2> Width - n \in Nat
    BY <1>4, Spans
  <2> 2^(Width - n) \in Nat
    BY PowerPositive
  <2> QED BY <1>1, <1>2
<1>5. x \div 2^n \in Word
  BY <1>2, WordType
<1> QED BY <1>2, <1>3, <1>4, <1>5, WordType
        DEF ShiftedLeft, ShiftedRight, ArithmeticRight, RotatedRight

\* A bit is set or not.
LEMMA BitType ==
  ASSUME NEW x, NEW n
  PROVE  Bit(x, n) \in BOOLEAN
BY DEF Bit

-----------------------------------------------------------------------------
(* The words and the memory each processor's module works with are those   *)
(* of this one.                                                            *)

\* The RV32I module's words are those of this one.
LEMMA RvWords ==
  /\ Rv!M = M /\ Rv!Word = Word /\ Rv!Width = Width /\ Rv!Position = Position
  /\ \A n : Rv!Span(n) = Span(n)
  /\ Rv!ValueOf = ValueOf
  /\ \A x, y : Rv!And(x, y) = And(x, y) /\ Rv!Or(x, y) = Or(x, y) /\ Rv!Xor(x, y) = Xor(x, y)
  /\ \A x, n : Rv!Signed(x, n) = Signed(x, n) /\ Rv!SignExtended(x, n) = SignExtended(x, n)
  /\ \A x, n : /\ Rv!ShiftedLeft(x, n) = ShiftedLeft(x, n)
               /\ Rv!ShiftedRight(x, n) = ShiftedRight(x, n)
               /\ Rv!ArithmeticRight(x, n) = ArithmeticRight(x, n)
  /\ \A raw, lo, n : Rv!Field(raw, lo, n) = Field(raw, lo, n)
                     /\ Rv!SignedField(raw, lo, n) = SignedField(raw, lo, n)
<1>1. Rv!M = M /\ Rv!Word = Word /\ Rv!Width = Width /\ Rv!Position = Position
  BY DEF Rv!M, M, Rv!Word, Word, Rv!Width, Width, Rv!Position, Position, Rv!Span, Span
<1>2. \A n : Rv!Span(n) = Span(n)
  BY DEF Rv!Span, Span
<1>3. \A h : Rv!SumFunction(h) = SumFunction(h)
  BY DEF Rv!SumFunction, SumFunction, Rv!SumFunctionOnSet, SumFunctionOnSet,
         Rv!FoldFunctionOnSet, FoldFunctionOnSet, Rv!MapThenFoldSet, MapThenFoldSet
<1>4. Rv!ValueOf = ValueOf /\ Rv!BitsOf = BitsOf
  BY <1>1, <1>3 DEF Rv!ValueOf, ValueOf, Rv!BitsOf, BitsOf
<1>5. \A x, y : Rv!And(x, y) = And(x, y) /\ Rv!Or(x, y) = Or(x, y) /\ Rv!Xor(x, y) = Xor(x, y)
  BY <1>4 DEF Rv!And, And, Rv!Or, Or, Rv!Xor, Xor, Rv!SymDiff, SymDiff
<1>6. \A x, n : Rv!Signed(x, n) = Signed(x, n)
  BY DEF Rv!Signed, Signed, Rv!Negative, Negative
<1>7. \A x, n : Rv!SignExtended(x, n) = SignExtended(x, n)
  BY <1>1, <1>2, <1>6 DEF Rv!SignExtended, SignExtended
<1>8. \A x, n : /\ Rv!ShiftedLeft(x, n) = ShiftedLeft(x, n)
                /\ Rv!ShiftedRight(x, n) = ShiftedRight(x, n)
                /\ Rv!ArithmeticRight(x, n) = ArithmeticRight(x, n)
  BY <1>1, <1>6 DEF Rv!ShiftedLeft, ShiftedLeft, Rv!ShiftedRight, ShiftedRight,
                    Rv!ArithmeticRight, ArithmeticRight
<1>9. \A raw, lo, n : Rv!Field(raw, lo, n) = Field(raw, lo, n)
  BY <1>3 DEF Rv!Field, Field
<1>10. \A raw, lo, n : Rv!SignedField(raw, lo, n) = SignedField(raw, lo, n)
  BY <1>9 DEF Rv!SignedField, SignedField
<1> QED BY <1>1, <1>2, <1>4, <1>5, <1>6, <1>7, <1>8, <1>9, <1>10

\* The RV32I module's loads and stores are those of this one.
LEMMA RvMemory ==
  /\ \A s, a, n : Rv!Reachable(s, a, n) = Reachable(s, a, n)
  /\ \A s, a, n : Rv!Loaded(s, a, n) = Loaded(s, a, n)
  /\ \A s, e : Rv!Fails(s, e) = Fails(s, e)
  /\ \A s, a, n, v : Rv!Stored(s, a, n, v) = Stored(s, a, n, v)
<1>1. \A s, a, n : Rv!Reachable(s, a, n) = Reachable(s, a, n)
  BY DEF Rv!Reachable, Reachable
<1>2. \A s, a, n : Rv!Loaded(s, a, n) = Loaded(s, a, n)
  BY DEF Rv!Loaded, Loaded, Rv!OfBytes, OfBytes, Rv!Span, Span,
         Rv!SumFunction, SumFunction, Rv!SumFunctionOnSet, SumFunctionOnSet,
         Rv!FoldFunctionOnSet, FoldFunctionOnSet, Rv!MapThenFoldSet, MapThenFoldSet
<1>3. \A s, e : Rv!Fails(s, e) = Fails(s, e)
  BY DEF Rv!Fails, Fails
<1>4. \A x, k : Rv!ByteAt(x, k) = ByteAt(x, k)
  BY DEF Rv!ByteAt, ByteAt, Rv!Span, Span
<1>5. \A mem, a, n, v : Rv!Filled(mem, a, n, v) = Filled(mem, a, n, v)
  BY <1>4 DEF Rv!Filled, Filled
<1>6. \A s, a, n, v : Rv!Stored(s, a, n, v) = Stored(s, a, n, v)
  BY <1>1, <1>3, <1>5 DEF Rv!Stored, Stored
<1> QED BY <1>1, <1>2, <1>3, <1>6

\* The ranges of the fields that the decoders cut out of a word.
LEMMA FieldSizes ==
  ASSUME NEW raw, NEW lo \in Nat
  PROVE  /\ Field(raw, lo, 1) \in 0 .. 1
         /\ Field(raw, lo, 2) \in 0 .. 3
         /\ Field(raw, lo, 3) \in 0 .. 7
         /\ Field(raw, lo, 4) \in 0 .. 15
         /\ Field(raw, lo, 5) \in 0 .. 31
         /\ Field(raw, lo, 6) \in 0 .. 63
         /\ Field(raw, lo, 7) \in 0 .. 127
         /\ Field(raw, lo, 8) \in 0 .. 255
         /\ Field(raw, lo, 10) \in 0 .. 1023
         /\ Field(raw, lo, 12) \in 0 .. 4095
         /\ SignedField(raw, lo, 1) \in -1 .. 0
         /\ SignedField(raw, lo, 7) \in -64 .. 63
         /\ SignedField(raw, lo, 12) \in TwosComplement(12)
<1>1. Field(raw, lo, 1) \in 0 .. 1
  <2>1. Field(raw, lo, 1) \in 0 .. 2^1 - 1
    BY FieldRange
  <2> QED BY <2>1
<1>2. Field(raw, lo, 2) \in 0 .. 3
  <2>1. Field(raw, lo, 2) \in 0 .. 2^2 - 1
    BY FieldRange
  <2> QED BY <2>1
<1>3. Field(raw, lo, 3) \in 0 .. 7
  <2>1. Field(raw, lo, 3) \in 0 .. 2^3 - 1
    BY FieldRange
  <2> QED BY <2>1
<1>4. Field(raw, lo, 4) \in 0 .. 15
  <2>1. Field(raw, lo, 4) \in 0 .. 2^4 - 1
    BY FieldRange
  <2> QED BY <2>1
<1>5. Field(raw, lo, 5) \in 0 .. 31
  <2>1. Field(raw, lo, 5) \in 0 .. 2^5 - 1
    BY FieldRange
  <2> QED BY <2>1
<1>6. Field(raw, lo, 6) \in 0 .. 63
  <2>1. Field(raw, lo, 6) \in 0 .. 2^6 - 1
    BY FieldRange
  <2> QED BY <2>1
<1>7. Field(raw, lo, 7) \in 0 .. 127
  <2>1. Field(raw, lo, 7) \in 0 .. 2^7 - 1
    BY FieldRange
  <2> QED BY <2>1
<1>8. Field(raw, lo, 8) \in 0 .. 255
  <2>1. Field(raw, lo, 8) \in 0 .. 2^8 - 1
    BY FieldRange
  <2> QED BY <2>1
<1>9. Field(raw, lo, 10) \in 0 .. 1023
  <2>1. Field(raw, lo, 10) \in 0 .. 2^10 - 1
    BY FieldRange
  <2> QED BY <2>1
<1>10. Field(raw, lo, 12) \in 0 .. 4095
  <2>1. Field(raw, lo, 12) \in 0 .. 2^12 - 1
    BY FieldRange
  <2> QED BY <2>1, SMTT(40)
<1>11. SignedField(raw, lo, 1) \in -1 .. 0
  <2>1. SignedField(raw, lo, 0 + 1) \in -(2^0) .. 2^0 - 1
    BY SignedFieldRange
  <2>2. 0 + 1 = 1
    OBVIOUS
  <2>3. SignedField(raw, lo, 1) \in -(2^0) .. 2^0 - 1
    BY <2>1, <2>2
  <2> QED BY <2>3
<1>12. SignedField(raw, lo, 7) \in -64 .. 63
  <2>1. SignedField(raw, lo, 6 + 1) \in -(2^6) .. 2^6 - 1
    BY SignedFieldRange
  <2>2. 6 + 1 = 7
    OBVIOUS
  <2>3. SignedField(raw, lo, 7) \in -(2^6) .. 2^6 - 1
    BY <2>1, <2>2
  <2> QED BY <2>3
<1>13. SignedField(raw, lo, 12) \in TwosComplement(12)
  <2>1. SignedField(raw, lo, 11 + 1) \in TwosComplement(11 + 1)
    BY SignedFieldRange
  <2>2. 11 + 1 = 12
    OBVIOUS
  <2> QED BY <2>1, <2>2
<1> QED BY <1>1, <1>2, <1>3, <1>4, <1>5, <1>6, <1>7, <1>8, <1>9, <1>10, <1>11, <1>12, <1>13

-----------------------------------------------------------------------------
(* RV32I                                                                   *)

\* The names in the decoder's tables are names of instructions.
LEMMA RvTables ==
  /\ \A f \in DOMAIN Rv!BranchOp : Rv!BranchOp[f] \in {"Beq", "Bne", "Blt", "Bge", "Bltu", "Bgeu"}
  /\ \A f \in DOMAIN Rv!LoadOp : Rv!LoadOp[f] \in {"Lb", "Lh", "Lw", "Lbu", "Lhu"}
  /\ \A f \in DOMAIN Rv!StoreOp : Rv!StoreOp[f] \in {"Sb", "Sh", "Sw"}
  /\ \A f \in DOMAIN Rv!ImmediateOp :
        Rv!ImmediateOp[f] \in {"Addi", "Slti", "Sltiu", "Xori", "Ori", "Andi"}
  /\ \A f \in 0 .. 7 :
        Rv!RegisterOp[f] \in {"Add", "Sll", "Slt", "Sltu", "Xor", "Srl", "Or", "And"}
  /\ \A f \in DOMAIN Rv!RegisterOp32 : Rv!RegisterOp32[f] \in {"Sub", "Sra"}
<1>1. \A f \in DOMAIN Rv!BranchOp :
         Rv!BranchOp[f] \in {"Beq", "Bne", "Blt", "Bge", "Bltu", "Bgeu"}
  BY DEF Rv!BranchOp
<1>2. \A f \in DOMAIN Rv!LoadOp : Rv!LoadOp[f] \in {"Lb", "Lh", "Lw", "Lbu", "Lhu"}
  BY DEF Rv!LoadOp
<1>3. \A f \in DOMAIN Rv!StoreOp : Rv!StoreOp[f] \in {"Sb", "Sh", "Sw"}
  BY DEF Rv!StoreOp
<1>4. \A f \in DOMAIN Rv!ImmediateOp :
         Rv!ImmediateOp[f] \in {"Addi", "Slti", "Sltiu", "Xori", "Ori", "Andi"}
  BY DEF Rv!ImmediateOp
<1>5. \A f \in 0 .. 7 :
         Rv!RegisterOp[f] \in {"Add", "Sll", "Slt", "Sltu", "Xor", "Srl", "Or", "And"}
  BY DEF Rv!RegisterOp
<1>6. \A f \in DOMAIN Rv!RegisterOp32 : Rv!RegisterOp32[f] \in {"Sub", "Sra"}
  BY DEF Rv!RegisterOp32
<1> QED BY <1>1, <1>2, <1>3, <1>4, <1>5, <1>6

\* The immediates put together from several fields have their ranges.
LEMMA RvImmediates ==
  ASSUME NEW raw
  PROVE  /\ SignedField(raw, 25, 7) * 32 + Field(raw, 7, 5) \in TwosComplement(12)
         /\ SignedField(raw, 31, 1) * 4096 + Field(raw, 7, 1) * 2048
               + Field(raw, 25, 6) * 32 + Field(raw, 8, 4) * 2 \in TwosComplement(13)
         /\ SignedField(raw, 31, 1) * 1048576 + Field(raw, 12, 8) * 4096
               + Field(raw, 20, 1) * 2048 + Field(raw, 21, 10) * 2 \in TwosComplement(21)
<1>1. SignedField(raw, 25, 7) \in -64 .. 63 /\ Field(raw, 7, 5) \in 0 .. 31
  BY FieldSizes
<1>2. /\ SignedField(raw, 31, 1) \in -1 .. 0 /\ Field(raw, 7, 1) \in 0 .. 1
      /\ Field(raw, 25, 6) \in 0 .. 63 /\ Field(raw, 8, 4) \in 0 .. 15
  BY FieldSizes
<1>3. /\ Field(raw, 12, 8) \in 0 .. 255 /\ Field(raw, 20, 1) \in 0 .. 1
      /\ Field(raw, 21, 10) \in 0 .. 1023
  BY FieldSizes
<1>4. SignedField(raw, 25, 7) * 32 + Field(raw, 7, 5) \in TwosComplement(12)
  <2> DEFINE m == 2^(12 - 1)
             x == SignedField(raw, 25, 7) * 32 + Field(raw, 7, 5)
  <2>1. x \in Int /\ -2048 <= x /\ x <= 2048 - 1
    BY <1>1, SMTT(40)
  <2>2. TwosComplement(12) = -m .. m - 1
    BY SMT DEF TwosComplement
  <2>3. m = 2048
    BY SMT
  <2> HIDE DEF m, x
  <2>4. m \in Int /\ -m <= x /\ x <= m - 1
    BY <2>1, <2>3, SMT
  <2>5. x \in TwosComplement(12)
    BY <2>1, <2>2, <2>4
  <2> QED BY <2>5, SMT DEF x
<1>5. SignedField(raw, 31, 1) * 4096 + Field(raw, 7, 1) * 2048
         + Field(raw, 25, 6) * 32 + Field(raw, 8, 4) * 2 \in TwosComplement(13)
  <2> DEFINE m == 2^(13 - 1)
             x == SignedField(raw, 31, 1) * 4096 + Field(raw, 7, 1) * 2048
         + Field(raw, 25, 6) * 32 + Field(raw, 8, 4) * 2
  <2>1. x \in Int /\ -4096 <= x /\ x <= 4096 - 1
    BY <1>2, SMT
  <2>2. TwosComplement(13) = -m .. m - 1
    BY SMT DEF TwosComplement
  <2>3. m = 4096
    BY SMT
  <2> HIDE DEF m, x
  <2>4. m \in Int /\ -m <= x /\ x <= m - 1
    BY <2>1, <2>3, SMT
  <2>5. x \in TwosComplement(13)
    BY <2>1, <2>2, <2>4
  <2> QED BY <2>5, SMT DEF x
<1>6. SignedField(raw, 31, 1) * 1048576 + Field(raw, 12, 8) * 4096
         + Field(raw, 20, 1) * 2048 + Field(raw, 21, 10) * 2 \in TwosComplement(21)
  <2> DEFINE m == 2^(21 - 1)
             x == SignedField(raw, 31, 1) * 1048576 + Field(raw, 12, 8) * 4096
         + Field(raw, 20, 1) * 2048 + Field(raw, 21, 10) * 2
  <2>1. x \in Int /\ -1048576 <= x /\ x <= 1048576 - 1
    <3> DEFINE a == SignedField(raw, 31, 1)   b == Field(raw, 12, 8)
               c == Field(raw, 20, 1)         d == Field(raw, 21, 10)
               y == a * 1048576 + b * 4096 + c * 2048 + d * 2
    <3>1. x = y
      OBVIOUS
    <3>2. a \in -1 .. 0 /\ b \in 0 .. 255 /\ c \in 0 .. 1 /\ d \in 0 .. 1023
      BY <1>2, <1>3
    <3> HIDE DEF a, b, c, d
    <3>3. y \in Int /\ -1048576 <= y /\ y <= 1048576 - 1
      BY <3>2, SMT
    <3> HIDE DEF x, y
    <3> QED BY <3>1, <3>3, SMT
  <2>2. TwosComplement(21) = -m .. m - 1
    BY SMT DEF TwosComplement
  <2>3. m = 1048576
    BY SMT
  <2> HIDE DEF m, x
  <2>4. m \in Int /\ -m <= x /\ x <= m - 1
    BY <2>1, <2>3, SMT
  <2>5. x \in TwosComplement(21)
    BY <2>1, <2>2, <2>4
  <2> QED BY <2>5, SMT DEF x
<1> QED BY <1>4, <1>5, <1>6, SMT

\* The RV32I module's signed ranges are those of this one.
LEMMA RvTwosComplement == \A n : Rv!TwosComplement(n) = TwosComplement(n)
BY DEF Rv!TwosComplement, TwosComplement

\* LUI and AUIPC, as the decoder makes them.
LEMMA RvUpper ==
  ASSUME NEW op \in {"Lui", "Auipc"}, NEW rd \in Rv!Register, NEW imm \in SUBSET (12 .. 31)
  PROVE  [op |-> op, rd |-> rd, imm |-> imm] \in Rv!Instr
BY RvTwosComplement DEF Rv!Instr

\* JAL, as the decoder makes it.
LEMMA RvJal ==
  ASSUME NEW rd \in Rv!Register, NEW imm \in TwosComplement(21)
  PROVE  [op |-> "Jal", rd |-> rd, imm |-> imm] \in Rv!Instr
BY RvTwosComplement DEF Rv!Instr

\* The conditional branches, as the decoder makes them.
LEMMA RvBranch ==
  ASSUME NEW op \in {"Beq", "Bne", "Blt", "Bge", "Bltu", "Bgeu"}, NEW rs1 \in Rv!Register,
         NEW rs2 \in Rv!Register, NEW imm \in TwosComplement(13)
  PROVE  [op |-> op, rs1 |-> rs1, rs2 |-> rs2, imm |-> imm] \in Rv!Instr
BY RvTwosComplement DEF Rv!Instr

\* The instructions with an immediate, as the decoder makes them.
LEMMA RvImmediate ==
  ASSUME NEW op \in {"Jalr", "Lb", "Lh", "Lw", "Lbu", "Lhu",
                     "Addi", "Slti", "Sltiu", "Xori", "Ori", "Andi"},
         NEW rd \in Rv!Register, NEW rs1 \in Rv!Register, NEW imm \in TwosComplement(12)
  PROVE  [op |-> op, rd |-> rd, rs1 |-> rs1, imm |-> imm] \in Rv!Instr
BY RvTwosComplement DEF Rv!Instr

\* The stores, as the decoder makes them.
LEMMA RvStore ==
  ASSUME NEW op \in {"Sb", "Sh", "Sw"}, NEW rs1 \in Rv!Register,
         NEW rs2 \in Rv!Register, NEW imm \in TwosComplement(12)
  PROVE  [op |-> op, rs1 |-> rs1, rs2 |-> rs2, imm |-> imm] \in Rv!Instr
BY RvTwosComplement DEF Rv!Instr

\* The shifts by an immediate, as the decoder makes them.
LEMMA RvShift ==
  ASSUME NEW op \in {"Slli", "Srli", "Srai"}, NEW rd \in Rv!Register,
         NEW rs1 \in Rv!Register, NEW shamt \in 0 .. 31
  PROVE  [op |-> op, rd |-> rd, rs1 |-> rs1, shamt |-> shamt] \in Rv!Instr
BY RvTwosComplement DEF Rv!Instr

\* The operations on two registers, as the decoder makes them.
LEMMA RvRegister ==
  ASSUME NEW op \in {"Add", "Sub", "Sll", "Slt", "Sltu", "Xor", "Srl", "Sra", "Or", "And"},
         NEW rd \in Rv!Register, NEW rs1 \in Rv!Register, NEW rs2 \in Rv!Register
  PROVE  [op |-> op, rd |-> rd, rs1 |-> rs1, rs2 |-> rs2] \in Rv!Instr
BY RvTwosComplement DEF Rv!Instr

\* ECALL, EBREAK and unknown words, as the decoder makes them.
LEMMA RvPlain ==
  /\ [op |-> "Ecall"] \in Rv!Instr /\ [op |-> "Ebreak"] \in Rv!Instr
  /\ \A raw \in SUBSET (0 .. 31) : [op |-> "Unknown", raw |-> raw] \in Rv!Instr
BY DEF Rv!Instr

\* The RV32I decoder makes of every word an instruction of the type that the
\* executor expects: registers, immediates and shift amounts in their ranges.
THEOREM RvDecodes ==
  ASSUME NEW raw \in SUBSET (0 .. 31)
  PROVE  Rv!DecodeRiscv(raw) \in Rv!Instr
<1> DEFINE op == Field(raw, 0, 7)     f3 == Field(raw, 12, 3)   f7 == Field(raw, 25, 7)
           rd == Field(raw, 7, 5)     rs1 == Field(raw, 15, 5)  rs2 == Field(raw, 20, 5)
           immI == SignedField(raw, 20, 12)
           immS == SignedField(raw, 25, 7) * 32 + Field(raw, 7, 5)
           immB == SignedField(raw, 31, 1) * 4096 + Field(raw, 7, 1) * 2048
                     + Field(raw, 25, 6) * 32 + Field(raw, 8, 4) * 2
           immJ == SignedField(raw, 31, 1) * 1048576 + Field(raw, 12, 8) * 4096
                     + Field(raw, 20, 1) * 2048 + Field(raw, 21, 10) * 2
<1>1. rd \in Rv!Register /\ rs1 \in Rv!Register /\ rs2 \in Rv!Register
  BY FieldSizes DEF Rv!Register
<1>2. f3 \in 0 .. 7 /\ rs2 \in 0 .. 31 /\ immI \in TwosComplement(12)
  BY FieldSizes
<1>0. immS \in TwosComplement(12) /\ immB \in TwosComplement(13) /\ immJ \in TwosComplement(21)
  BY RvImmediates, SMT
<1>10. raw \cap (12 .. 31) \in SUBSET (12 .. 31)
  OBVIOUS
<1>7. [op |-> "Unknown", raw |-> raw] \in Rv!Instr
  BY RvPlain
<1>6. Rv!DecodeAluImmediate(raw) \in Rv!Instr
  <2>1. ASSUME f3 = 1 PROVE Rv!DecodeAluImmediate(raw) \in Rv!Instr
    <3>1. Rv!DecodeAluImmediate(raw) = [op |-> "Slli", rd |-> rd, rs1 |-> rs1, shamt |-> rs2]
      BY <2>1, RvWords, SMT DEF Rv!DecodeAluImmediate, Rv!Unknown
    <3> HIDE DEF op, f3, f7, rd, rs1, rs2, immI, immS, immB, immJ
    <3>2. [op |-> "Slli", rd |-> rd, rs1 |-> rs1, shamt |-> rs2] \in Rv!Instr
      BY <1>0, <1>1, <1>2, <1>7, <1>10, RvShift
    <3> QED BY <3>1, <3>2
  <2>2. ASSUME f3 = 5 /\ f7 = 0 PROVE Rv!DecodeAluImmediate(raw) \in Rv!Instr
    <3>1. Rv!DecodeAluImmediate(raw) = [op |-> "Srli", rd |-> rd, rs1 |-> rs1, shamt |-> rs2]
      BY <2>2, RvWords, SMT DEF Rv!DecodeAluImmediate, Rv!Unknown
    <3> HIDE DEF op, f3, f7, rd, rs1, rs2, immI, immS, immB, immJ
    <3>2. [op |-> "Srli", rd |-> rd, rs1 |-> rs1, shamt |-> rs2] \in Rv!Instr
      BY <1>0, <1>1, <1>2, <1>7, <1>10, RvShift
    <3> QED BY <3>1, <3>2
  <2>3. ASSUME f3 = 5 /\ f7 = 32 PROVE Rv!DecodeAluImmediate(raw) \in Rv!Instr
    <3>1. Rv!DecodeAluImmediate(raw) = [op |-> "Srai", rd |-> rd, rs1 |-> rs1, shamt |-> rs2]
      BY <2>3, RvWords, SMT DEF Rv!DecodeAluImmediate, Rv!Unknown
    <3> HIDE DEF op, f3, f7, rd, rs1, rs2, immI, immS, immB, immJ
    <3>2. [op |-> "Srai", rd |-> rd, rs1 |-> rs1, shamt |-> rs2] \in Rv!Instr
      BY <1>0, <1>1, <1>2, <1>7, <1>10, RvShift
    <3> QED BY <3>1, <3>2
  <2>4. ASSUME f3 = 5 /\ f7 \notin {0, 32} PROVE Rv!DecodeAluImmediate(raw) \in Rv!Instr
    <3>1. Rv!DecodeAluImmediate(raw) = [op |-> "Unknown", raw |-> raw]
      BY <2>4, RvWords, SMT DEF Rv!DecodeAluImmediate, Rv!Unknown
    <3> HIDE DEF op, f3, f7, rd, rs1, rs2, immI, immS, immB, immJ
    <3>2. [op |-> "Unknown", raw |-> raw] \in Rv!Instr
      BY <1>0, <1>1, <1>2, <1>7, <1>10, RvPlain
    <3> QED BY <3>1, <3>2
  <2>5. ASSUME f3 \notin {1, 5} PROVE Rv!DecodeAluImmediate(raw) \in Rv!Instr
    <3>1. Rv!DecodeAluImmediate(raw) = [op |-> Rv!ImmediateOp[f3], rd |-> rd, rs1 |-> rs1, imm |-> immI]
      BY <2>5, RvWords, SMT DEF Rv!DecodeAluImmediate, Rv!Unknown
    <3> HIDE DEF op, f3, f7, rd, rs1, rs2, immI, immS, immB, immJ
    <3>2. Rv!ImmediateOp[f3] \in {"Addi", "Slti", "Sltiu", "Xori", "Ori", "Andi"}
      BY <2>5, <1>2, RvTables DEF Rv!ImmediateOp
    <3>3. [op |-> Rv!ImmediateOp[f3], rd |-> rd, rs1 |-> rs1, imm |-> immI] \in Rv!Instr
      BY <1>0, <1>1, <1>2, <1>7, <1>10, <3>2, RvImmediate
    <3> QED BY <3>1, <3>3
  <2> QED BY <2>1, <2>2, <2>3, <2>4, <2>5
<1>20. ASSUME op = \h37 PROVE Rv!DecodeRiscv(raw) \in Rv!Instr
  <2>1. Rv!DecodeRiscv(raw) = [op |-> "Lui", rd |-> rd, imm |-> raw \cap (12 .. 31)]
    BY <1>20, RvWords, SMT DEF Rv!DecodeRiscv, Rv!Unknown
  <2> HIDE DEF op, f3, f7, rd, rs1, rs2, immI, immS, immB, immJ
  <2>2. [op |-> "Lui", rd |-> rd, imm |-> raw \cap (12 .. 31)] \in Rv!Instr
    BY <1>0, <1>1, <1>2, <1>7, <1>10, RvUpper
  <2> QED BY <2>1, <2>2
<1>21. ASSUME op = \h17 PROVE Rv!DecodeRiscv(raw) \in Rv!Instr
  <2>1. Rv!DecodeRiscv(raw) = [op |-> "Auipc", rd |-> rd, imm |-> raw \cap (12 .. 31)]
    BY <1>21, RvWords, SMTT(40) DEF Rv!DecodeRiscv, Rv!Unknown
  <2> HIDE DEF op, f3, f7, rd, rs1, rs2, immI, immS, immB, immJ
  <2>2. [op |-> "Auipc", rd |-> rd, imm |-> raw \cap (12 .. 31)] \in Rv!Instr
    BY <1>0, <1>1, <1>2, <1>7, <1>10, RvUpper
  <2> QED BY <2>1, <2>2
<1>22. ASSUME op = \h6F PROVE Rv!DecodeRiscv(raw) \in Rv!Instr
  <2>1. Rv!DecodeRiscv(raw) = [op |-> "Jal", rd |-> rd, imm |-> immJ]
    BY <1>22, RvWords, SMT DEF Rv!DecodeRiscv, Rv!Unknown
  <2> HIDE DEF op, f3, f7, rd, rs1, rs2, immI, immS, immB, immJ
  <2>2. [op |-> "Jal", rd |-> rd, imm |-> immJ] \in Rv!Instr
    BY <1>0, <1>1, <1>2, <1>7, <1>10, RvJal
  <2> QED BY <2>1, <2>2
<1>23. ASSUME op = \h67 PROVE Rv!DecodeRiscv(raw) \in Rv!Instr
  <2>1. Rv!DecodeRiscv(raw) = [op |-> "Jalr", rd |-> rd, rs1 |-> rs1, imm |-> immI]
    BY <1>23, RvWords, SMT DEF Rv!DecodeRiscv, Rv!Unknown
  <2> HIDE DEF op, f3, f7, rd, rs1, rs2, immI, immS, immB, immJ
  <2>2. [op |-> "Jalr", rd |-> rd, rs1 |-> rs1, imm |-> immI] \in Rv!Instr
    BY <1>0, <1>1, <1>2, <1>7, <1>10, RvImmediate
  <2> QED BY <2>1, <2>2
<1>24. ASSUME op = \h63 /\ f3 \in DOMAIN Rv!BranchOp PROVE Rv!DecodeRiscv(raw) \in Rv!Instr
  <2>1. Rv!DecodeRiscv(raw) = [op |-> Rv!BranchOp[f3], rs1 |-> rs1, rs2 |-> rs2, imm |-> immB]
    BY <1>24, RvWords, SMT DEF Rv!DecodeRiscv, Rv!Unknown
  <2> HIDE DEF op, f3, f7, rd, rs1, rs2, immI, immS, immB, immJ
  <2>2. Rv!BranchOp[f3] \in {"Beq", "Bne", "Blt", "Bge", "Bltu", "Bgeu"}
    BY <1>24, <1>2, RvTables
  <2>3. [op |-> Rv!BranchOp[f3], rs1 |-> rs1, rs2 |-> rs2, imm |-> immB] \in Rv!Instr
    BY <1>0, <1>1, <1>2, <1>7, <1>10, <2>2, RvBranch
  <2> QED BY <2>1, <2>3
<1>25. ASSUME op = \h03 /\ f3 \in DOMAIN Rv!LoadOp PROVE Rv!DecodeRiscv(raw) \in Rv!Instr
  <2>1. Rv!DecodeRiscv(raw) = [op |-> Rv!LoadOp[f3], rd |-> rd, rs1 |-> rs1, imm |-> immI]
    BY <1>25, RvWords, SMT DEF Rv!DecodeRiscv, Rv!Unknown
  <2> HIDE DEF op, f3, f7, rd, rs1, rs2, immI, immS, immB, immJ
  <2>2. Rv!LoadOp[f3] \in {"Lb", "Lh", "Lw", "Lbu", "Lhu"}
    BY <1>25, <1>2, RvTables
  <2>3. [op |-> Rv!LoadOp[f3], rd |-> rd, rs1 |-> rs1, imm |-> immI] \in Rv!Instr
    BY <1>0, <1>1, <1>2, <1>7, <1>10, <2>2, RvImmediate
  <2> QED BY <2>1, <2>3
<1>26. ASSUME op = \h23 /\ f3 \in DOMAIN Rv!StoreOp PROVE Rv!DecodeRiscv(raw) \in Rv!Instr
  <2>1. Rv!DecodeRiscv(raw) = [op |-> Rv!StoreOp[f3], rs1 |-> rs1, rs2 |-> rs2, imm |-> immS]
    BY <1>26, RvWords, SMT DEF Rv!DecodeRiscv, Rv!Unknown
  <2> HIDE DEF op, f3, f7, rd, rs1, rs2, immI, immS, immB, immJ
  <2>2. Rv!StoreOp[f3] \in {"Sb", "Sh", "Sw"}
    BY <1>26, <1>2, RvTables
  <2>3. [op |-> Rv!StoreOp[f3], rs1 |-> rs1, rs2 |-> rs2, imm |-> immS] \in Rv!Instr
    BY <1>0, <1>1, <1>2, <1>7, <1>10, <2>2, RvStore
  <2> QED BY <2>1, <2>3
<1>28. ASSUME op = \h33 /\ f7 = 0 PROVE Rv!DecodeRiscv(raw) \in Rv!Instr
  <2>1. Rv!DecodeRiscv(raw) = [op |-> Rv!RegisterOp[f3], rd |-> rd, rs1 |-> rs1, rs2 |-> rs2]
    BY <1>28, RvWords, SMT DEF Rv!DecodeRiscv, Rv!Unknown
  <2> HIDE DEF op, f3, f7, rd, rs1, rs2, immI, immS, immB, immJ
  <2>2. Rv!RegisterOp[f3] \in {"Add", "Sll", "Slt", "Sltu", "Xor", "Srl", "Or", "And"}
    BY <1>28, <1>2, RvTables
  <2>3. [op |-> Rv!RegisterOp[f3], rd |-> rd, rs1 |-> rs1, rs2 |-> rs2] \in Rv!Instr
    BY <1>0, <1>1, <1>2, <1>7, <1>10, <2>2, RvRegister
  <2> QED BY <2>1, <2>3
<1>29. ASSUME op = \h33 /\ f7 = 32 /\ f3 \in DOMAIN Rv!RegisterOp32 PROVE Rv!DecodeRiscv(raw) \in Rv!Instr
  <2>1. Rv!DecodeRiscv(raw) = [op |-> Rv!RegisterOp32[f3], rd |-> rd, rs1 |-> rs1, rs2 |-> rs2]
    BY <1>29, RvWords, SMT DEF Rv!DecodeRiscv, Rv!Unknown
  <2> HIDE DEF op, f3, f7, rd, rs1, rs2, immI, immS, immB, immJ
  <2>2. Rv!RegisterOp32[f3] \in {"Sub", "Sra"}
    BY <1>29, <1>2, RvTables
  <2>3. [op |-> Rv!RegisterOp32[f3], rd |-> rd, rs1 |-> rs1, rs2 |-> rs2] \in Rv!Instr
    BY <1>0, <1>1, <1>2, <1>7, <1>10, <2>2, RvRegister
  <2> QED BY <2>1, <2>3
<1>30. ASSUME op = \h73 /\ Field(raw, 20, 12) = 0 PROVE Rv!DecodeRiscv(raw) \in Rv!Instr
  <2>1. Rv!DecodeRiscv(raw) = [op |-> "Ecall"]
    BY <1>30, RvWords, SMT DEF Rv!DecodeRiscv, Rv!Unknown
  <2> HIDE DEF op, f3, f7, rd, rs1, rs2, immI, immS, immB, immJ
  <2>2. [op |-> "Ecall"] \in Rv!Instr
    BY <1>0, <1>1, <1>2, <1>7, <1>10, RvPlain
  <2> QED BY <2>1, <2>2
<1>31. ASSUME op = \h73 /\ Field(raw, 20, 12) = 1 PROVE Rv!DecodeRiscv(raw) \in Rv!Instr
  <2>1. Rv!DecodeRiscv(raw) = [op |-> "Ebreak"]
    BY <1>31, RvWords, SMT DEF Rv!DecodeRiscv, Rv!Unknown
  <2> HIDE DEF op, f3, f7, rd, rs1, rs2, immI, immS, immB, immJ
  <2>2. [op |-> "Ebreak"] \in Rv!Instr
    BY <1>0, <1>1, <1>2, <1>7, <1>10, RvPlain
  <2> QED BY <2>1, <2>2
<1>27. ASSUME op = \h13 PROVE Rv!DecodeRiscv(raw) \in Rv!Instr
  <2>1. Rv!DecodeRiscv(raw) = Rv!DecodeAluImmediate(raw)
    BY <1>27, RvWords, SMT DEF Rv!DecodeRiscv, Rv!Unknown
  <2> HIDE DEF op, f3, f7, rd, rs1, rs2, immI, immS, immB, immJ
  <2> QED BY <1>6, <2>1
<1>32. ASSUME /\ op \notin {\h37, \h17, \h6F, \h67, \h13}
               /\ ~(op = \h63 /\ f3 \in DOMAIN Rv!BranchOp)
               /\ ~(op = \h03 /\ f3 \in DOMAIN Rv!LoadOp)
               /\ ~(op = \h23 /\ f3 \in DOMAIN Rv!StoreOp)
               /\ ~(op = \h33 /\ f7 = 0)
               /\ ~(op = \h33 /\ f7 = 32 /\ f3 \in DOMAIN Rv!RegisterOp32)
               /\ ~(op = \h73 /\ Field(raw, 20, 12) = 0)
               /\ ~(op = \h73 /\ Field(raw, 20, 12) = 1) PROVE Rv!DecodeRiscv(raw) \in Rv!Instr
  <2>1. Rv!DecodeRiscv(raw) = [op |-> "Unknown", raw |-> raw]
    BY <1>32, RvWords, SMT DEF Rv!DecodeRiscv, Rv!Unknown
  <2> HIDE DEF op, f3, f7, rd, rs1, rs2, immI, immS, immB, immJ
  <2> QED BY <1>7, <2>1
<1> QED BY <1>20, <1>21, <1>22, <1>23, <1>24, <1>25, <1>26, <1>27, <1>28, <1>29, <1>30, <1>31, <1>32, SMT

-----------------------------------------------------------------------------
(* The memory an instruction loads from and stores to.                     *)

\* What every machine has, whatever its processor.
HasMemory(s) ==
  /\ s.mem \in [Cells -> Byte]
  /\ s.mapped \in SUBSET Regions

\* Where an access succeeds there are cells for all its bytes.
LEMMA ReachableCells ==
  ASSUME NEW s, HasMemory(s), NEW a \in Word, NEW n \in {1, 2, 4}, Reachable(s, a, n)
  PROVE  \A k \in 0 .. n - 1 : a + k \in Cells
<1> SUFFICES ASSUME NEW k \in 0 .. n - 1 PROVE a + k \in Cells
  OBVIOUS
<1>1. PICK R \in s.mapped : a \in R /\ a + n - 1 \in R
  BY DEF Reachable
<1>2. R \in Regions
  BY <1>1 DEF HasMemory
<1>3. a \in Int /\ n \in Nat /\ k \in Int
  BY WordType
<1>4. a + k \in a .. a + n - 1
  BY <1>3
<1>5. a .. a + n - 1 \subseteq R
  BY <1>1, <1>2, RegionsAssumption
<1> QED BY <1>2, <1>4, <1>5 DEF Cells

\* A load of n bytes gives a number of n bytes, which is a word.
LEMMA LoadedType ==
  ASSUME NEW s, HasMemory(s), NEW a \in Word, NEW n \in {1, 2, 4}, Reachable(s, a, n)
  PROVE  Loaded(s, a, n) \in 0 .. Span(n) - 1 /\ Loaded(s, a, n) \in Word
<1> DEFINE b == [k \in 0 .. n - 1 |-> s.mem[a + k]]
<1>1. \A k \in 0 .. n - 1 : b[k] \in Byte
  BY ReachableCells DEF HasMemory
<1>2. n \in Nat
  OBVIOUS
<1> HIDE DEF b
<1>3. OfBytes(b, n) \in 0 .. Span(n) - 1
  BY <1>1, <1>2, OfBytesRange
<1>4. Loaded(s, a, n) \in 0 .. Span(n) - 1
  BY <1>3 DEF Loaded, b
<1>5. Span(n) <= Span(4) /\ Span(n) \in Nat /\ Span(4) \in Nat
  BY SpanGrows, Spans
<1>6. Loaded(s, a, n) \in Word
  BY <1>4, <1>5 DEF Word, M
<1> QED BY <1>4, <1>6

\* A store leaves bytes in the memory.
LEMMA FilledType ==
  ASSUME NEW mem \in [Cells -> Byte], NEW a, NEW n \in Nat, NEW v \in Int
  PROVE  Filled(mem, a, n, v) \in [Cells -> Byte]
<1> SUFFICES ASSUME NEW c \in Cells
             PROVE  (IF c - a \in 0 .. n - 1 THEN ByteAt(v, c - a) ELSE mem[c]) \in Byte
  BY DEF Filled
<1>1. CASE c - a \in 0 .. n - 1
  <2>1. c - a \in Nat
    BY <1>1
  <2> QED BY <1>1, <2>1, ByteAtType
<1> QED BY <1>1

-----------------------------------------------------------------------------
(* The RV32I machine.                                                      *)

\* A machine whose registers and PC hold words.
RvMachine ==
  [mem : [Cells -> Byte], mapped : SUBSET Regions, handles : BOOLEAN, err : Errors,
   regs : [Rv!Register -> Word], pc : Word]

\* A store keeps the machine, whether it succeeds or not.
LEMMA RvStored ==
  ASSUME NEW s \in RvMachine, NEW a, NEW n \in Nat, NEW v \in Int
  PROVE  Stored(s, a, n, v) \in RvMachine
<1>1. Filled(s.mem, a, n, v) \in [Cells -> Byte] /\ Filled(s.mem, a, 1, v) \in [Cells -> Byte]
  BY FilledType DEF RvMachine
<1>2. [s EXCEPT !.mem = Filled(s.mem, a, n, v)] \in RvMachine
  BY <1>1 DEF RvMachine
<1>3. [[s EXCEPT !.mem = Filled(s.mem, a, 1, v)] EXCEPT !.err = "fault"] \in RvMachine
  BY <1>1 DEF RvMachine, Errors
<1>4. [s EXCEPT !.err = "fault"] \in RvMachine
  BY DEF RvMachine, Errors
<1> QED BY <1>2, <1>3, <1>4 DEF Stored, Fails

\* A machine that reports an error is a machine.
LEMMA RvFails ==
  ASSUME NEW s \in RvMachine, NEW e \in Errors
  PROVE  Fails(s, e) \in RvMachine
BY DEF Fails, RvMachine

\* Writing a register keeps the machine.
LEMMA RvWriteReg ==
  ASSUME NEW s \in RvMachine, NEW r \in Rv!Register, NEW v \in Word
  PROVE  Rv!WriteReg(s, r, v) \in RvMachine
BY DEF Rv!WriteReg, RvMachine

\* Setting the PC keeps the machine.
LEMMA RvJump ==
  ASSUME NEW s \in RvMachine, NEW v \in Word
  PROVE  [s EXCEPT !.pc = v] \in RvMachine
BY DEF RvMachine

\* What the parts of a machine are.
LEMMA RvSet ==
  ASSUME NEW s \in RvMachine
  PROVE  HasMemory(s) /\ s.handles \in BOOLEAN /\ s.err \in Errors
         /\ s.pc \in Word /\ \A r \in Rv!Register : s.regs[r] \in Word
BY DEF RvMachine, HasMemory

\* What an instruction's name says of its fields.
LEMMA RvFields ==
  ASSUME NEW i \in Rv!Instr
  PROVE  /\ i.op \in {"Lui", "Auipc"} => i.rd \in Rv!Register /\ i.imm \in SUBSET (12 .. 31)
         /\ i.op = "Jal" => i.rd \in Rv!Register /\ i.imm \in TwosComplement(21)
         /\ i.op \in {"Beq", "Bne", "Blt", "Bge", "Bltu", "Bgeu"} =>
               i.rs1 \in Rv!Register /\ i.rs2 \in Rv!Register /\ i.imm \in TwosComplement(13)
         /\ i.op \in {"Jalr", "Lb", "Lh", "Lw", "Lbu", "Lhu",
                      "Addi", "Slti", "Sltiu", "Xori", "Ori", "Andi"} =>
               i.rd \in Rv!Register /\ i.rs1 \in Rv!Register /\ i.imm \in TwosComplement(12)
         /\ i.op \in {"Sb", "Sh", "Sw"} =>
               i.rs1 \in Rv!Register /\ i.rs2 \in Rv!Register /\ i.imm \in TwosComplement(12)
         /\ i.op \in {"Slli", "Srli", "Srai"} =>
               i.rd \in Rv!Register /\ i.rs1 \in Rv!Register /\ i.shamt \in 0 .. 31
         /\ i.op \in {"Add", "Sub", "Sll", "Slt", "Sltu", "Xor", "Srl", "Sra", "Or", "And"} =>
               i.rd \in Rv!Register /\ i.rs1 \in Rv!Register /\ i.rs2 \in Rv!Register
         /\ i.op \in {"Lui", "Auipc", "Jal", "Beq", "Bne", "Blt", "Bge", "Bltu", "Bgeu",
                      "Jalr", "Lb", "Lh", "Lw", "Lbu", "Lhu",
                      "Addi", "Slti", "Sltiu", "Xori", "Ori", "Andi", "Sb", "Sh", "Sw",
                      "Slli", "Srli", "Srai",
                      "Add", "Sub", "Sll", "Slt", "Sltu", "Xor", "Srl", "Sra", "Or", "And",
                      "Ecall", "Ebreak", "Unknown"}
BY RvTwosComplement DEF Rv!Instr

\* Numbers in two's complement are integers.
LEMMA TwosComplementInt ==
  \A n \in Nat \ {0} : TwosComplement(n) \subseteq Int
BY DEF TwosComplement

\* Sums and differences with words, taken modulo M, are words again.
LEMMA WordArithmetic ==
  /\ Word \subseteq Nat /\ Word \subseteq Int
  /\ \A x \in Word, y \in Int : /\ x + y \in Int /\ (x + y) % M \in Word
                                 /\ x - y \in Int /\ (x - y) % M \in Word
  /\ \A x \in Word, n \in Nat \ {0} : x \div n \in Nat /\ x % n \in Nat
<1>1. Word \subseteq Nat /\ \A x \in Int : x % M \in Word
  BY WordType
<1>2. Word \subseteq Int
  BY <1>1
<1>3. ASSUME NEW x \in Word, NEW y \in Int
      PROVE  x + y \in Int /\ (x + y) % M \in Word /\ x - y \in Int /\ (x - y) % M \in Word
  <2>1. x + y \in Int /\ x - y \in Int
    BY <1>2
  <2> QED BY <1>1, <2>1
<1>4. ASSUME NEW x \in Word, NEW n \in Nat \ {0} PROVE x \div n \in Nat /\ x % n \in Nat
  <2>1. x \in Nat
    BY <1>1
  <2> QED BY <2>1
<1> QED BY <1>1, <1>2, <1>3, <1>4

\* The part of RvWords that arithmetic needs.
LEMMA RvModulus == Rv!M = M /\ Rv!Position = Position /\ Rv!ValueOf = ValueOf
BY RvWords

\* The names in each of the decoder's tables, as sets.
LEMMA RvGroups ==
  /\ {Rv!BranchOp[f] : f \in DOMAIN Rv!BranchOp} = {"Beq", "Bne", "Blt", "Bge", "Bltu", "Bgeu"}
  /\ {Rv!ImmediateOp[f] : f \in DOMAIN Rv!ImmediateOp}
        = {"Addi", "Slti", "Sltiu", "Xori", "Ori", "Andi"}
  /\ {Rv!RegisterOp[f] : f \in 0 .. 7} \cup {"Sub", "Sra"}
        = {"Add", "Sub", "Sll", "Slt", "Sltu", "Xor", "Srl", "Sra", "Or", "And"}
<1>1. {Rv!BranchOp[f] : f \in DOMAIN Rv!BranchOp} = {"Beq", "Bne", "Blt", "Bge", "Bltu", "Bgeu"}
  BY DEF Rv!BranchOp
<1>2. {Rv!ImmediateOp[f] : f \in DOMAIN Rv!ImmediateOp}
        = {"Addi", "Slti", "Sltiu", "Xori", "Ori", "Andi"}
  BY DEF Rv!ImmediateOp
<1>3. {Rv!RegisterOp[f] : f \in 0 .. 7} \cup {"Sub", "Sra"}
        = {"Add", "Sub", "Sll", "Slt", "Sltu", "Xor", "Srl", "Sra", "Or", "And"}
  BY DEF Rv!RegisterOp
<1> QED BY <1>1, <1>2, <1>3

\* The operations of the ALU give words.
LEMMA RvAlu ==
  ASSUME NEW a \in Word, NEW b \in Nat, NEW op
  PROVE  /\ op \in {"Add", "Addi", "Slt", "Slti", "Sltu", "Sltiu", "Xor", "Xori",
                    "Or", "Ori", "And", "Andi"} /\ b \in Word
               => Rv!AluImmediate(op, a, b) \in Word
         /\ op \in {"Add", "Sub", "Sll", "Slt", "Sltu", "Xor", "Srl", "Sra", "Or", "And"}
               /\ b \in Word => Rv!AluRegister(op, a, b) \in Word
         /\ op \in {"Slli", "Srli", "Srai"} => Rv!AluRegister(op, a, b) \in Word
<1>1. a \in Int /\ b \in Int /\ a + b \in Int /\ a - b \in Int
  BY WordType
<1>2. (a + b) % M \in Word /\ (a - b) % M \in Word
  BY <1>1, WordType
<1>3. b \in Word => And(a, b) \in Word /\ Or(a, b) \in Word /\ Xor(a, b) \in Word
  BY BitwiseType
<1>4. b % Width \in Nat
  BY <1>1, Spans, Remainder
<1>5. /\ ShiftedLeft(a, b % Width) \in Word /\ ShiftedRight(a, b % Width) \in Word
      /\ ArithmeticRight(a, b % Width) \in Word
  BY <1>4, ShiftType
<1>6. (IF Rv!Less(a, b) THEN 1 ELSE 0) \in Word /\ (IF a < b THEN 1 ELSE 0) \in Word
  BY WordType
<1> DEFINE less == IF Rv!Less(a, b) THEN 1 ELSE 0
           below == IF a < b THEN 1 ELSE 0
           sum == (a + b) % M
           difference == (a - b) % M
           left == ShiftedLeft(a, b % Width)   right == ShiftedRight(a, b % Width)
           signed == ArithmeticRight(a, b % Width)
<1>7. Rv!AluImmediate(op, a, b) =
        CASE op \in {"Add", "Addi"} -> sum
          [] op \in {"Slt", "Slti"} -> less
          [] op \in {"Sltu", "Sltiu"} -> below
          [] op \in {"Xor", "Xori"} -> Xor(a, b)
          [] op \in {"Or", "Ori"} -> Or(a, b)
          [] op \in {"And", "Andi"} -> And(a, b)
  BY RvWords DEF Rv!AluImmediate
<1>8. Rv!AluRegister(op, a, b) =
        CASE op = "Sub" -> difference
          [] op \in {"Sll", "Slli"} -> left
          [] op \in {"Srl", "Srli"} -> right
          [] op \in {"Sra", "Srai"} -> signed
          [] OTHER -> Rv!AluImmediate(op, a, b)
  BY RvWords DEF Rv!AluRegister
<1> HIDE DEF less, below, sum, difference, left, right, signed
<1>9. sum \in Word /\ less \in Word /\ below \in Word /\ difference \in Word
      /\ left \in Word /\ right \in Word /\ signed \in Word
  BY <1>2, <1>5, <1>6 DEF less, below, sum, difference, left, right, signed
<1>10. op \in {"Add", "Addi", "Slt", "Slti", "Sltu", "Sltiu", "Xor", "Xori",
               "Or", "Ori", "And", "Andi"} /\ b \in Word
               => Rv!AluImmediate(op, a, b) \in Word
  BY <1>3, <1>7, <1>9
<1> QED BY <1>8, <1>9, <1>10

\* An instruction leaves a machine of the same type, whatever it did.
LEMMA RvExecutes ==
  ASSUME NEW s \in RvMachine, NEW i \in Rv!Instr
  PROVE  Rv!ExecuteRiscv(s, i) \in RvMachine
<1> DEFINE current == (s.pc - 4) % M
           a == s.regs[i.rs1]
           upper == ValueOf[i.imm \cap Position]
<1>1. current \in Word /\ s.pc \in Word /\ s.pc \in Int /\ current \in Int
  <2>1. s.pc \in Word /\ s.pc \in Int
    BY RvSet, WordArithmetic
  <2>2. s.pc - 4 \in Int
    BY <2>1
  <2>3. current \in Word
    BY <2>2, WordType
  <2> HIDE DEF current
  <2> QED BY <2>1, <2>3, WordArithmetic
<1>2. \A x \in Int : x % M \in Word
  BY WordType
<1>3. \A e \in Errors : Fails(s, e) \in RvMachine
  BY RvFails
<1>4. \A x \in Word, y \in Int : x + y \in Int /\ (x + y) % M \in Word
  BY WordType
<1> HIDE DEF current
<1>5. ASSUME i.op \in {"Lui", "Auipc"} PROVE Rv!ExecuteRiscv(s, i) \in RvMachine
  <2>1. i.rd \in Rv!Register /\ upper \in Word
    <3>1. i.rd \in Rv!Register /\ i.imm \cap Position \in SUBSET Position
      BY <1>5, RvFields
    <3> QED BY <3>1, ValueOfType
  <2>2. (current + upper) % M \in Word
    BY <1>1, <2>1, WordArithmetic
  <2>3. /\ Rv!WriteReg(s, i.rd, upper) \in RvMachine
        /\ Rv!WriteReg(s, i.rd, (current + upper) % M) \in RvMachine
    BY <2>1, <2>2, RvWriteReg
  <2>4. Rv!ExecuteRiscv(s, i) = IF i.op = "Lui" THEN Rv!WriteReg(s, i.rd, upper)
                                ELSE Rv!WriteReg(s, i.rd, (current + upper) % M)
    <3>1. CASE i.op = "Lui"
      <4>1. Rv!ExecuteRiscv(s, i) = Rv!WriteReg(s, i.rd, Rv!ValueOf[i.imm \cap Rv!Position])
        BY <3>1, RvGroups, ZenonT(60) DEF Rv!ExecuteRiscv
      <4> QED BY <3>1, <4>1, RvModulus
    <3>2. CASE i.op = "Auipc"
      <4>1. Rv!ExecuteRiscv(s, i)
              = Rv!WriteReg(s, i.rd, (((s.pc - 4) % Rv!M) + Rv!ValueOf[i.imm \cap Rv!Position]) % Rv!M)
        BY <3>2, RvGroups, ZenonT(60) DEF Rv!ExecuteRiscv
      <4> QED BY <3>2, <4>1, RvModulus DEF current
    <3> QED BY <1>5, <3>1, <3>2
  <2> QED BY <2>3, <2>4
<1>6. ASSUME i.op = "Jal" PROVE Rv!ExecuteRiscv(s, i) \in RvMachine
  <2> DEFINE t == Rv!WriteReg(s, i.rd, s.pc)
  <2>1. Rv!ExecuteRiscv(s, i) = [t EXCEPT !.pc = (current + i.imm) % M]
    BY <1>6, RvGroups, RvModulus, SMT DEF Rv!ExecuteRiscv, current
  <2>2. i.rd \in Rv!Register /\ i.imm \in Int
    BY <1>6, RvFields, TwosComplementInt
  <2>3. t \in RvMachine
    BY <1>1, <2>2, RvWriteReg
  <2> HIDE DEF t
  <2> QED BY <1>1, <1>4, <2>1, <2>2, <2>3, RvJump
<1>7. ASSUME i.op = "Jalr" PROVE Rv!ExecuteRiscv(s, i) \in RvMachine
  <2> DEFINE t == Rv!WriteReg(s, i.rd, s.pc)
             target == (a + i.imm) % M
  <2>1. Rv!ExecuteRiscv(s, i) = [t EXCEPT !.pc = (target - (target % 2)) % M]
    BY <1>7, RvGroups, RvWords, SMT DEF Rv!ExecuteRiscv
  <2>2. i.rd \in Rv!Register /\ i.imm \in Int /\ a \in Word
    BY <1>7, RvFields, TwosComplementInt, RvSet
  <2>3. t \in RvMachine
    BY <1>1, <2>2, RvWriteReg
  <2>4. target \in Word
    BY <1>4, <2>2
  <2> HIDE DEF t, target, a
  <2>5. (target - (target % 2)) % M \in Word
    BY <2>4, WordType
  <2> QED BY <2>1, <2>3, <2>5, RvJump
<1>8. ASSUME i.op \in {"Beq", "Bne", "Blt", "Bge", "Bltu", "Bgeu"}
      PROVE  Rv!ExecuteRiscv(s, i) \in RvMachine
  <2>2. Rv!ExecuteRiscv(s, i) = IF Rv!Taken(i.op, a, s.regs[i.rs2])
                                THEN [s EXCEPT !.pc = (current + i.imm) % M] ELSE s
    <3>1. i.op \notin {"Lui", "Auipc", "Jal", "Jalr"}
      BY <1>8
    <3>2. Rv!ExecuteRiscv(s, i) = IF Rv!Taken(i.op, a, s.regs[i.rs2])
             THEN [s EXCEPT !.pc = (((s.pc - 4) % Rv!M) + i.imm) % Rv!M] ELSE s
      BY <1>8, <3>1, RvGroups, Zenon DEF Rv!ExecuteRiscv
    <3> QED BY <3>2, RvModulus DEF current
  <2>3. i.imm \in Int
    BY <1>8, RvFields, TwosComplementInt
  <2> QED BY <1>1, <1>4, <2>2, <2>3, RvJump
<1>9. ASSUME i.op \in {"Lb", "Lh", "Lw", "Lbu", "Lhu"} PROVE Rv!ExecuteRiscv(s, i) \in RvMachine
  <2> DEFINE n == Rv!Size(i.op)
             at == (a + i.imm) % M
             val == Loaded(s, at, n)
             v == IF i.op \in {"Lb", "Lh"} THEN SignExtended(val, n) ELSE val
  <2>2. Rv!ExecuteRiscv(s, i) = IF ~Reachable(s, at, n) THEN Fails(s, "fault")
                                ELSE Rv!WriteReg(s, i.rd, v)
    <3>1. Rv!ExecuteRiscv(s, i) = Rv!LoadTo(s, i, at)
      BY <1>9, RvGroups, RvModulus, SMT DEF Rv!ExecuteRiscv
    <3> QED BY <3>1, RvWords, RvMemory DEF Rv!LoadTo
  <2>3. i.rd \in Rv!Register /\ i.imm \in Int /\ a \in Word
    BY <1>9, RvFields, TwosComplementInt, RvSet
  <2>4. n \in {1, 2, 4} /\ at \in Word
    BY <1>4, <1>9, <2>3 DEF Rv!Size
  <2> HIDE DEF n, at
  <2>5. CASE Reachable(s, at, n)
    <3>1. val \in Word
      BY <2>4, <2>5, LoadedType, RvSet
    <3>2. SignExtended(val, n) \in Word
      BY <2>4, <3>1, NarrowType, WordArithmetic
    <3>3. v \in Word
      BY <3>1, <3>2
    <3> QED BY <2>2, <2>3, <2>5, <3>3, RvWriteReg
  <2>6. CASE ~Reachable(s, at, n)
    BY <1>3, <2>2, <2>6 DEF Errors
  <2> QED BY <2>5, <2>6
<1>10. ASSUME i.op \in {"Sb", "Sh", "Sw"} PROVE Rv!ExecuteRiscv(s, i) \in RvMachine
  <2> DEFINE n == Rv!Size(i.op)
             at == (a + i.imm) % M
  <2>2. Rv!ExecuteRiscv(s, i) = Stored(s, at, n, s.regs[i.rs2] % Span(n))
    <3>1. Rv!ExecuteRiscv(s, i) = Rv!StoreFrom(s, i, at)
      BY <1>10, RvGroups, RvModulus, SMT DEF Rv!ExecuteRiscv
    <3> QED BY <3>1, RvWords, RvMemory DEF Rv!StoreFrom
  <2>3. n \in {1, 2, 4} /\ s.regs[i.rs2] \in Word
    BY <1>10, RvFields, RvSet DEF Rv!Size
  <2>4. n \in Nat /\ s.regs[i.rs2] % Span(n) \in Int
    <3>1. s.regs[i.rs2] \in Int
      BY <2>3, WordArithmetic
    <3>2. s.regs[i.rs2] % Span(n) \in Word
      BY <2>3, <3>1, NarrowType
    <3>3. s.regs[i.rs2] % Span(n) \in Int
      BY <3>2, WordArithmetic
    <3>4. n \in Nat
      BY <2>3
    <3> QED BY <3>3, <3>4
  <2> QED BY <2>2, <2>4, RvStored
<1>11. ASSUME i.op \in {"Addi", "Slti", "Sltiu", "Xori", "Ori", "Andi"}
       PROVE  Rv!ExecuteRiscv(s, i) \in RvMachine
  <2>3. Rv!ExecuteRiscv(s, i) = Rv!WriteReg(s, i.rd, Rv!AluImmediate(i.op, a, i.imm % M))
    <3>1. i.op \notin {"Lui", "Auipc", "Jal", "Jalr", "Beq", "Bne", "Blt", "Bge", "Bltu", "Bgeu",
                       "Lb", "Lh", "Lw", "Lbu", "Lhu", "Sb", "Sh", "Sw"}
      BY <1>11
    <3>2. Rv!ExecuteRiscv(s, i) = Rv!WriteReg(s, i.rd, Rv!AluImmediate(i.op, a, i.imm % Rv!M))
      BY <1>11, <3>1, RvGroups, ZenonT(60) DEF Rv!ExecuteRiscv
    <3> QED BY <3>2, RvModulus
  <2>4. i.rd \in Rv!Register /\ i.imm \in Int /\ a \in Word
    BY <1>11, RvFields, TwosComplementInt, RvSet
  <2>5. i.imm % M \in Word
    BY <1>2, <2>4
  <2>6. Rv!AluImmediate(i.op, a, i.imm % M) \in Word
    BY <1>11, <2>4, <2>5, RvAlu, WordArithmetic
  <2> QED BY <2>3, <2>4, <2>6, RvWriteReg
<1>12. ASSUME i.op \in {"Slli", "Srli", "Srai"} PROVE Rv!ExecuteRiscv(s, i) \in RvMachine
  <2>3. Rv!ExecuteRiscv(s, i) = Rv!WriteReg(s, i.rd, Rv!AluRegister(i.op, a, i.shamt))
    BY <1>12, RvGroups, RvWords, SMT DEF Rv!ExecuteRiscv
  <2>4. i.rd \in Rv!Register /\ a \in Word
    BY <1>12, RvFields, RvSet
  <2>5. Rv!AluRegister(i.op, a, i.shamt) \in Word
    <3>1. i.shamt \in Nat
      BY <1>12, RvFields
    <3> QED BY <1>12, <2>4, <3>1, RvAlu
  <2> QED BY <2>3, <2>4, <2>5, RvWriteReg
<1>13. ASSUME i.op \in {"Add", "Sub", "Sll", "Slt", "Sltu", "Xor", "Srl", "Sra", "Or", "And"}
       PROVE  Rv!ExecuteRiscv(s, i) \in RvMachine
  <2>4. Rv!ExecuteRiscv(s, i) = Rv!WriteReg(s, i.rd, Rv!AluRegister(i.op, a, s.regs[i.rs2]))
    BY <1>13, RvGroups, RvWords, SMT DEF Rv!ExecuteRiscv
  <2>5. i.rd \in Rv!Register /\ a \in Word /\ s.regs[i.rs2] \in Word
    BY <1>13, RvFields, RvSet
  <2>6. Rv!AluRegister(i.op, a, s.regs[i.rs2]) \in Word
    BY <1>13, <2>5, RvAlu, WordArithmetic
  <2> QED BY <2>4, <2>5, <2>6, RvWriteReg
<1>14. ASSUME i.op \in {"Ecall", "Ebreak", "Unknown"} PROVE Rv!ExecuteRiscv(s, i) \in RvMachine
  <2>4. \E e \in Errors : Rv!ExecuteRiscv(s, i) \in {s, Fails(s, e)}
    <3>1. Rv!ExecuteRiscv(s, i)
            \in {s, Fails(s, "not_implemented"), Fails(s, "breakpoint"), Fails(s, "invalid")}
      BY <1>14, RvGroups, RvWords, RvMemory, SMT DEF Rv!ExecuteRiscv
    <3> QED BY <3>1 DEF Errors
  <2> QED BY <1>3, <2>4
<1> QED BY <1>5, <1>6, <1>7, <1>8, <1>9, <1>10, <1>11, <1>12, <1>13, <1>14, RvFields

\* A step of RV32I on any word leaves a machine of the same type, every register
\* and the PC a word, and if the instruction failed the PC is back on it.
THEOREM RvSteps ==
  ASSUME NEW s \in RvMachine, NEW raw \in SUBSET (0 .. 31)
  PROVE  /\ Rv!RiscvStep(s, raw) \in RvMachine
         /\ Rv!RiscvStep(s, raw).err # "ok" => Rv!RiscvStep(s, raw).pc = s.pc
<1> DEFINE t == Rv!ExecuteRiscv([s EXCEPT !.pc = (s.pc + 4) % M], Rv!DecodeRiscv(raw))
<1>1. (s.pc + 4) % M \in Word
  <2>1. s.pc \in Word /\ s.pc \in Int
    BY RvSet, WordArithmetic
  <2>2. s.pc + 4 \in Int
    BY <2>1
  <2> QED BY <2>2, WordType
<1>2. [s EXCEPT !.pc = (s.pc + 4) % M] \in RvMachine
  BY <1>1, RvJump
<1>3. t \in RvMachine
  BY <1>2, RvDecodes, RvExecutes
<1>4. Rv!RiscvStep(s, raw) = IF t.err = "ok" THEN t ELSE [t EXCEPT !.pc = s.pc]
  BY RvWords DEF Rv!RiscvStep, Rv!Rewound
<1> HIDE DEF t
<1>5. [t EXCEPT !.pc = s.pc] \in RvMachine /\ [t EXCEPT !.pc = s.pc].pc = s.pc
  BY <1>3, RvSet DEF RvMachine
<1> QED BY <1>3, <1>4, <1>5

\* The ARM module's words are those of this one.
LEMMA ArmWords ==
  /\ Arm!M = M /\ Arm!Word = Word /\ Arm!Width = Width /\ Arm!Position = Position
  /\ \A n : Arm!Span(n) = Span(n)
  /\ Arm!ValueOf = ValueOf /\ Arm!BitsOf = BitsOf
  /\ \A x, y : Arm!And(x, y) = And(x, y) /\ Arm!Or(x, y) = Or(x, y) /\ Arm!Xor(x, y) = Xor(x, y)
  /\ \A x : Arm!Not(x) = Not(x)
  /\ \A x, n : Arm!Signed(x, n) = Signed(x, n) /\ Arm!SignExtended(x, n) = SignExtended(x, n)
               /\ Arm!Negative(x, n) = Negative(x, n)
  /\ \A x, n : /\ Arm!ShiftedLeft(x, n) = ShiftedLeft(x, n)
               /\ Arm!ShiftedRight(x, n) = ShiftedRight(x, n)
               /\ Arm!ArithmeticRight(x, n) = ArithmeticRight(x, n)
               /\ Arm!RotatedRight(x, n) = RotatedRight(x, n)
               /\ Arm!Bit(x, n) = Bit(x, n)
  /\ \A x, n : Arm!ByteAt(x, n) = ByteAt(x, n) /\ Arm!SwapBytes(x, n) = SwapBytes(x, n)
  /\ \A b, n : Arm!OfBytes(b, n) = OfBytes(b, n)
  /\ \A raw, lo, n : Arm!Field(raw, lo, n) = Field(raw, lo, n)
                     /\ Arm!SignedField(raw, lo, n) = SignedField(raw, lo, n)
  /\ \A n : Arm!Unsigned(n) = Unsigned(n) /\ Arm!TwosComplement(n) = TwosComplement(n)
<1>1. Arm!M = M /\ Arm!Word = Word /\ Arm!Width = Width /\ Arm!Position = Position
  BY DEF Arm!M, M, Arm!Word, Word, Arm!Width, Width, Arm!Position, Position, Arm!Span, Span
<1>2. \A n : Arm!Span(n) = Span(n)
  BY DEF Arm!Span, Span
<1>3. \A h : Arm!SumFunction(h) = SumFunction(h)
  BY DEF Arm!SumFunction, SumFunction, Arm!SumFunctionOnSet, SumFunctionOnSet,
         Arm!FoldFunctionOnSet, FoldFunctionOnSet, Arm!MapThenFoldSet, MapThenFoldSet
<1>4. Arm!ValueOf = ValueOf /\ Arm!BitsOf = BitsOf
  BY <1>1, <1>3 DEF Arm!ValueOf, ValueOf, Arm!BitsOf, BitsOf
<1>5. \A x, y : Arm!And(x, y) = And(x, y) /\ Arm!Or(x, y) = Or(x, y) /\ Arm!Xor(x, y) = Xor(x, y)
  BY <1>4 DEF Arm!And, And, Arm!Or, Or, Arm!Xor, Xor, Arm!SymDiff, SymDiff
<1>6. \A x, n : Arm!Signed(x, n) = Signed(x, n) /\ Arm!Negative(x, n) = Negative(x, n)
  BY DEF Arm!Signed, Signed, Arm!Negative, Negative
<1>7. \A x, n : Arm!SignExtended(x, n) = SignExtended(x, n)
  BY <1>1, <1>2, <1>6 DEF Arm!SignExtended, SignExtended
<1>8. \A x, n : /\ Arm!ShiftedLeft(x, n) = ShiftedLeft(x, n)
                /\ Arm!ShiftedRight(x, n) = ShiftedRight(x, n)
                /\ Arm!ArithmeticRight(x, n) = ArithmeticRight(x, n)
  BY <1>1, <1>6 DEF Arm!ShiftedLeft, ShiftedLeft, Arm!ShiftedRight, ShiftedRight,
                    Arm!ArithmeticRight, ArithmeticRight
<1>9. \A x, n : Arm!RotatedRight(x, n) = RotatedRight(x, n) /\ Arm!Bit(x, n) = Bit(x, n)
  BY <1>1 DEF Arm!RotatedRight, RotatedRight, Arm!Bit, Bit
<1>10. \A x : Arm!Not(x) = Not(x)
  BY <1>1 DEF Arm!Not, Not
<1>11. \A x, n : Arm!ByteAt(x, n) = ByteAt(x, n)
  BY <1>2 DEF Arm!ByteAt, ByteAt
<1>12. \A b, n : Arm!OfBytes(b, n) = OfBytes(b, n)
  BY <1>2, <1>3 DEF Arm!OfBytes, OfBytes
<1>13. \A x, n : Arm!SwapBytes(x, n) = SwapBytes(x, n)
  BY <1>11, <1>12 DEF Arm!SwapBytes, SwapBytes
<1>14. \A raw, lo, n : Arm!Field(raw, lo, n) = Field(raw, lo, n)
  BY <1>3 DEF Arm!Field, Field
<1>15. \A raw, lo, n : Arm!SignedField(raw, lo, n) = SignedField(raw, lo, n)
  BY <1>14 DEF Arm!SignedField, SignedField
<1>16. \A n : Arm!Unsigned(n) = Unsigned(n) /\ Arm!TwosComplement(n) = TwosComplement(n)
  BY DEF Arm!Unsigned, Unsigned, Arm!TwosComplement, TwosComplement
<1> QED
  BY <1>1, <1>2, <1>4, <1>5, <1>6, <1>7, <1>8, <1>9, <1>10, <1>11, <1>12, <1>13, <1>14, <1>15, <1>16

\* The ARM module's loads and stores are those of this one.
LEMMA ArmMemory ==
  /\ \A s, a, n : Arm!Reachable(s, a, n) = Reachable(s, a, n)
  /\ \A s, a, n : Arm!Loaded(s, a, n) = Loaded(s, a, n)
  /\ \A s, e : Arm!Fails(s, e) = Fails(s, e)
  /\ \A s, a, n, v : Arm!Stored(s, a, n, v) = Stored(s, a, n, v)
<1>1. \A s, a, n : Arm!Reachable(s, a, n) = Reachable(s, a, n)
  BY DEF Arm!Reachable, Reachable
<1>2. \A s, a, n : Arm!Loaded(s, a, n) = Loaded(s, a, n)
  BY ArmWords DEF Arm!Loaded, Loaded
<1>3. \A s, e : Arm!Fails(s, e) = Fails(s, e)
  BY DEF Arm!Fails, Fails
<1>4. \A mem, a, n, v : Arm!Filled(mem, a, n, v) = Filled(mem, a, n, v)
  BY ArmWords DEF Arm!Filled, Filled
<1>5. \A s, a, n, v : Arm!Stored(s, a, n, v) = Stored(s, a, n, v)
  BY <1>1, <1>3, <1>4 DEF Arm!Stored, Stored
<1> QED BY <1>1, <1>2, <1>3, <1>5

\* The ranges of the fields that the ARM decoder cuts out of a word.
LEMMA ArmFields ==
  ASSUME NEW raw, NEW lo \in Nat
  PROVE  /\ Arm!Field(raw, lo, 2) \in 0 .. 3
         /\ Arm!Field(raw, lo, 3) \in 0 .. 7
         /\ Arm!Field(raw, lo, 4) \in Arm!Register
         /\ Arm!Field(raw, lo, 4) \in 0 .. 15
         /\ Arm!Field(raw, lo, 5) \in 0 .. 31
         /\ Arm!Field(raw, lo, 8) \in 0 .. 255
         /\ Arm!Field(raw, lo, 12) \in 0 .. 4095
         /\ Arm!Field(raw, lo, 24) \in Arm!Unsigned(24)
<1>1. Field(raw, lo, 24) \in Unsigned(24)
  BY FieldRange
<1>2. \A n : Arm!Field(raw, lo, n) = Field(raw, lo, n)
  BY ArmWords
<1>3. Arm!Unsigned(24) = Unsigned(24)
  BY ArmWords
<1>4. Arm!Field(raw, lo, 24) \in Arm!Unsigned(24)
  BY <1>1, <1>2, <1>3
<1> QED BY <1>2, <1>4, FieldSizes DEF Arm!Register

\* A word the decoder does not know is an unknown instruction.
LEMMA ArmUnknown ==
  ASSUME NEW raw \in SUBSET (0 .. 31)
  PROVE  Arm!Unknown(raw) = [op |-> "Unknown", raw |-> raw] /\ Arm!Unknown(raw) \in Arm!Instr
BY DEF Arm!Unknown, Arm!Instr, Arm!ControlInstr, Arm!BitNo

\* The media instructions, as the decoder makes them.
LEMMA ArmMedia ==
  ASSUME NEW raw \in SUBSET (0 .. 31), NEW cond \in Arm!Condition
  PROVE  Arm!DecodeMedia(cond, raw) \in Arm!Instr
<1> DEFINE rd == Arm!Field(raw, 12, 4)   rm == Arm!Field(raw, 0, 4)   rn == Arm!Field(raw, 16, 4)
           lsb == Arm!Field(raw, 7, 5)   msb == Arm!Field(raw, 16, 5)   rot == Arm!Field(raw, 10, 2)
           width == (IF msb > lsb THEN msb - lsb ELSE 0) + 1
           bfc == [op |-> "Bfc", cond |-> cond, rd |-> rd, lsb |-> lsb, width |-> width]
           field(op, w) == [op |-> op, cond |-> cond, rd |-> rd, rn |-> rm, lsb |-> lsb, width |-> w]
           rev(op) == [op |-> op, cond |-> cond, rd |-> rd, rm |-> rm]
           ext(op) == [op |-> op, cond |-> cond, rd |-> rd, rm |-> rm, rot |-> rot,
                       rn |-> IF rn = 15 THEN {} ELSE {rn}]
<1>1. /\ rd \in Arm!Register /\ rm \in Arm!Register /\ rn \in Arm!Register
      /\ lsb \in 0 .. 31 /\ msb \in 0 .. 31 /\ rot \in 0 .. 3
  BY ArmFields
<1>2. width \in 1 .. 32 /\ msb + 1 \in 1 .. 32
  BY <1>1
<1>3. Arm!DecodeMedia(cond, raw)
        \in {bfc, field("Bfi", width), field("Ubfx", msb + 1), field("Sbfx", msb + 1),
             rev("Rev"), rev("Rev16"), rev("Revsh"), ext("Sxtb"), ext("Sxth"), ext("Uxtb"),
             ext("Uxth"), Arm!Unknown(raw)}
  <2> DEFINE extension == [e \in {\h6A, \h6B, \h6E, \h6F} |->
                             CASE e = \h6A -> "Sxtb" [] e = \h6B -> "Sxth"
                               [] e = \h6E -> "Uxtb" [] e = \h6F -> "Uxth"]
             extOp == Arm!Field(raw, 20, 8)
             isBitField == Arm!Match(raw, \h0FF000F0, \h07C00010)
             isExtract == Arm!Match(raw, \h0FA00070, \h07A00050)
             isRev == Arm!Match(raw, \h0FF00FF0, \h06B00F30)
             isRev16 == Arm!Match(raw, \h0FF00FF0, \h06B00FB0)
             isRevsh == Arm!Match(raw, \h0FF00FF0, \h06F00FB0)
  <2>1. Arm!DecodeMedia(cond, raw) =
          IF isBitField THEN IF rm = 15 THEN bfc ELSE field("Bfi", width)
          ELSE IF isExtract THEN field(IF 22 \in raw THEN "Ubfx" ELSE "Sbfx", msb + 1)
          ELSE IF isRev THEN rev("Rev")
          ELSE IF isRev16 THEN rev("Rev16")
          ELSE IF isRevsh THEN rev("Revsh")
          ELSE IF extOp \in DOMAIN extension THEN ext(extension[extOp])
          ELSE Arm!Unknown(raw)
    BY SMTT(40) DEF Arm!DecodeMedia
  <2>2. extOp \in DOMAIN extension => extension[extOp] \in {"Sxtb", "Sxth", "Uxtb", "Uxth"}
    <3>1. \A e \in {\h6A, \h6B, \h6E, \h6F} : extension[e] \in {"Sxtb", "Sxth", "Uxtb", "Uxth"}
      BY SMTT(40)
    <3> HIDE DEF extOp
    <3> QED BY <3>1
  <2> HIDE DEF extension, extOp, isBitField, isExtract, isRev, isRev16, isRevsh,
               rd, rm, rn, lsb, msb, width, rot
  <2> QED BY <2>1, <2>2
<1> HIDE DEF rd, rm, rn, lsb, msb, width, rot
<1>4. bfc \in Arm!MediaInstr
  BY <1>1, <1>2 DEF Arm!MediaInstr, Arm!BitNo
<1>5. \A op \in {"Bfi", "Ubfx", "Sbfx"}, w \in 1 .. 32 : field(op, w) \in Arm!MediaInstr
  BY <1>1, <1>2 DEF Arm!MediaInstr, Arm!BitNo
<1>6. \A op \in {"Rev", "Rev16", "Revsh"} : rev(op) \in Arm!MediaInstr
  BY <1>1 DEF Arm!MediaInstr
<1>7. \A op \in {"Sxtb", "Sxth", "Uxtb", "Uxth"} : ext(op) \in Arm!MediaInstr
  <2>1. (IF rn = 15 THEN {} ELSE {rn}) \in Arm!Option(Arm!Register)
    BY <1>1 DEF Arm!Option
  <2> DEFINE n == IF rn = 15 THEN {} ELSE {rn}
  <2> HIDE DEF n
  <2>2. n \in Arm!Option(Arm!Register)
    BY <2>1 DEF n
  <2>3. \A op \in {"Sxtb", "Sxth", "Uxtb", "Uxth"} :
          [op |-> op, cond |-> cond, rd |-> rd, rm |-> rm, rot |-> rot, rn |-> n] \in Arm!MediaInstr
    BY <1>1, <2>2 DEF Arm!MediaInstr
  <2> QED BY <2>3 DEF n
<1> HIDE DEF bfc, field, rev, ext
<1>8. Arm!DecodeMedia(cond, raw) \in Arm!MediaInstr \cup {Arm!Unknown(raw)}
  BY <1>2, <1>3, <1>4, <1>5, <1>6, <1>7
<1> QED BY <1>8, ArmUnknown DEF Arm!Instr

\* The multiplies, as the decoder makes them.
LEMMA ArmMultiplies ==
  ASSUME NEW raw \in SUBSET (0 .. 31), NEW cond \in Arm!Condition
  PROVE  Arm!DecodeMultiply(cond, raw) \in Arm!Instr
<1> DEFINE rm == Arm!Field(raw, 0, 4)    rs == Arm!Field(raw, 8, 4)
           rn == Arm!Field(raw, 12, 4)   rd == Arm!Field(raw, 16, 4)
           s == 20 \in raw
           long(op) == [op |-> op, cond |-> cond, s |-> s, rd_lo |-> rn, rd_hi |-> rd,
                        rm |-> rm, rs |-> rs]
           mla == [op |-> "Mla", cond |-> cond, s |-> s, rd |-> rd, rm |-> rm, rs |-> rs, rn |-> rn]
           mul == [op |-> "Mul", cond |-> cond, s |-> s, rd |-> rd, rm |-> rm, rs |-> rs]
<1>1. rm \in Arm!Register /\ rs \in Arm!Register /\ rn \in Arm!Register /\ rd \in Arm!Register
      /\ s \in BOOLEAN
  BY ArmFields
<1>2. Arm!DecodeMultiply(cond, raw)
        \in {mla, mul, long("Umlal"), long("Umull"), long("Smlal"), long("Smull")}
  BY SMTT(60) DEF Arm!DecodeMultiply
<1> HIDE DEF rd, rm, rn, rs, s
<1>3. mla \in Arm!MultiplyInstr /\ mul \in Arm!MultiplyInstr
  BY <1>1 DEF Arm!MultiplyInstr
<1>4. \A op \in {"Umull", "Umlal", "Smull", "Smlal"} : long(op) \in Arm!MultiplyInstr
  BY <1>1 DEF Arm!MultiplyInstr
<1> HIDE DEF mla, mul, long
<1>5. Arm!DecodeMultiply(cond, raw) \in Arm!MultiplyInstr
  BY <1>2, <1>3, <1>4
<1> QED BY <1>5 DEF Arm!Instr

\* A register as second operand, not shifted.
LEMMA ArmPlain ==
  ASSUME NEW rm \in Arm!Register
  PROVE  Arm!Plain(rm) \in Arm!Operand2
<1>1. [shift_type |-> "Lsl", amount |-> 0] \in Arm!Shift
  BY DEF Arm!Shift, Arm!ShiftType, Arm!ShiftTypes, Arm!BitNo
<1> QED BY <1>1 DEF Arm!Plain, Arm!Operand2

\* The bits of an immediate are bits of a word.
LEMMA ArmImmediates ==
  ASSUME NEW raw \in SUBSET (0 .. 31)
  PROVE  /\ \A r \in Nat, c \in Arm!Option(BOOLEAN) :
              [val |-> Arm!Rotated(raw, 8, r), carry_out |-> c] \in Arm!Operand2
         /\ [val |-> {i - 4 : i \in raw \cap (8 .. 11)} \cup (raw \cap (0 .. 3)),
             carry_out |-> {}] \in Arm!Operand2
         /\ [val |-> raw \cap (0 .. 11), carry_out |-> {}] \in Arm!Operand2
<1>1. \A r \in Nat : Arm!Rotated(raw, 8, r) \in SUBSET Arm!BitNo
  BY DEF Arm!Rotated, Arm!BitNo
<1>2. {i - 4 : i \in raw \cap (8 .. 11)} \cup (raw \cap (0 .. 3)) \in SUBSET Arm!BitNo
  BY DEF Arm!BitNo
<1>3. raw \cap (0 .. 11) \in SUBSET Arm!BitNo
  BY DEF Arm!BitNo
<1>4. {} \in Arm!Option(BOOLEAN)
  BY DEF Arm!Option
<1>5. \A v \in SUBSET Arm!BitNo, c \in Arm!Option(BOOLEAN) :
         [val |-> v, carry_out |-> c] \in Arm!Operand2
  BY DEF Arm!Operand2
<1> QED BY <1>1, <1>2, <1>3, <1>4, <1>5

\* The halfword and signed transfers, as the decoder makes them.
LEMMA ArmExtras ==
  ASSUME NEW raw \in SUBSET (0 .. 31), NEW cond \in Arm!Condition,
         Arm!Field(raw, 5, 2) \in {1, 2, 3}
  PROVE  Arm!DecodeExtra(cond, raw) \in Arm!Instr
<1> DEFINE load == 20 \in raw
           op == CASE Arm!Field(raw, 5, 2) = 1 -> IF load THEN "Ldrh" ELSE "Strh"
                   [] Arm!Field(raw, 5, 2) = 2 -> "Ldrsb"
                   [] Arm!Field(raw, 5, 2) = 3 -> "Ldrsh"
           offset == IF 22 \in raw
                     THEN [val |-> {i - 4 : i \in raw \cap (8 .. 11)} \cup (raw \cap (0 .. 3)),
                           carry_out |-> {}]
                     ELSE Arm!Plain(Arm!Field(raw, 0, 4))
           rd == Arm!Field(raw, 12, 4)   rn == Arm!Field(raw, 16, 4)
<1>1. op \in {"Ldrh", "Strh", "Ldrsb", "Ldrsh"}
  OBVIOUS
<1>2. offset \in Arm!Operand2
  <2>1. Arm!Plain(Arm!Field(raw, 0, 4)) \in Arm!Operand2
    BY ArmFields, ArmPlain
  <2>2. [val |-> {i - 4 : i \in raw \cap (8 .. 11)} \cup (raw \cap (0 .. 3)), carry_out |-> {}]
          \in Arm!Operand2
    BY ArmImmediates
  <2> QED BY <2>1, <2>2, Zenon
<1>3. rd \in Arm!Register /\ rn \in Arm!Register
  BY ArmFields
<1>4. Arm!DecodeExtra(cond, raw) =
        [op |-> op, cond |-> cond, rd |-> rd, rn |-> rn, offset |-> offset,
         pre |-> 24 \in raw, writeback |-> 21 \in raw, up |-> 23 \in raw]
  BY SMT DEF Arm!DecodeExtra
<1> HIDE DEF op, offset, rd, rn
<1>5. Arm!DecodeExtra(cond, raw) \in Arm!TransferInstr
  BY <1>1, <1>2, <1>3, <1>4 DEF Arm!TransferInstr
<1> QED BY <1>5 DEF Arm!Instr

\* MSR, as the decoder makes it.
LEMMA ArmStatuses ==
  ASSUME NEW raw \in SUBSET (0 .. 31), NEW cond \in Arm!Condition, NEW op2 \in Arm!Operand2
  PROVE  Arm!DecodeMsr(cond, raw, op2) \in Arm!Instr
<1>1. {i - 16 : i \in raw \cap (16 .. 19)} \in SUBSET (0 .. 3)
  OBVIOUS
<1>2. Arm!DecodeMsr(cond, raw, op2) \in Arm!StatusInstr
  BY <1>1 DEF Arm!DecodeMsr, Arm!StatusInstr
<1> QED BY <1>2 DEF Arm!Instr

\* The second operands, as the decoder makes them.
LEMMA ArmOperands ==
  ASSUME NEW raw \in SUBSET (0 .. 31), NEW immediate \in BOOLEAN
  PROVE  /\ Arm!DecodeShiftedRegister(raw) \in Arm!Operand2
         /\ Arm!DecodeOperand2(raw, immediate) \in Arm!Operand2
<1> DEFINE type == Arm!ShiftTypes[Arm!Field(raw, 5, 2) + 1]
           rs == Arm!Field(raw, 8, 4)   amount == Arm!Field(raw, 7, 5)   rm == Arm!Field(raw, 0, 4)
           shift == IF 4 \in raw THEN [shift_type |-> type, rs |-> rs]
                    ELSE [shift_type |-> type, amount |-> amount]
<1>1. rs \in Arm!Register /\ rm \in Arm!Register /\ amount \in Arm!BitNo
  BY ArmFields DEF Arm!BitNo
<1>2. type \in Arm!ShiftType
  <2>1. Arm!Field(raw, 5, 2) + 1 \in 1 .. 4
    BY ArmFields
  <2> QED BY <2>1 DEF Arm!ShiftType
<1>3. Arm!DecodeShiftedRegister(raw) = [rm |-> rm, shift |-> shift]
  BY SMT DEF Arm!DecodeShiftedRegister
<1> HIDE DEF type, rs, rm, amount
<1>4. shift \in Arm!Shift
  BY <1>1, <1>2 DEF Arm!Shift
<1> HIDE DEF shift
<1>5. Arm!DecodeShiftedRegister(raw) \in Arm!Operand2
  BY <1>1, <1>3, <1>4 DEF Arm!Operand2
<1>6. Arm!DecodeOperand2(raw, immediate) \in Arm!Operand2
  <2> DEFINE rotate == Arm!Field(raw, 8, 4) * 2
             carry == IF rotate = 0 THEN {} ELSE {31 \in Arm!Rotated(raw, 8, rotate)}
  <2>1. rotate \in Nat
    BY ArmFields
  <2>2. Arm!DecodeOperand2(raw, immediate) =
          IF immediate THEN [val |-> Arm!Rotated(raw, 8, rotate), carry_out |-> carry]
          ELSE Arm!DecodeShiftedRegister(raw)
    BY SMT DEF Arm!DecodeOperand2
  <2> HIDE DEF rotate
  <2>3. carry \in Arm!Option(BOOLEAN)
    <3> DEFINE last == 31 \in Arm!Rotated(raw, 8, rotate)
    <3>1. last \in BOOLEAN
      OBVIOUS
    <3> HIDE DEF last
    <3>2. {last} \in Arm!Option(BOOLEAN) /\ {} \in Arm!Option(BOOLEAN)
      BY <3>1 DEF Arm!Option
    <3> QED BY <3>2 DEF last
  <2> HIDE DEF carry
  <2> QED BY <1>5, <2>1, <2>2, <2>3, ArmImmediates
<1> QED BY <1>5, <1>6

\* The data processing instructions, as the decoder makes them.
LEMMA ArmOpcodes ==
  ASSUME NEW raw \in SUBSET (0 .. 31), NEW cond \in Arm!Condition, NEW immediate \in BOOLEAN
  PROVE  Arm!DecodeOpcode(cond, raw, immediate) \in Arm!Instr
<1> DEFINE k == Arm!Field(raw, 21, 4) + 1
           rd == Arm!Field(raw, 12, 4)   rn == Arm!Field(raw, 16, 4)
           op == Arm!DataOps[k]
           op2 == Arm!DecodeOperand2(raw, immediate)
<1>1. k \in 1 .. 16 /\ rd \in Arm!Register /\ rn \in Arm!Register
  BY ArmFields
<1>2. op2 \in Arm!Operand2
  BY ArmOperands
<1>3. Arm!DecodeOpcode(cond, raw, immediate) =
        [op |-> op, cond |-> cond, s |-> 20 \in raw, rd |-> rd, rn |-> rn, op2 |-> op2]
  BY SMT DEF Arm!DecodeOpcode
<1> HIDE DEF k
<1>4. op \in {"And", "Eor", "Sub", "Rsb", "Add", "Adc", "Sbc", "Rsc", "Tst", "Teq",
              "Cmp", "Cmn", "Orr", "Mov", "Bic", "Mvn"}
  BY <1>1 DEF Arm!DataOps
<1> HIDE DEF rd, rn, op, op2
<1>5. Arm!DecodeOpcode(cond, raw, immediate) \in Arm!DataProcessingInstr
  BY <1>1, <1>2, <1>3, <1>4 DEF Arm!DataProcessingInstr
<1> QED BY <1>5 DEF Arm!Instr

\* The miscellaneous instructions, as the decoder makes them.
LEMMA ArmMisc ==
  ASSUME NEW raw \in SUBSET (0 .. 31), NEW cond \in Arm!Condition, NEW immediate \in BOOLEAN
  PROVE  /\ Arm!DecodeMisc(cond, raw, immediate) \in Arm!Instr
<1> DEFINE rd == Arm!Field(raw, 12, 4)   rm == Arm!Field(raw, 0, 4)
           imm16 == Arm!Field(raw, 16, 4) * 4096 + Arm!Field(raw, 0, 12)
           comment == Arm!Field(raw, 8, 12) * 16 + rm
           clz == [op |-> "Clz", cond |-> cond, rd |-> rd, rm |-> rm]
           bkpt == [op |-> "Bkpt", imm16 |-> comment]
           branch(op) == [op |-> op, cond |-> cond, rm |-> rm]
           move(op) == [op |-> op, cond |-> cond, rd |-> rd, imm16 |-> imm16]
<1>1. rd \in Arm!Register /\ rm \in Arm!Register
  BY ArmFields
<1>2. imm16 \in Arm!Unsigned(16) /\ comment \in Arm!Unsigned(16)
  <2> DEFINE a == Arm!Field(raw, 16, 4)   b == Arm!Field(raw, 0, 12)   c == Arm!Field(raw, 8, 12)
             m == 2^16
  <2>1. a \in 0 .. 15 /\ b \in 0 .. 4095 /\ c \in 0 .. 4095 /\ rm \in 0 .. 15
    BY ArmFields
  <2>2. m = 65536
    BY SMT
  <2>3. Arm!Unsigned(16) = 0 .. m - 1
    <3>1. Unsigned(16) = 0 .. m - 1
      BY DEF Unsigned
    <3> QED BY <3>1, ArmWords
  <2> HIDE DEF a, b, c, m, rm
  <2>4. /\ a * 4096 + b \in Nat /\ a * 4096 + b <= 65535
        /\ c * 16 + rm \in Nat /\ c * 16 + rm <= 65535
    BY <2>1, SMT
  <2>5. m - 1 = 65535
    BY <2>2, SMT
  <2>6. imm16 = a * 4096 + b /\ comment = c * 16 + rm
    BY DEF a, b, c
  <2> HIDE DEF imm16, comment
  <2>7. imm16 \in 0 .. m - 1 /\ comment \in 0 .. m - 1
    BY <2>4, <2>5, <2>6
  <2> QED BY <2>3, <2>7
<1>3. Arm!DecodeMisc(cond, raw, immediate)
        \in {clz, bkpt, branch("Bx"), branch("Blx"), move("Movw"), move("Movt"), Arm!Unknown(raw)}
  BY SMTT(60) DEF Arm!DecodeMisc
<1> HIDE DEF rd, rm, imm16, comment
<1>4. clz \in Arm!MediaInstr
  BY <1>1 DEF Arm!MediaInstr
<1>5. bkpt \in Arm!ControlInstr
  BY <1>2 DEF Arm!ControlInstr
<1>6. branch("Bx") \in Arm!ControlInstr /\ branch("Blx") \in Arm!ControlInstr
  BY <1>1 DEF Arm!ControlInstr
<1>7. move("Movw") \in Arm!MoveInstr /\ move("Movt") \in Arm!MoveInstr
  BY <1>1, <1>2 DEF Arm!MoveInstr
<1> HIDE DEF clz, bkpt, branch, move
<1> QED BY <1>3, <1>4, <1>5, <1>6, <1>7, ArmUnknown DEF Arm!Instr

\* Whatever the decoder makes of a word of types 0 and 1.
LEMMA ArmDataProcOrMisc ==
  ASSUME NEW raw \in SUBSET (0 .. 31), NEW cond \in Arm!Condition, NEW immediate \in BOOLEAN
  PROVE  Arm!DecodeDataProcOrMisc(cond, raw, immediate) \in Arm!Instr
<1> DEFINE misc == Arm!DecodeMisc(cond, raw, immediate)
           rd == Arm!Field(raw, 12, 4)
           mrs == [op |-> "Mrs", cond |-> cond, rd |-> rd, use_spsr |-> 22 \in raw]
           value == [val |-> Arm!Rotated(raw, 8, Arm!Field(raw, 8, 4) * 2), carry_out |-> {}]
           extra == /\ Arm!IsMultiplyOrExtra(raw)
                    /\ ~Arm!Match(raw, \h0F800000, 0)
                    /\ ~Arm!Match(raw, \h0F800000, \h00800000)
                    /\ ~Arm!Match(raw, \h0F800000, \h00C00000)
<1>1. \/ extra /\ Arm!DecodeDataProcOrMisc(cond, raw, immediate) = Arm!DecodeExtra(cond, raw)
      \/ Arm!DecodeDataProcOrMisc(cond, raw, immediate)
           \in {misc, Arm!DecodeMultiply(cond, raw), mrs,
                Arm!DecodeMsr(cond, raw, Arm!Plain(Arm!Field(raw, 0, 4))),
                Arm!DecodeMsr(cond, raw, value), Arm!DecodeOpcode(cond, raw, immediate)}
  BY SMTT(60) DEF Arm!DecodeDataProcOrMisc
<1>2. extra => Arm!IsExtra(raw)
  BY SMT DEF Arm!IsMultiplyOrExtra
<1> HIDE DEF extra
<1>3. Arm!IsExtra(raw) => Arm!Field(raw, 5, 2) \in {1, 2, 3}
  BY DEF Arm!IsExtra
<1>4. Arm!IsExtra(raw) => Arm!DecodeExtra(cond, raw) \in Arm!Instr
  BY <1>3, ArmExtras
<1>5. mrs \in Arm!Instr
  <2>1. rd \in Arm!Register
    BY ArmFields
  <2> HIDE DEF rd
  <2>2. mrs \in Arm!StatusInstr
    BY <2>1 DEF Arm!StatusInstr
  <2> QED BY <2>2 DEF Arm!Instr
<1>6. value \in Arm!Operand2
  <2> DEFINE r == Arm!Field(raw, 8, 4) * 2
  <2>1. r \in Nat
    BY ArmFields
  <2>2. {} \in Arm!Option(BOOLEAN)
    BY DEF Arm!Option
  <2> HIDE DEF r
  <2>3. [val |-> Arm!Rotated(raw, 8, r), carry_out |-> {}] \in Arm!Operand2
    BY <2>1, <2>2, ArmImmediates
  <2> QED BY <2>3 DEF r
<1>7. Arm!Plain(Arm!Field(raw, 0, 4)) \in Arm!Operand2
  BY ArmFields, ArmPlain
<1> HIDE DEF mrs, value, misc
<1>8. /\ Arm!DecodeMsr(cond, raw, Arm!Plain(Arm!Field(raw, 0, 4))) \in Arm!Instr
      /\ Arm!DecodeMsr(cond, raw, value) \in Arm!Instr
  BY <1>6, <1>7, ArmStatuses
<1>9. misc \in Arm!Instr
  BY ArmMisc DEF misc
<1> QED BY <1>1, <1>2, <1>4, <1>5, <1>8, <1>9, ArmMultiplies, ArmOpcodes

\* Transfers, branches and system calls, as the decoder makes them.
LEMMA ArmLoadStores ==
  ASSUME NEW raw \in SUBSET (0 .. 31), NEW cond \in Arm!Condition, NEW shifted \in BOOLEAN
  PROVE  /\ Arm!DecodeLoadStore(cond, raw, shifted) \in Arm!Instr
         /\ Arm!DecodeLoadStoreMultiple(cond, raw) \in Arm!Instr
         /\ Arm!DecodeBranch(cond, raw) \in Arm!Instr
         /\ Arm!DecodeCoprocOrSvc(cond, raw) \in Arm!Instr
<1> DEFINE rd == Arm!Field(raw, 12, 4)   rn == Arm!Field(raw, 16, 4)
           op == IF 20 \in raw THEN (IF 22 \in raw THEN "Ldrb" ELSE "Ldr")
                 ELSE (IF 22 \in raw THEN "Strb" ELSE "Str")
           offset == IF shifted THEN Arm!DecodeShiftedRegister(raw)
                     ELSE [val |-> raw \cap (0 .. 11), carry_out |-> {}]
<1>1. rd \in Arm!Register /\ rn \in Arm!Register
  BY ArmFields
<1>2. offset \in Arm!Operand2
  BY ArmOperands, ArmImmediates
<1>3. op \in {"Ldr", "Str", "Ldrb", "Strb"}
  OBVIOUS
<1>4. Arm!DecodeLoadStore(cond, raw, shifted) \in Arm!TransferInstr
  <2>1. Arm!DecodeLoadStore(cond, raw, shifted) =
          [op |-> op, cond |-> cond, rd |-> rd, rn |-> rn, offset |-> offset,
           pre |-> 24 \in raw, writeback |-> 21 \in raw, up |-> 23 \in raw]
    BY DEF Arm!DecodeLoadStore
  <2> HIDE DEF op, offset, rd, rn
  <2> QED BY <1>1, <1>2, <1>3, <2>1 DEF Arm!TransferInstr
<1>5. Arm!DecodeLoadStoreMultiple(cond, raw) \in Arm!BlockTransferInstr
  <2> DEFINE name == IF 20 \in raw THEN "Ldm" ELSE "Stm"
             list == raw \cap (0 .. 15)
  <2>1. Arm!DecodeLoadStoreMultiple(cond, raw) =
          [op |-> name, cond |-> cond, rn |-> rn, reg_list |-> list,
           p |-> 24 \in raw, u |-> 23 \in raw, w |-> 21 \in raw]
    BY DEF Arm!DecodeLoadStoreMultiple
  <2>2. name \in {"Ldm", "Stm"} /\ list \in SUBSET Arm!Register
    BY DEF Arm!Register
  <2> HIDE DEF name, list, rn
  <2> QED BY <1>1, <2>1, <2>2 DEF Arm!BlockTransferInstr
<1>6. Arm!DecodeBranch(cond, raw) \in Arm!ControlInstr
  <2> DEFINE name == IF 24 \in raw THEN "Bl" ELSE "B"
             target == 4 * Arm!SignedField(raw, 0, 24)
  <2>1. Arm!DecodeBranch(cond, raw) = [op |-> name, cond |-> cond, target |-> target]
    BY SMT DEF Arm!DecodeBranch
  <2>2. target \in Arm!TwosComplement(26)
    <3>1. SignedField(raw, 0, 23 + 1) \in -(2^23) .. 2^23 - 1
      BY SignedFieldRange
    <3>2. SignedField(raw, 0, 24) \in -(2^23) .. 2^23 - 1
      <4>1. 23 + 1 = 24
        OBVIOUS
      <4> QED BY <3>1, <4>1
    <3> DEFINE n == 26   m == 2^23   x == SignedField(raw, 0, 24)   q == 2^(n - 1)
    <3>4. m \in Nat /\ q = 4 * m
      BY SMT
    <3>5. target = 4 * x
      BY ArmWords
    <3>6. x \in -m .. m - 1
      BY <3>2
    <3> HIDE DEF n, m, x, target
    <3>3. TwosComplement(n) = -q .. q - 1
      BY DEF TwosComplement
    <3> HIDE DEF q
    <3>7. target \in -q .. q - 1
      BY <3>4, <3>5, <3>6
    <3>8. target \in Arm!TwosComplement(n)
      BY <3>3, <3>7, ArmWords
    <3> QED BY <3>8 DEF n
  <2>3. name \in {"B", "Bl"}
    OBVIOUS
  <2> HIDE DEF name, target
  <2> QED BY <2>1, <2>2, <2>3 DEF Arm!ControlInstr
<1>7. Arm!DecodeCoprocOrSvc(cond, raw) \in Arm!ControlInstr \cup {Arm!Unknown(raw)}
  <2> DEFINE comment == Arm!Field(raw, 0, 24)
  <2>1. comment \in Arm!Unsigned(24)
    BY ArmFields
  <2>2. Arm!DecodeCoprocOrSvc(cond, raw)
          \in {[op |-> "Svc", cond |-> cond, imm |-> comment], Arm!Unknown(raw)}
    BY SMT DEF Arm!DecodeCoprocOrSvc
  <2> HIDE DEF comment
  <2>3. [op |-> "Svc", cond |-> cond, imm |-> comment] \in Arm!ControlInstr
    BY <2>1 DEF Arm!ControlInstr
  <2> QED BY <2>2, <2>3
<1> QED BY <1>4, <1>5, <1>6, <1>7, ArmUnknown DEF Arm!Instr

\* The four bits of a condition name one.
LEMMA ArmConditions ==
  ASSUME NEW n \in 0 .. 15
  PROVE  Arm!ConditionFrom(n) \in Arm!Condition
<1>1. n + 1 \in 1 .. 16
  OBVIOUS
<1> QED BY <1>1 DEF Arm!ConditionFrom, Arm!Conditions, Arm!Condition

\* The ARM decoder makes of every word an instruction of the type that the
\* executor expects: registers, operands, lists and offsets in their ranges.
THEOREM ArmDecodes ==
  ASSUME NEW raw \in SUBSET (0 .. 31)
  PROVE  Arm!DecodeArm(raw) \in Arm!Instr
<1> DEFINE cond == Arm!ConditionFrom(Arm!Field(raw, 28, 4))
           kind == Arm!Field(raw, 25, 3)
           nop == [op |-> "Nop", cond |-> cond]
<1>1. cond \in Arm!Condition /\ kind \in 0 .. 7
  BY ArmFields, ArmConditions
<1>2. Arm!DecodeArm(raw) \in {Arm!Unknown(raw), nop, Arm!DecodeType(cond, raw, kind)}
  BY SMT DEF Arm!DecodeArm
<1> HIDE DEF cond, kind
<1>5. Arm!DecodeType(cond, raw, kind)
        \in {Arm!Unknown(raw), Arm!DecodeDataProcOrMisc(cond, raw, FALSE),
             Arm!DecodeDataProcOrMisc(cond, raw, TRUE), Arm!DecodeLoadStore(cond, raw, FALSE),
             Arm!DecodeLoadStore(cond, raw, TRUE), Arm!DecodeMedia(cond, raw),
             Arm!DecodeLoadStoreMultiple(cond, raw), Arm!DecodeBranch(cond, raw),
             Arm!DecodeCoprocOrSvc(cond, raw)}
  <2>1. ASSUME kind = 0 PROVE Arm!DecodeType(cond, raw, kind) = Arm!DecodeDataProcOrMisc(cond, raw, FALSE)
    BY <2>1, SMT DEF Arm!DecodeType
  <2>2. ASSUME kind = 1 PROVE Arm!DecodeType(cond, raw, kind) = Arm!DecodeDataProcOrMisc(cond, raw, TRUE)
    BY <2>2, SMT DEF Arm!DecodeType
  <2>3. ASSUME kind = 2 PROVE Arm!DecodeType(cond, raw, kind) = Arm!DecodeLoadStore(cond, raw, FALSE)
    BY <2>3, SMT DEF Arm!DecodeType
  <2>4. ASSUME kind = 3 PROVE Arm!DecodeType(cond, raw, kind) = 
                          IF 4 \in raw THEN Arm!DecodeMedia(cond, raw)
                          ELSE Arm!DecodeLoadStore(cond, raw, TRUE)
    BY <2>4, SMT DEF Arm!DecodeType
  <2>5. ASSUME kind = 4 PROVE Arm!DecodeType(cond, raw, kind) = Arm!DecodeLoadStoreMultiple(cond, raw)
    BY <2>5, SMT DEF Arm!DecodeType
  <2>6. ASSUME kind = 5 PROVE Arm!DecodeType(cond, raw, kind) = Arm!DecodeBranch(cond, raw)
    BY <2>6, SMT DEF Arm!DecodeType
  <2>7. ASSUME kind = 6 PROVE Arm!DecodeType(cond, raw, kind) = Arm!Unknown(raw)
    BY <2>7, SMT DEF Arm!DecodeType
  <2>8. ASSUME kind = 7 PROVE Arm!DecodeType(cond, raw, kind) = Arm!DecodeCoprocOrSvc(cond, raw)
    BY <2>8, SMT DEF Arm!DecodeType
  <2>9. kind \in {0, 1, 2, 3, 4, 5, 6, 7}
    BY <1>1
  <2> QED BY <2>1, <2>2, <2>3, <2>4, <2>5, <2>6, <2>7, <2>8, <2>9, ZenonT(60)
<1>3. nop \in Arm!ControlInstr
  BY <1>1 DEF Arm!ControlInstr
<1>4. nop \in Arm!Instr
  BY <1>3 DEF Arm!Instr
<1> HIDE DEF nop
<1> QED BY <1>1, <1>2, <1>4, <1>5, ArmUnknown, ArmDataProcOrMisc, ArmLoadStores, ArmMedia

-----------------------------------------------------------------------------
(* The ARM machine: the registers outside T hold words.                    *)

\* Each register has a word or, in T, the status that MRS puts there.
ArmRegs(T) == {f \in [Arm!Register -> Word \cup Status] :
                 \A r \in Arm!Register \ T : f[r] \in Word}

ArmMachine(T) ==
  [mem : [Cells -> Byte], mapped : SUBSET Regions, handles : BOOLEAN, err : Errors,
   regs : ArmRegs(T), cpsr : Status, spsr : [Arm!Banked -> Status], lr : [Arm!Banked -> Word]]

\* The part of ArmWords that arithmetic needs.
LEMMA ArmModulus ==
  /\ Arm!M = M /\ Arm!Width = Width /\ Arm!Position = Position /\ Arm!ValueOf = ValueOf
  /\ \A n : Arm!Span(n) = Span(n)
BY ArmWords

\* What the parts of a machine are.
LEMMA ArmSet ==
  ASSUME NEW T, NEW s \in ArmMachine(T)
  PROVE  /\ HasMemory(s) /\ s.handles \in BOOLEAN /\ s.err \in Errors
         /\ s.cpsr \in Status /\ s.cpsr.flags \in SUBSET Arm!CpsrBit /\ s.cpsr.mode \in Arm!Mode
         /\ s.spsr \in [Arm!Banked -> Status] /\ s.lr \in [Arm!Banked -> Word]
         /\ s.regs \in ArmRegs(T)
         /\ \A r \in Arm!Register \ T : s.regs[r] \in Word
BY DEF ArmMachine, HasMemory, ArmRegs, Status

\* A word may go to any register, a status to one of T.
LEMMA ArmRegsSet ==
  ASSUME NEW T, NEW f \in ArmRegs(T), NEW r \in Arm!Register, NEW v
  PROVE  /\ v \in Word => [f EXCEPT ![r] = v] \in ArmRegs(T)
         /\ v \in Status /\ r \in T => [f EXCEPT ![r] = v] \in ArmRegs(T)
<1> DEFINE g == [f EXCEPT ![r] = v]
<1>1. f \in [Arm!Register -> Word \cup Status] /\ \A q \in Arm!Register \ T : f[q] \in Word
  BY DEF ArmRegs
<1>2. ASSUME v \in Word PROVE g \in ArmRegs(T)
  <2>1. g \in [Arm!Register -> Word \cup Status]
    BY <1>1, <1>2
  <2>2. \A q \in Arm!Register \ T : g[q] \in Word
    BY <1>1, <1>2
  <2> HIDE DEF g
  <2> QED BY <2>1, <2>2 DEF ArmRegs
<1>3. ASSUME v \in Status, r \in T PROVE g \in ArmRegs(T)
  <2>1. g \in [Arm!Register -> Word \cup Status]
    BY <1>1, <1>3
  <2>2. \A q \in Arm!Register \ T : g[q] \in Word
    BY <1>1, <1>3
  <2> HIDE DEF g
  <2> QED BY <2>1, <2>2 DEF ArmRegs
<1> QED BY <1>2, <1>3

\* Writing a register keeps the machine.
LEMMA ArmPut ==
  ASSUME NEW T, NEW s \in ArmMachine(T), NEW r \in Arm!Register, NEW v
  PROVE  /\ v \in Word => Arm!Put(s, r, v) \in ArmMachine(T)
         /\ v \in Status /\ r \in T => Arm!Put(s, r, v) \in ArmMachine(T)
<1>1. /\ v \in Word => [s.regs EXCEPT ![r] = v] \in ArmRegs(T)
      /\ v \in Status /\ r \in T => [s.regs EXCEPT ![r] = v] \in ArmRegs(T)
  BY ArmSet, ArmRegsSet
<1>2. \A f \in ArmRegs(T) : [s EXCEPT !.regs = f] \in ArmMachine(T)
  BY DEF ArmMachine
<1>3. Arm!Put(s, r, v) = [s EXCEPT !.regs = [s.regs EXCEPT ![r] = v]]
  BY DEF Arm!Put
<1> QED BY <1>1, <1>2, <1>3

\* What an instruction reads of a register outside T, the PC too, is a word.
LEMMA ArmReg ==
  ASSUME NEW T, 15 \notin T, NEW s \in ArmMachine(T), NEW r \in Arm!Register \ T
  PROVE  Arm!Reg(s, r) \in Word /\ s.regs[15] \in Word
<1>1. s.regs[r] \in Word /\ s.regs[15] \in Word
  BY ArmSet DEF Arm!Register
<1>2. s.regs[15] \in Int
  BY <1>1, WordArithmetic
<1>3. s.regs[15] + 4 \in Int
  BY <1>2
<1>4. (s.regs[15] + 4) % M \in Word
  BY <1>3, WordType
<1> QED BY <1>1, <1>4, ArmModulus DEF Arm!Reg

\* A machine that reports an error is a machine.
LEMMA ArmFails ==
  ASSUME NEW T, NEW s \in ArmMachine(T), NEW e \in Errors
  PROVE  Fails(s, e) \in ArmMachine(T)
BY DEF Fails, ArmMachine

\* Setting the flags keeps the machine.
LEMMA ArmSetFlags ==
  ASSUME NEW T, NEW s \in ArmMachine(T), NEW f \in SUBSET Arm!CpsrBit
  PROVE  [s EXCEPT !.cpsr.flags = f] \in ArmMachine(T)
<1>1. [s.cpsr EXCEPT !.flags = f] \in Status
  BY ArmSet DEF Status
<1>2. \A c \in Status : [s EXCEPT !.cpsr = c] \in ArmMachine(T)
  BY DEF ArmMachine
<1>3. [s EXCEPT !.cpsr.flags = f] = [s EXCEPT !.cpsr = [s.cpsr EXCEPT !.flags = f]]
  OBVIOUS
<1> QED BY <1>1, <1>2, <1>3

\* A store keeps the machine, whether it succeeds or not.
LEMMA ArmStored ==
  ASSUME NEW T, NEW s \in ArmMachine(T), NEW a, NEW n \in Nat, NEW v \in Int
  PROVE  Stored(s, a, n, v) \in ArmMachine(T)
<1>1. Filled(s.mem, a, n, v) \in [Cells -> Byte] /\ Filled(s.mem, a, 1, v) \in [Cells -> Byte]
  BY FilledType DEF ArmMachine
<1>2. [s EXCEPT !.mem = Filled(s.mem, a, n, v)] \in ArmMachine(T)
  BY <1>1 DEF ArmMachine
<1>3. [[s EXCEPT !.mem = Filled(s.mem, a, 1, v)] EXCEPT !.err = "fault"] \in ArmMachine(T)
  BY <1>1 DEF ArmMachine, Errors
<1>4. [s EXCEPT !.err = "fault"] \in ArmMachine(T)
  BY DEF ArmMachine, Errors
<1> QED BY <1>2, <1>3, <1>4 DEF Stored, Fails

-----------------------------------------------------------------------------
(* The shifter and the adders.                                             *)

\* The carry, as a number.
LEMMA ArmCarry ==
  ASSUME NEW s
  PROVE  Arm!Carry(s) \in {0, 1}
BY DEF Arm!Carry

\* A shift by zero gives a word.
LEMMA ArmShiftByZero ==
  ASSUME NEW val \in Word, NEW type \in Arm!ShiftType, NEW c \in {0, 1}
  PROVE  Arm!ShiftByZero(val, type, c).val \in Word
<1> DEFINE h == 2^(Width - 1)
           ror == c * h + ShiftedRight(val, 1)
           sign == IF Bit(val, Width - 1) THEN M - 1 ELSE 0
<1>1. h \in Nat /\ h >= 1 /\ M = 2 * h
  <2>1. Width - 1 \in Nat /\ (Width - 1) + 1 = Width /\ M = 2^Width
    BY Spans
  <2> DEFINE w == Width - 1
  <2> HIDE DEF w
  <2>2. w \in Nat
    BY <2>1 DEF w
  <2>3. 2^(w + 1) = 2 * 2^w /\ 2^w \in Nat /\ 2^w >= 1
    BY <2>2, PowerSucc, PowerPositive
  <2> QED BY <2>1, <2>3 DEF w
<1>2. ror \in Word
  <2>1. val \in Nat /\ val < 2 * h
    BY <1>1 DEF Word
  <2>2. val \div 2 \in 0 .. h - 1
    BY <1>1, <2>1
  <2>3. 2^1 = 2
    BY SMT
  <2>4. ShiftedRight(val, 1) = val \div 2
    BY <2>3 DEF ShiftedRight
  <2>5. c * h \in {0, h}
    BY <1>1
  <2> HIDE DEF h
  <2>6. c * h + (val \div 2) \in 0 .. 2 * h - 1
    BY <1>1, <2>2, <2>5
  <2> QED BY <1>1, <2>4, <2>6 DEF Word
<1>3. sign \in Word /\ 0 \in Word
  BY WordType
<1>4. type \in {"Lsl", "Lsr", "Asr", "Ror"}
  BY DEF Arm!ShiftType, Arm!ShiftTypes
<1>5. /\ type = "Lsl" => Arm!ShiftByZero(val, type, c).val = val
      /\ type = "Lsr" => Arm!ShiftByZero(val, type, c).val = 0
      /\ type = "Asr" => Arm!ShiftByZero(val, type, c).val
                           = IF Arm!Bit(val, Arm!Width - 1) THEN Arm!M - 1 ELSE 0
      /\ type = "Ror" => Arm!ShiftByZero(val, type, c).val
                           = c * 2^(Arm!Width - 1) + Arm!ShiftedRight(val, 1)
  BY DEF Arm!ShiftByZero
<1>6. Arm!Bit(val, Width - 1) = Bit(val, Width - 1) /\ Arm!ShiftedRight(val, 1) = ShiftedRight(val, 1)
  BY ArmWords
<1>7. /\ type = "Asr" => Arm!ShiftByZero(val, type, c).val = sign
      /\ type = "Ror" => Arm!ShiftByZero(val, type, c).val = ror
  BY <1>5, <1>6, ArmModulus
<1> HIDE DEF sign, ror
<1> QED BY <1>2, <1>3, <1>4, <1>5, <1>7

\* A shift by any amount gives a word.
LEMMA ArmShiftBy ==
  ASSUME NEW val \in Word, NEW type \in Arm!ShiftType, NEW amount \in Nat
  PROVE  Arm!ShiftBy(val, type, amount).val \in Word
<1>1. type \in {"Lsl", "Lsr", "Asr", "Ror"}
  BY DEF Arm!ShiftType, Arm!ShiftTypes
<1>2. Width \in Nat /\ Width >= 4
  BY Spans
<1>3. amount % Width \in Nat /\ amount % Width <= Width
  BY <1>2
<1>4. /\ ShiftedLeft(val, amount) \in Word /\ ShiftedRight(val, amount) \in Word
      /\ ArithmeticRight(val, amount) \in Word
  BY ShiftType
<1>5. RotatedRight(val, amount % Width) \in Word
  BY <1>3, ShiftType
<1>6. Arm!ShiftByZero(val, "Asr", 0).val \in Word
  <2>1. "Asr" \in Arm!ShiftType
    BY DEF Arm!ShiftType, Arm!ShiftTypes
  <2> QED BY <2>1, ArmShiftByZero
<1>7. 0 \in Word
  BY WordType
<1>8. /\ type = "Lsl" => Arm!ShiftBy(val, type, amount).val \in {0, Arm!ShiftedLeft(val, amount)}
      /\ type = "Lsr" => Arm!ShiftBy(val, type, amount).val \in {0, Arm!ShiftedRight(val, amount)}
      /\ type = "Asr" => Arm!ShiftBy(val, type, amount).val
                           \in {Arm!ShiftByZero(val, "Asr", 0).val, Arm!ArithmeticRight(val, amount)}
      /\ type = "Ror" => Arm!ShiftBy(val, type, amount).val
                           \in {val, Arm!RotatedRight(val, amount % Arm!Width)}
  BY DEF Arm!ShiftBy
<1>9. /\ Arm!ShiftedLeft(val, amount) = ShiftedLeft(val, amount)
      /\ Arm!ShiftedRight(val, amount) = ShiftedRight(val, amount)
      /\ Arm!ArithmeticRight(val, amount) = ArithmeticRight(val, amount)
      /\ Arm!RotatedRight(val, amount % Arm!Width) = RotatedRight(val, amount % Width)
  BY ArmWords
<1> QED BY <1>1, <1>4, <1>5, <1>6, <1>7, <1>8, <1>9

\* The second operand is a word if none of its registers is in T.
LEMMA ArmOperand ==
  ASSUME NEW T, 15 \notin T, NEW s \in ArmMachine(T), NEW o \in Arm!Operand2,
         OperandRegisters(o) \cap T = {}
  PROVE  Arm!EvaluateOperand2(s, o).val \in Word
<1>1. CASE "val" \in DOMAIN o
  <2>1. o.val \cap Position \in SUBSET Position
    OBVIOUS
  <2>2. Arm!EvaluateOperand2(s, o).val = Arm!ValueOf[o.val \cap Arm!Position]
    BY <1>1 DEF Arm!EvaluateOperand2
  <2> QED BY <2>1, <2>2, ValueOfType, ArmModulus
<1>2. CASE "val" \notin DOMAIN o
  <2>1. o \in [rm : Arm!Register, shift : Arm!Shift]
    BY <1>2 DEF Arm!Operand2
  <2> DEFINE type == o.shift.shift_type
             amount == IF "rs" \in DOMAIN o.shift THEN Arm!Reg(s, o.shift.rs) % (8 * Arm!Width)
                       ELSE o.shift.amount
             val == Arm!Reg(s, o.rm)
  <2>2. o.rm \in Arm!Register \ T /\ o.shift \in Arm!Shift
    BY <1>2, <2>1 DEF OperandRegisters
  <2>3. type \in Arm!ShiftType
    BY <2>2 DEF Arm!Shift
  <2>4. val \in Word
    BY <2>2, ArmReg
  <2>5. amount \in Nat
    <3>1. CASE "rs" \in DOMAIN o.shift
      <4>1. o.shift.rs \in Arm!Register
        BY <2>2, <3>1 DEF Arm!Shift
      <4>2. o.shift.rs \notin T
        BY <1>2, <3>1 DEF OperandRegisters
      <4>3. Arm!Reg(s, o.shift.rs) \in Int
        BY <4>1, <4>2, ArmReg, WordArithmetic
      <4>4. 8 * Width \in Nat /\ 8 * Width >= 1
        BY Spans
      <4>5. Arm!Reg(s, o.shift.rs) % (8 * Width) \in Nat
        BY <4>3, <4>4, Remainder
      <4> QED BY <3>1, <4>5, ArmModulus
    <3>2. CASE "rs" \notin DOMAIN o.shift
      <4>1. o.shift.amount \in Nat
        BY <2>2, <3>2 DEF Arm!Shift, Arm!BitNo
      <4> QED BY <3>2, <4>1
    <3> QED BY <3>1, <3>2
  <2>6. Arm!EvaluateOperand2(s, o) = IF amount = 0 THEN Arm!ShiftByZero(val, type, Arm!Carry(s))
                                     ELSE Arm!ShiftBy(val, type, amount)
    BY <1>2 DEF Arm!EvaluateOperand2
  <2> HIDE DEF type, amount, val
  <2>7. Arm!ShiftByZero(val, type, Arm!Carry(s)).val \in Word
    BY <2>3, <2>4, ArmCarry, ArmShiftByZero
  <2>8. Arm!ShiftBy(val, type, amount).val \in Word
    BY <2>3, <2>4, <2>5, ArmShiftBy
  <2> QED BY <2>6, <2>7, <2>8
<1> QED BY <1>1, <1>2

\* Whatever is set and cleared, a set of flags stays one.
LEMMA ArmFlagSets ==
  ASSUME NEW flags \in SUBSET Arm!CpsrBit
  PROVE  /\ \A f \in Arm!CpsrBit : \A on : Arm!SetFlag(flags, f, on) \in SUBSET Arm!CpsrBit
         /\ \A res, c : Arm!SetLogicFlags(flags, res, c) \in SUBSET Arm!CpsrBit
         /\ \A res, c, v : Arm!Nzcv(flags, res, c, v) \in SUBSET Arm!CpsrBit
<1>1. \A g \in SUBSET Arm!CpsrBit, f \in Arm!CpsrBit : \A on : Arm!SetFlag(g, f, on) \in SUBSET Arm!CpsrBit
  BY DEF Arm!SetFlag
<1>2. "N" \in Arm!CpsrBit /\ "Z" \in Arm!CpsrBit /\ "C" \in Arm!CpsrBit /\ "V" \in Arm!CpsrBit
  BY DEF Arm!CpsrBit
<1>3. \A res, c : Arm!SetLogicFlags(flags, res, c) \in SUBSET Arm!CpsrBit
  BY <1>1, <1>2 DEF Arm!SetLogicFlags
<1>4. \A res, c, v : Arm!Nzcv(flags, res, c, v) \in SUBSET Arm!CpsrBit
  BY <1>1, <1>2, <1>3 DEF Arm!Nzcv
<1> QED BY <1>1, <1>3, <1>4

\* The adders give words and flags, with and without carry.
LEMMA ArmAdders ==
  ASSUME NEW flags \in SUBSET Arm!CpsrBit, NEW a \in Word, NEW b \in Word, NEW u, NEW c \in {0, 1}
  PROVE  /\ Arm!DoAdd(flags, a, b, u).res \in Word
         /\ Arm!DoAdd(flags, a, b, u).flags \in SUBSET Arm!CpsrBit
         /\ Arm!DoSub(flags, a, b, u).res \in Word
         /\ Arm!DoSub(flags, a, b, u).flags \in SUBSET Arm!CpsrBit
         /\ Arm!DoAddCarry(flags, a, b, c, u).res \in Word
         /\ Arm!DoAddCarry(flags, a, b, c, u).flags \in SUBSET Arm!CpsrBit
         /\ Arm!DoSubCarry(flags, a, b, c, u).res \in Word
         /\ Arm!DoSubCarry(flags, a, b, c, u).flags \in SUBSET Arm!CpsrBit
<1>1. \A x \in Word, y \in Int : (x + y) % M \in Word /\ (x - y) % M \in Word
  BY WordArithmetic
<1>2. b \in Int /\ c \in Int
  BY WordArithmetic
<1> DEFINE sum == (a + b) % M   difference == (a - b) % M
<1>3. sum \in Word /\ difference \in Word
  BY <1>1, <1>2
<1> HIDE DEF sum, difference
<1>4. (sum + c) % M \in Word /\ (difference - c) % M \in Word
  BY <1>1, <1>2, <1>3
<1>5. /\ Arm!DoAdd(flags, a, b, u).res = (a + b) % Arm!M
      /\ Arm!DoSub(flags, a, b, u).res = (a - b) % Arm!M
      /\ Arm!DoAddCarry(flags, a, b, c, u).res = (((a + b) % Arm!M) + c) % Arm!M
      /\ Arm!DoSubCarry(flags, a, b, c, u).res = (((a - b) % Arm!M) - c) % Arm!M
  BY DEF Arm!DoAdd, Arm!DoSub, Arm!DoAddCarry, Arm!DoSubCarry
<1>6. \A r, k, v : Arm!Nzcv(flags, r, k, v) \in SUBSET Arm!CpsrBit
  BY ArmFlagSets
<1>7. Arm!DoAdd(flags, a, b, u).flags \in SUBSET Arm!CpsrBit
  BY <1>6, Zenon DEF Arm!DoAdd
<1>8. Arm!DoSub(flags, a, b, u).flags \in SUBSET Arm!CpsrBit
  BY <1>6, Zenon DEF Arm!DoSub
<1>9. Arm!DoAddCarry(flags, a, b, c, u).flags \in SUBSET Arm!CpsrBit
  BY <1>6, Zenon DEF Arm!DoAddCarry
<1>10. Arm!DoSubCarry(flags, a, b, c, u).flags \in SUBSET Arm!CpsrBit
  BY <1>6, Zenon DEF Arm!DoSubCarry
<1> QED BY <1>3, <1>4, <1>5, <1>7, <1>8, <1>9, <1>10, ArmModulus DEF sum, difference

-----------------------------------------------------------------------------
(* What an instruction's variant says of its fields.                       *)

\* Each of the executor's groups has its own names.
LEMMA ArmVariants ==
  /\ \A i \in Arm!DataProcessingInstr :
        i.op \in {"And", "Eor", "Sub", "Rsb", "Add", "Adc", "Sbc", "Rsc", "Tst", "Teq",
                  "Cmp", "Cmn", "Orr", "Mov", "Bic", "Mvn"}
  /\ \A i \in Arm!MoveInstr : i.op \in {"Movw", "Movt"}
  /\ \A i \in Arm!StatusInstr : i.op \in {"Mrs", "Msr"}
  /\ \A i \in Arm!MultiplyInstr : i.op \in {"Mul", "Mla", "Umull", "Umlal", "Smull", "Smlal"}
  /\ \A i \in Arm!MediaInstr :
        i.op \in {"Bfc", "Bfi", "Ubfx", "Sbfx", "Rev", "Rev16", "Revsh", "Clz",
                  "Sxtb", "Sxth", "Uxtb", "Uxth"}
  /\ \A i \in Arm!TransferInstr :
        i.op \in {"Ldr", "Str", "Ldrb", "Strb", "Ldrh", "Strh", "Ldrsb", "Ldrsh"}
  /\ \A i \in Arm!BlockTransferInstr : i.op \in {"Ldm", "Stm"}
  /\ \A i \in Arm!ControlInstr : i.op \in {"B", "Bl", "Bx", "Blx", "Svc", "Bkpt", "Nop", "Unknown"}
<1>1. \A i \in Arm!DataProcessingInstr :
         i.op \in {"And", "Eor", "Sub", "Rsb", "Add", "Adc", "Sbc", "Rsc", "Tst", "Teq",
                   "Cmp", "Cmn", "Orr", "Mov", "Bic", "Mvn"}
  BY DEF Arm!DataProcessingInstr
<1>2. \A i \in Arm!MoveInstr : i.op \in {"Movw", "Movt"}
  BY DEF Arm!MoveInstr
<1>3. \A i \in Arm!StatusInstr : i.op \in {"Mrs", "Msr"}
  BY DEF Arm!StatusInstr
<1>4. \A i \in Arm!MultiplyInstr : i.op \in {"Mul", "Mla", "Umull", "Umlal", "Smull", "Smlal"}
  BY DEF Arm!MultiplyInstr
<1>5. \A i \in Arm!MediaInstr :
         i.op \in {"Bfc", "Bfi", "Ubfx", "Sbfx", "Rev", "Rev16", "Revsh", "Clz",
                   "Sxtb", "Sxth", "Uxtb", "Uxth"}
  BY DEF Arm!MediaInstr
<1>6. \A i \in Arm!TransferInstr :
         i.op \in {"Ldr", "Str", "Ldrb", "Strb", "Ldrh", "Strh", "Ldrsb", "Ldrsh"}
  BY DEF Arm!TransferInstr
<1>7. \A i \in Arm!BlockTransferInstr : i.op \in {"Ldm", "Stm"}
  BY DEF Arm!BlockTransferInstr
<1>8. \A i \in Arm!ControlInstr :
         i.op \in {"B", "Bl", "Bx", "Blx", "Svc", "Bkpt", "Nop", "Unknown"}
  BY DEF Arm!ControlInstr
<1> QED BY <1>1, <1>2, <1>3, <1>4, <1>5, <1>6, <1>7, <1>8

\* An instruction with a group's name is in that group.
LEMMA ArmKinds ==
  ASSUME NEW i \in Arm!Instr
  PROVE  /\ i.op \in {"And", "Eor", "Sub", "Rsb", "Add", "Adc", "Sbc", "Rsc", "Tst", "Teq",
                      "Cmp", "Cmn", "Orr", "Mov", "Bic", "Mvn"} => i \in Arm!DataProcessingInstr
         /\ i.op \in {"Movw", "Movt"} => i \in Arm!MoveInstr
         /\ i.op \in {"Mrs", "Msr"} => i \in Arm!StatusInstr
         /\ i.op \in {"Mul", "Mla", "Umull", "Umlal", "Smull", "Smlal"} => i \in Arm!MultiplyInstr
         /\ i.op \in {"Bfc", "Bfi", "Ubfx", "Sbfx", "Rev", "Rev16", "Revsh", "Clz",
                      "Sxtb", "Sxth", "Uxtb", "Uxth"} => i \in Arm!MediaInstr
         /\ i.op \in {"Ldr", "Str", "Ldrb", "Strb", "Ldrh", "Strh", "Ldrsb", "Ldrsh"}
              => i \in Arm!TransferInstr
         /\ i.op \in {"Ldm", "Stm"} => i \in Arm!BlockTransferInstr
         /\ i.op \in {"B", "Bl", "Bx", "Blx", "Svc", "Bkpt", "Nop", "Unknown"}
              => i \in Arm!ControlInstr
         /\ i.op \in {"And", "Eor", "Sub", "Rsb", "Add", "Adc", "Sbc", "Rsc", "Tst", "Teq",
                      "Cmp", "Cmn", "Orr", "Mov", "Bic", "Mvn"}
            \/ i.op \in {"Movw", "Movt"} \/ i.op \in {"Mrs", "Msr"}
            \/ i.op \in {"Mul", "Mla", "Umull", "Umlal", "Smull", "Smlal"}
            \/ i.op \in {"Bfc", "Bfi", "Ubfx", "Sbfx", "Rev", "Rev16", "Revsh", "Clz",
                         "Sxtb", "Sxth", "Uxtb", "Uxth"}
            \/ i.op \in {"Ldr", "Str", "Ldrb", "Strb", "Ldrh", "Strh", "Ldrsb", "Ldrsh"}
            \/ i.op \in {"Ldm", "Stm"}
            \/ i.op \in {"B", "Bl", "Bx", "Blx", "Svc", "Bkpt", "Nop", "Unknown"}
<1>1. \/ i \in Arm!DataProcessingInstr \/ i \in Arm!MoveInstr \/ i \in Arm!StatusInstr
      \/ i \in Arm!MultiplyInstr \/ i \in Arm!MediaInstr \/ i \in Arm!TransferInstr
      \/ i \in Arm!BlockTransferInstr \/ i \in Arm!ControlInstr
  BY DEF Arm!Instr
<1> QED BY <1>1, ArmVariants

\* The names of the sixteen data processing instructions.
LEMMA ArmGroups ==
  {Arm!DataOps[k] : k \in 1 .. 16}
    = {"And", "Eor", "Sub", "Rsb", "Add", "Adc", "Sbc", "Rsc", "Tst", "Teq",
       "Cmp", "Cmn", "Orr", "Mov", "Bic", "Mvn"}
BY DEF Arm!DataOps

-----------------------------------------------------------------------------
(* Data processing                                                         *)

\* The adders of data processing give words and flags.
LEMMA ArmArithmetic ==
  ASSUME NEW T, NEW s \in ArmMachine(T), NEW i, NEW a \in Word, NEW b \in Word,
         i.op \in {"Sub", "Rsb", "Add", "Adc", "Sbc", "Rsc", "Cmp", "Cmn"}
  PROVE  /\ Arm!Arithmetic(s, i, s.cpsr.flags, a, b).res \in Word
         /\ Arm!Arithmetic(s, i, s.cpsr.flags, a, b).flags \in SUBSET Arm!CpsrBit
<1> DEFINE f == s.cpsr.flags
           Good(out) == out.res \in Word /\ out.flags \in SUBSET Arm!CpsrBit
           c == Arm!Carry(s)
<1>1. f \in SUBSET Arm!CpsrBit
  BY ArmSet
<1>2. c \in {0, 1} /\ 1 - c \in {0, 1}
  BY ArmCarry
<1>3. Arm!Arithmetic(s, i, f, a, b)
        \in {Arm!DoSub(f, a, b, i.s), Arm!DoSub(f, b, a, i.s), Arm!DoAdd(f, a, b, i.s),
             Arm!DoAddCarry(f, a, b, c, i.s), Arm!DoSubCarry(f, a, b, 1 - c, i.s),
             Arm!DoSubCarry(f, b, a, 1 - c, i.s), Arm!DoSub(f, a, b, TRUE), Arm!DoAdd(f, a, b, TRUE)}
  BY DEF Arm!Arithmetic
<1> HIDE DEF f, c
<1>4. \A u : /\ Good(Arm!DoSub(f, a, b, u)) /\ Good(Arm!DoSub(f, b, a, u))
             /\ Good(Arm!DoAdd(f, a, b, u)) /\ Good(Arm!DoAddCarry(f, a, b, c, u))
             /\ Good(Arm!DoSubCarry(f, a, b, 1 - c, u)) /\ Good(Arm!DoSubCarry(f, b, a, 1 - c, u))
  BY <1>1, <1>2, ArmAdders
<1>5. Good(Arm!Arithmetic(s, i, f, a, b))
  <2> HIDE DEF Good
  <2> QED BY <1>3, <1>4
<1> QED BY <1>5 DEF f

\* The logical operations of data processing give words and flags.
LEMMA ArmLogic ==
  ASSUME NEW T, NEW s \in ArmMachine(T), NEW i, NEW a \in Word, NEW o, o.val \in Word,
         i.op \in {"And", "Tst", "Eor", "Teq", "Orr", "Bic", "Mov", "Mvn"}
  PROVE  /\ Arm!Logic(s, i, a, o).res \in Word
         /\ Arm!Logic(s, i, a, o).flags \in SUBSET Arm!CpsrBit
<1> DEFINE b == o.val
<1>1. And(a, b) \in Word /\ Or(a, b) \in Word /\ Xor(a, b) \in Word /\ Not(b) \in Word
  BY BitwiseType
<1>2. And(a, Not(b)) \in Word
  BY <1>1, BitwiseType
<1>3. Arm!Logic(s, i, a, o).res
        \in {Arm!And(a, b), Arm!Xor(a, b), Arm!Or(a, b), Arm!And(a, Arm!Not(b)), b, Arm!Not(b)}
  BY DEF Arm!Logic
<1>4. \A v : Arm!SetLogicFlags(s.cpsr.flags, v, o.carry) \in SUBSET Arm!CpsrBit
             /\ s.cpsr.flags \in SUBSET Arm!CpsrBit
  BY ArmSet, ArmFlagSets
<1>5. Arm!Logic(s, i, a, o).flags \in SUBSET Arm!CpsrBit
  BY <1>4, Zenon DEF Arm!Logic
<1>6. /\ Arm!And(a, b) = And(a, b) /\ Arm!Xor(a, b) = Xor(a, b) /\ Arm!Or(a, b) = Or(a, b)
      /\ Arm!Not(b) = Not(b) /\ Arm!And(a, Arm!Not(b)) = And(a, Not(b))
  BY ArmWords
<1> QED BY <1>1, <1>2, <1>3, <1>5, <1>6

\* Data processing keeps the machine.
LEMMA ArmDataProcessing ==
  ASSUME NEW T, 15 \notin T, NEW s \in ArmMachine(T), NEW i \in Arm!DataProcessingInstr,
         KeepsStatuses(i, T)
  PROVE  Arm!DataProcessing(s, i) \in ArmMachine(T)
<1> DEFINE a == Arm!Reg(s, i.rn)
           o == Arm!EvaluateOperand2(s, i.op2)
           out == IF i.op \in {"Sub", "Rsb", "Add", "Adc", "Sbc", "Rsc", "Cmp", "Cmn"}
                  THEN Arm!Arithmetic(s, i, s.cpsr.flags, a, o.val) ELSE Arm!Logic(s, i, a, o)
<1>1. i.op \in {"And", "Eor", "Sub", "Rsb", "Add", "Adc", "Sbc", "Rsc", "Tst", "Teq",
                "Cmp", "Cmn", "Orr", "Mov", "Bic", "Mvn"}
  BY ArmVariants
<1>2. i.rd \in Arm!Register /\ i.rn \in Arm!Register /\ i.op2 \in Arm!Operand2
  BY DEF Arm!DataProcessingInstr
<1>3. ({i.rd, i.rn} \cup OperandRegisters(i.op2)) \cap T = {}
  BY <1>1, ArmGroups, Zenon DEF KeepsStatuses, WordRegisters
<1>4. a \in Word
  BY <1>2, <1>3, ArmReg
<1>5. o.val \in Word
  BY <1>2, <1>3, ArmOperand
<1>6. Arm!DataProcessing(s, i) =
        [s EXCEPT !.cpsr.flags = out.flags,
                  !.regs = IF i.op \in {"Tst", "Teq", "Cmp", "Cmn"} THEN s.regs
                           ELSE [s.regs EXCEPT ![i.rd] = out.res]]
  BY DEF Arm!DataProcessing
<1> HIDE DEF a, o
<1>7. out.res \in Word /\ out.flags \in SUBSET Arm!CpsrBit
  BY <1>1, <1>4, <1>5, ArmArithmetic, ArmLogic
<1> HIDE DEF out
<1> DEFINE t == [s EXCEPT !.cpsr.flags = out.flags]
           g == IF i.op \in {"Tst", "Teq", "Cmp", "Cmn"} THEN s.regs
                ELSE [s.regs EXCEPT ![i.rd] = out.res]
<1>8. t \in ArmMachine(T)
  BY <1>7, ArmSetFlags
<1>9. g \in ArmRegs(T)
  BY <1>2, <1>7, ArmSet, ArmRegsSet
<1>10. Arm!DataProcessing(s, i) = [t EXCEPT !.regs = g]
  BY <1>6
<1> HIDE DEF t, g
<1> QED BY <1>8, <1>9, <1>10 DEF ArmMachine

\* MOVW and MOVT keep the machine.
LEMMA ArmMove ==
  ASSUME NEW T, 15 \notin T, NEW s \in ArmMachine(T), NEW i \in Arm!MoveInstr, KeepsStatuses(i, T)
  PROVE  Arm!Move(s, i) \in ArmMachine(T)
<1>1. i.op \in {"Movw", "Movt"}
  BY ArmVariants
<1>2. i.rd \in Arm!Register /\ i.imm16 \in Nat
  <2>1. i.rd \in Arm!Register /\ i.imm16 \in Arm!Unsigned(16)
    BY DEF Arm!MoveInstr
  <2>2. \A n \in Nat : Unsigned(n) \subseteq Nat
    BY DEF Unsigned
  <2> QED BY <2>1, <2>2, ArmWords
<1>3. i.rd \notin T
  <2>1. WordRegisters(i) = {i.rd}
    BY <1>1, ArmGroups, Zenon DEF WordRegisters
  <2> QED BY <1>1, <2>1, Zenon DEF KeepsStatuses
<1> DEFINE old == Arm!Reg(s, i.rd)   q == Span(2)   low == old % q   imm == i.imm16 % q
<1>4. old \in Nat /\ q \in Nat /\ q >= 4 /\ M = q * q
  BY <1>2, <1>3, ArmReg, WordArithmetic, Spans
<1>5. low \in 0 .. q - 1 /\ imm \in 0 .. q - 1
  <2> HIDE DEF q, old
  <2> QED BY <1>2, <1>4
<1>6. imm \in Word /\ low + imm * q \in Word
  <2> HIDE DEF q, low, imm
  <2>1. imm <= q - 1 /\ low <= q - 1 /\ imm \in Nat /\ low \in Nat
    BY <1>4, <1>5
  <2>2. imm * q \in Nat /\ imm * q <= (q - 1) * q
    BY <1>4, <2>1
  <2>3. (q - 1) * q = q * q - q
    BY <1>4
  <2>4. low + imm * q \in Nat /\ low + imm * q <= M - 1
    BY <1>4, <2>1, <2>2, <2>3
  <2>5. imm <= M - 1
    <3>1. q <= q * q
      BY <1>4
    <3> QED BY <1>4, <2>1, <3>1
  <2> QED BY <1>4, <2>1, <2>4, <2>5 DEF Word
<1>7. Arm!Move(s, i) = Arm!Put(s, i.rd, IF i.op = "Movw" THEN imm ELSE low + imm * q)
  BY ArmModulus DEF Arm!Move
<1> HIDE DEF imm, low, q
<1> QED BY <1>2, <1>6, <1>7, ArmPut

\* Every number selects a mode, and the banked ones are modes.
LEMMA ArmModes ==
  /\ \A n : Arm!ModeFrom(n) \in Arm!Mode
  /\ Arm!Banked \subseteq Arm!Mode
<1>1. "Supervisor" \in Arm!Mode
  BY DEF Arm!Mode, Arm!ModeNo
<1>2. \A n : Arm!ModeFrom(n) \in Arm!Mode
  BY <1>1 DEF Arm!ModeFrom
<1>3. Arm!Banked \subseteq Arm!Mode
  BY DEF Arm!Mode, Arm!ModeNo, Arm!Banked
<1> QED BY <1>2, <1>3

\* Setting a banked status keeps the machine.
LEMMA ArmBanks ==
  ASSUME NEW T, NEW s \in ArmMachine(T), NEW b \in Arm!Banked, NEW p \in Status
  PROVE  [s EXCEPT !.spsr[b] = p] \in ArmMachine(T)
<1>1. [s.spsr EXCEPT ![b] = p] \in [Arm!Banked -> Status]
  BY ArmSet
<1>2. \A f \in [Arm!Banked -> Status] : [s EXCEPT !.spsr = f] \in ArmMachine(T)
  BY DEF ArmMachine
<1>3. [s EXCEPT !.spsr[b] = p] = [s EXCEPT !.spsr = [s.spsr EXCEPT ![b] = p]]
  OBVIOUS
<1> QED BY <1>1, <1>2, <1>3

\* MRS, which puts a status in a register of T, keeps the machine.
LEMMA ArmMrs ==
  ASSUME NEW T, NEW s \in ArmMachine(T), NEW i \in Arm!StatusInstr, i.op = "Mrs",
         KeepsStatuses(i, T)
  PROVE  Arm!Mrs(s, i) \in ArmMachine(T)
<1>1. i.rd \in Arm!Register /\ i.rd \in T
  BY DEF Arm!StatusInstr, KeepsStatuses
<1> DEFINE v == IF Arm!Saved(s, i) THEN s.spsr[s.cpsr.mode] ELSE s.cpsr
<1>2. v \in Status
  BY ArmSet DEF Arm!Saved
<1> HIDE DEF v
<1>3. Arm!Mrs(s, i) = Arm!Put(s, i.rd, v)
  BY DEF Arm!Mrs, v
<1> QED BY <1>1, <1>2, <1>3, ArmPut

\* MSR keeps the machine, whatever is in its register.
LEMMA ArmMsr ==
  ASSUME NEW T, NEW s \in ArmMachine(T), NEW i
  PROVE  Arm!Msr(s, i) \in ArmMachine(T)
<1> DEFINE val == IF "val" \in DOMAIN i.op2 THEN Arm!StatusOf(i.op2.val)
                  ELSE Arm!EvaluateOperand2(s, i.op2).val
           Merged(psr) ==
             [flags |-> {f \in Arm!CpsrBit : IF Arm!FlagNo[f] \div 8 \in i.mask
                                             THEN f \in val.flags ELSE f \in psr.flags},
              mode |-> IF 0 \in i.mask THEN Arm!ModeFrom(Arm!ModeNo[val.mode]) ELSE psr.mode]
<1>1. \A psr \in Status : Merged(psr) \in Status
  <2> SUFFICES ASSUME NEW psr \in Status PROVE Merged(psr) \in Status
    OBVIOUS
  <2> DEFINE m == IF 0 \in i.mask THEN Arm!ModeFrom(Arm!ModeNo[val.mode]) ELSE psr.mode
             g == {f \in Arm!CpsrBit : IF Arm!FlagNo[f] \div 8 \in i.mask
                                       THEN f \in val.flags ELSE f \in psr.flags}
  <2>1. m \in Arm!Mode
    <3>1. psr.mode \in Arm!Mode
      BY DEF Status
    <3> HIDE DEF val
    <3> QED BY <3>1, ArmModes, Zenon
  <2>2. g \in SUBSET Arm!CpsrBit
    OBVIOUS
  <2>3. Merged(psr) = [flags |-> g, mode |-> m]
    OBVIOUS
  <2> HIDE DEF m, g, Merged
  <2> QED BY <2>1, <2>2, <2>3 DEF Status
<1>2. Arm!Msr(s, i) = IF Arm!Saved(s, i)
                      THEN [s EXCEPT !.spsr[s.cpsr.mode] = Merged(s.spsr[s.cpsr.mode])]
                      ELSE [s EXCEPT !.cpsr = Merged(s.cpsr)]
  BY DEF Arm!Msr
<1> HIDE DEF Merged
<1>3. CASE Arm!Saved(s, i)
  <2>1. s.cpsr.mode \in Arm!Banked
    BY <1>3 DEF Arm!Saved
  <2>2. Merged(s.spsr[s.cpsr.mode]) \in Status
    BY <1>1, <2>1, ArmSet
  <2> QED BY <1>2, <1>3, <2>1, <2>2, ArmBanks
<1>4. CASE ~Arm!Saved(s, i)
  <2>1. Merged(s.cpsr) \in Status
    BY <1>1, ArmSet
  <2>2. \A c \in Status : [s EXCEPT !.cpsr = c] \in ArmMachine(T)
    BY DEF ArmMachine
  <2> QED BY <1>2, <1>4, <2>1, <2>2
<1> QED BY <1>3, <1>4

-----------------------------------------------------------------------------
(* Multiplies                                                              *)

\* Setting N and Z keeps the machine.
LEMMA ArmNZ ==
  ASSUME NEW T, NEW s \in ArmMachine(T), NEW i, NEW negative, NEW zero
  PROVE  Arm!NZ(s, i, negative, zero) \in ArmMachine(T)
<1> DEFINE f == Arm!SetFlag(Arm!SetFlag(s.cpsr.flags, "N", negative), "Z", zero)
<1>1. "N" \in Arm!CpsrBit /\ "Z" \in Arm!CpsrBit
  BY DEF Arm!CpsrBit
<1>2. f \in SUBSET Arm!CpsrBit
  BY <1>1, ArmSet, ArmFlagSets
<1>3. Arm!NZ(s, i, negative, zero) = IF i.s THEN [s EXCEPT !.cpsr.flags = f] ELSE s
  BY DEF Arm!NZ
<1> HIDE DEF f
<1> QED BY <1>2, <1>3, ArmSetFlags

\* Products of words, signed and unsigned.
LEMMA ProductType ==
  ASSUME NEW a \in Word, NEW b \in Word
  PROVE  /\ a * b \in Int /\ (a * b) % M \in Word
         /\ Signed(a, M) * Signed(b, M) \in Int
<1>1. a \in Int /\ b \in Int /\ M \in Nat
  BY WordArithmetic, Spans
<1>2. a * b \in Int /\ Signed(a, M) \in Int /\ Signed(b, M) \in Int
  BY <1>1, SignedType
<1>3. (a * b) % M \in Word
  BY <1>2, WordType
<1> HIDE DEF M
<1>4. \A x \in Int, y \in Int : x * y \in Int
  OBVIOUS
<1> QED BY <1>2, <1>3, <1>4

\* MUL and MLA keep the machine.
LEMMA ArmMultiply ==
  ASSUME NEW T, 15 \notin T, NEW s \in ArmMachine(T), NEW i \in Arm!MultiplyInstr,
         i.op \in {"Mul", "Mla"}, KeepsStatuses(i, T)
  PROVE  Arm!Multiply(s, i) \in ArmMachine(T)
<1> DEFINE mul == (Arm!Reg(s, i.rm) * Arm!Reg(s, i.rs)) % M
           res == IF i.op = "Mla" THEN (mul + Arm!Reg(s, i.rn)) % M ELSE mul
<1>1. i.rd \in Arm!Register /\ i.rm \in Arm!Register /\ i.rs \in Arm!Register
      /\ (i.op = "Mla" => i.rn \in Arm!Register)
  BY DEF Arm!MultiplyInstr
<1>2. i.rm \notin T /\ i.rs \notin T /\ (i.op = "Mla" => i.rn \notin T)
  <2>1. CASE i.op = "Mul"
    <3>1. WordRegisters(i) = {i.rd, i.rm, i.rs}
      BY <2>1, ArmGroups, Zenon DEF WordRegisters
    <3> QED BY <2>1, <3>1 DEF KeepsStatuses
  <2>2. CASE i.op = "Mla"
    <3>1. WordRegisters(i) = {i.rd, i.rm, i.rs, i.rn}
      BY <2>2, ArmGroups, Zenon DEF WordRegisters
    <3> QED BY <2>2, <3>1 DEF KeepsStatuses
  <2> QED BY <2>1, <2>2
<1>3. mul \in Word
  BY <1>1, <1>2, ArmReg, ProductType
<1>4. res \in Word
  <2> HIDE DEF mul
  <2>1. CASE i.op = "Mla"
    <3>1. Arm!Reg(s, i.rn) \in Int
      BY <1>1, <1>2, <2>1, ArmReg, WordArithmetic
    <3>2. (mul + Arm!Reg(s, i.rn)) % M \in Word
      BY <1>3, <3>1, WordArithmetic
    <3> QED BY <2>1, <3>2
  <2> QED BY <1>3, <2>1
<1>5. Arm!Multiply(s, i) = Arm!NZ(Arm!Put(s, i.rd, res), i, Arm!Negative(res, M), res = 0)
  BY ArmModulus DEF Arm!Multiply
<1> HIDE DEF res
<1>6. Arm!Put(s, i.rd, res) \in ArmMachine(T)
  BY <1>1, <1>4, ArmPut
<1> QED BY <1>5, <1>6, ArmNZ

\* The long multiplies keep the machine.
LEMMA ArmMultiplyLong ==
  ASSUME NEW T, 15 \notin T, NEW s \in ArmMachine(T), NEW i \in Arm!MultiplyInstr,
         i.op \in {"Umull", "Umlal", "Smull", "Smlal"}, KeepsStatuses(i, T)
  PROVE  Arm!MultiplyLong(s, i) \in ArmMachine(T)
<1> DEFINE a == Arm!Reg(s, i.rm)   b == Arm!Reg(s, i.rs)
           lo == Arm!Reg(s, i.rd_lo)   hi == Arm!Reg(s, i.rd_hi)
           mul == IF i.op \in {"Smull", "Smlal"} THEN Signed(a, M) * Signed(b, M) ELSE a * b
           accum == IF i.op \in {"Umlal", "Smlal"} THEN lo + M * hi ELSE 0
           res == (mul + accum) % (M * M)
<1>1. i.rd_lo \in Arm!Register /\ i.rd_hi \in Arm!Register /\ i.rm \in Arm!Register
      /\ i.rs \in Arm!Register
  BY DEF Arm!MultiplyInstr
<1>2. i.rd_lo \notin T /\ i.rd_hi \notin T /\ i.rm \notin T /\ i.rs \notin T
  <2>1. WordRegisters(i) = {i.rd_lo, i.rd_hi, i.rm, i.rs}
    BY ArmGroups, Zenon DEF WordRegisters
  <2> QED BY <2>1 DEF KeepsStatuses
<1>3. a \in Word /\ b \in Word /\ lo \in Word /\ hi \in Word
  BY <1>1, <1>2, ArmReg
<1>4. mul \in Int
  <2> HIDE DEF a, b
  <2> QED BY <1>3, ProductType
<1>5. M \in Nat /\ M >= 16 /\ lo \in Int /\ hi \in Int
  BY <1>3, WordArithmetic, WordType
<1>6. accum \in Int
  <2> HIDE DEF M, lo, hi
  <2> QED BY <1>5
<1>7. res \in Nat /\ res < M * M
  <2> HIDE DEF M, mul, accum
  <2>1. mul + accum \in Int
    BY <1>4, <1>6
  <2>2. M * M \in Nat /\ M * M >= 1
    BY <1>5
  <2> DEFINE sum == mul + accum   square == M * M
  <2> HIDE DEF sum, square
  <2>3. sum % square \in 0 .. square - 1
    BY <2>1, <2>2, Remainder DEF sum, square
  <2>4. res \in Nat /\ res < square
    BY <2>2, <2>3 DEF sum, square
  <2> QED BY <2>4 DEF square
<1> HIDE DEF a, b, lo, hi, mul, accum
<1>8. Arm!MultiplyLong(s, i) =
        Arm!NZ(Arm!Put(Arm!Put(s, i.rd_lo, res % M), i.rd_hi, res \div M), i,
               Arm!Negative(res, M * M), res = 0)
  BY ArmWords DEF Arm!MultiplyLong, a, b, lo, hi, mul, accum
<1> HIDE DEF res
<1>9. res % M \in Word /\ res \div M \in Word
  <2>1. res % M \in Word
    BY <1>7, WordType
  <2>2. res \div M \in 0 .. M - 1
    <3>1. M \in Nat /\ M >= 1
      BY <1>5
    <3> HIDE DEF M
    <3> QED BY <1>7, <3>1, QuotientBelow
  <2> QED BY <2>1, <2>2 DEF Word
<1>10. Arm!Put(Arm!Put(s, i.rd_lo, res % M), i.rd_hi, res \div M) \in ArmMachine(T)
  BY <1>1, <1>9, ArmPut
<1> QED BY <1>8, <1>10, ArmNZ

-----------------------------------------------------------------------------
(* Bit fields, reversals and extensions                                    *)

\* A power of two exceeds its exponent.
LEMMA PowerExceeds ==
  \A n \in Nat : n < 2^n
<1> DEFINE S == {n \in Nat : n < 2^n}
<1>1. 0 \in S
  OBVIOUS
<1>2. ASSUME NEW n \in Nat, n \in S PROVE n + 1 \in S
  <2> DEFINE p == 2^n
  <2>1. p \in Nat /\ p >= 1 /\ 2^(n + 1) = 2 * p /\ n < p
    BY <1>2, PowerSucc, PowerPositive
  <2> HIDE DEF p
  <2>2. n + 1 < 2 * p
    BY <2>1
  <2> QED BY <2>1, <2>2
<1> HIDE DEF S
<1>3. Nat \subseteq S
  BY <1>1, <1>2, SetInduction
<1> QED BY <1>3 DEF S

\* The bit field instructions keep the machine.
LEMMA ArmBitField ==
  ASSUME NEW T, 15 \notin T, NEW s \in ArmMachine(T), NEW i \in Arm!MediaInstr,
         i.op \in {"Bfc", "Bfi", "Ubfx", "Sbfx"}, KeepsStatuses(i, T)
  PROVE  Arm!BitField(s, i) \in ArmMachine(T)
<1> DEFINE ones == Arm!Ones(i.width) % M
           mask == ShiftedLeft(ones, i.lsb)
           old == s.regs[i.rd]   reg == Arm!Reg(s, i.rd)   src == Arm!Reg(s, i.rn)
           val == ShiftedLeft(And(src, ones), i.lsb)
           signed == ArithmeticRight(ShiftedLeft(src, Width - i.lsb - i.width), Width - i.width)
<1>1. i.rd \in Arm!Register /\ i.lsb \in 0 .. 31 /\ i.width \in 1 .. 32
      /\ (i.op # "Bfc" => i.rn \in Arm!Register)
  BY DEF Arm!MediaInstr, Arm!BitNo
<1>2. i.rd \notin T /\ (i.op # "Bfc" => i.rn \notin T)
  <2>1. CASE i.op = "Bfc"
    <3>1. WordRegisters(i) = {i.rd}
      BY <2>1, ArmGroups, Zenon DEF WordRegisters
    <3> QED BY <2>1, <3>1 DEF KeepsStatuses
  <2>2. CASE i.op \in {"Bfi", "Ubfx", "Sbfx"}
    <3>1. WordRegisters(i) = {i.rd, i.rn}
      BY <2>2, ArmGroups, Zenon DEF WordRegisters
    <3> QED BY <2>2, <3>1 DEF KeepsStatuses
  <2> QED BY <2>1, <2>2
<1>3. old \in Word /\ reg \in Word /\ (i.op # "Bfc" => src \in Word)
  BY <1>1, <1>2, ArmReg, ArmSet
<1>4. ones \in Word
  <2>1. i.width \in Nat
    BY <1>1
  <2>2. 2^i.width \in Nat
    BY <2>1, PowerPositive
  <2>3. 2^i.width - 1 \in Int
    BY <2>2
  <2> QED BY <2>3, WordType DEF Arm!Ones
<1> HIDE DEF ones, old, reg, src
<1>5. i.lsb \in Nat /\ i.width \in Nat /\ Width \in Nat
  BY <1>1, Spans
<1>6. mask \in Word
  BY <1>4, <1>5, ShiftType
<1>7. Not(mask) \in Word
  BY <1>6, BitwiseType
<1>8. i.op = "Bfc" => Arm!BitField(s, i) = Arm!Put(s, i.rd, And(old, Not(mask)))
  <2> HIDE DEF mask
  <2>1. i.op = "Bfc" => Arm!BitField(s, i)
           = Arm!Put(s, i.rd, Arm!And(s.regs[i.rd],
               Arm!Not(Arm!ShiftedLeft(Arm!Ones(i.width) % Arm!M, i.lsb))))
    BY DEF Arm!BitField
  <2> QED BY <2>1, ArmWords DEF mask, ones, old
<1>9. i.op = "Bfi" => Arm!BitField(s, i) = Arm!Put(s, i.rd, Or(And(reg, Not(mask)), val))
  <2>1. i.op = "Bfi" => Arm!BitField(s, i)
           = Arm!Put(s, i.rd, Arm!Or(Arm!And(Arm!Reg(s, i.rd),
               Arm!Not(Arm!ShiftedLeft(Arm!Ones(i.width) % Arm!M, i.lsb))),
               Arm!ShiftedLeft(Arm!And(Arm!Reg(s, i.rn), Arm!Ones(i.width) % Arm!M), i.lsb)))
    BY DEF Arm!BitField
  <2> QED BY <2>1, ArmWords DEF mask, ones, reg, src, val
<1>10. i.op = "Ubfx" => Arm!BitField(s, i) = Arm!Put(s, i.rd, And(ShiftedRight(src, i.lsb), ones))
  <2>1. i.op = "Ubfx" => Arm!BitField(s, i)
           = Arm!Put(s, i.rd, Arm!And(Arm!ShiftedRight(Arm!Reg(s, i.rn), i.lsb),
                                      Arm!Ones(i.width) % Arm!M))
    BY DEF Arm!BitField
  <2> QED BY <2>1, ArmWords DEF ones, src
<1>11. i.op = "Sbfx" => Arm!BitField(s, i) = IF i.lsb + i.width > Width THEN Fails(s, "panic")
                                             ELSE Arm!Put(s, i.rd, signed)
  <2>1. i.op = "Sbfx" => Arm!BitField(s, i)
           = IF i.lsb + i.width > Arm!Width THEN Arm!Fails(s, "panic")
             ELSE Arm!Put(s, i.rd, Arm!ArithmeticRight(
                    Arm!ShiftedLeft(Arm!Reg(s, i.rn), Arm!Width - i.lsb - i.width),
                    Arm!Width - i.width))
    BY DEF Arm!BitField
  <2> QED BY <2>1, ArmWords, ArmMemory DEF src
<1>12. CASE i.op = "Bfc"
  <2>1. And(old, Not(mask)) \in Word
    BY <1>3, <1>7, BitwiseType
  <2> QED BY <1>1, <1>8, <1>12, <2>1, ArmPut
<1>13. CASE i.op = "Bfi"
  <2>1. And(src, ones) \in Word /\ And(reg, Not(mask)) \in Word
    BY <1>3, <1>4, <1>7, <1>13, BitwiseType
  <2>2. val \in Word
    BY <1>5, <2>1, ShiftType
  <2> HIDE DEF val
  <2>3. Or(And(reg, Not(mask)), val) \in Word
    BY <2>1, <2>2, BitwiseType
  <2> QED BY <1>1, <1>9, <1>13, <2>3, ArmPut
<1>14. CASE i.op = "Ubfx"
  <2>1. ShiftedRight(src, i.lsb) \in Word
    BY <1>3, <1>5, <1>14, ShiftType
  <2>2. And(ShiftedRight(src, i.lsb), ones) \in Word
    BY <1>4, <2>1, BitwiseType
  <2> QED BY <1>1, <1>10, <1>14, <2>2, ArmPut
<1>15. CASE i.op = "Sbfx"
  <2>1. CASE i.lsb + i.width > Width
    <3>1. "panic" \in Errors
      BY DEF Errors
    <3> QED BY <1>11, <1>15, <2>1, <3>1, ArmFails
  <2>2. CASE ~(i.lsb + i.width > Width)
    <3>1. Width - i.lsb - i.width \in Nat /\ Width - i.width \in Nat
      BY <1>5, <2>2
    <3>2. ShiftedLeft(src, Width - i.lsb - i.width) \in Word
      BY <1>3, <1>15, <3>1, ShiftType
    <3>3. signed \in Word
      BY <3>1, <3>2, ShiftType
    <3> QED BY <1>1, <1>11, <1>15, <2>2, <3>3, ArmPut
  <2> QED BY <2>1, <2>2
<1> QED BY <1>12, <1>13, <1>14, <1>15

\* The ARM module counts as this one does.
LEMMA ArmCardinality == \A S : Arm!Cardinality(S) = Cardinality(S)
BY DEF Arm!Cardinality, Cardinality

\* The reversals and CLZ keep the machine.
LEMMA ArmReversal ==
  ASSUME NEW T, 15 \notin T, NEW s \in ArmMachine(T), NEW i \in Arm!MediaInstr,
         i.op \in {"Rev", "Rev16", "Revsh", "Clz"}, KeepsStatuses(i, T)
  PROVE  Arm!Reversal(s, i) \in ArmMachine(T)
<1> DEFINE val == Arm!Reg(s, i.rm)
           q == Span(2)
           low == SwapBytes(val % q, 2)
           high == SwapBytes(val \div q, 2)
           zeros == Cardinality({k \in Position : val < 2^k})
<1>1. i.rd \in Arm!Register /\ i.rm \in Arm!Register
  BY DEF Arm!MediaInstr
<1>2. i.rm \notin T
  <2>1. WordRegisters(i) = {i.rd, i.rm}
    BY ArmGroups, Zenon DEF WordRegisters
  <2> QED BY <2>1 DEF KeepsStatuses
<1>3. val \in Word /\ val \in Nat /\ val \in Int
  BY <1>1, <1>2, ArmReg, WordArithmetic
<1>4. q \in Nat /\ q >= 4 /\ M = q * q
  BY Spans
<1> HIDE DEF val
<1>5. low \in 0 .. q - 1 /\ high \in 0 .. q - 1 /\ low \in Int
  <2>1. val % q \in Int /\ val \div q \in Int
    <3> HIDE DEF q
    <3> QED BY <1>3, <1>4
  <2>2. low \in 0 .. q - 1 /\ high \in 0 .. q - 1
    BY <2>1, SwapBytesType
  <2> HIDE DEF low, high, q
  <2> QED BY <2>2
<1>6. low + q * high \in Word
  <2> HIDE DEF low, high, q
  <2>1. low <= q - 1 /\ high <= q - 1 /\ low \in Nat /\ high \in Nat
    BY <1>4, <1>5
  <2>2. q * high \in Nat /\ q * high <= q * (q - 1)
    BY <1>4, <2>1
  <2>3. q * (q - 1) = q * q - q
    BY <1>4
  <2>4. low + q * high \in Nat /\ low + q * high <= M - 1
    BY <1>4, <2>1, <2>2, <2>3
  <2> QED BY <1>4, <2>4 DEF Word
<1>7. SwapBytes(val, 4) \in Word
  BY <1>3, SwapBytesType DEF Word, M
<1>8. SignExtended(low, 2) \in Word
  <2> HIDE DEF low
  <2> QED BY <1>5, NarrowType
<1>9. zeros \in Word
  <2> DEFINE Z == {k \in Position : val < 2^k}
  <2>1. Width \in Nat /\ Width >= 4 /\ M = 2^Width /\ M \in Nat
    BY Spans
  <2>2. IsFiniteSet(Position) /\ Cardinality(Position) = Width
    <3>1. 0 \in Int /\ Width - 1 \in Int
      BY <2>1
    <3>2. IsFiniteSet(0 .. Width - 1) /\ Cardinality(0 .. Width - 1) = (Width - 1) - 0 + 1
      BY <2>1, <3>1, FS_Interval
    <3>3. (Width - 1) - 0 + 1 = Width
      BY <2>1
    <3> QED BY <3>2, <3>3 DEF Position
  <2>3. Cardinality(Z) <= Cardinality(Position) /\ IsFiniteSet(Z)
    BY <2>2, FS_Subset
  <2>4. Cardinality(Z) \in Nat
    BY <2>3, FS_CardinalityType
  <2>5. Width < M
    BY <2>1, PowerExceeds
  <2> QED BY <2>1, <2>2, <2>3, <2>4, <2>5 DEF Word
<1>10. /\ i.op = "Rev" => Arm!Reversal(s, i) = Arm!Put(s, i.rd, SwapBytes(val, 4))
       /\ i.op = "Rev16" => Arm!Reversal(s, i) = Arm!Put(s, i.rd, low + q * high)
       /\ i.op = "Revsh" => Arm!Reversal(s, i) = Arm!Put(s, i.rd, SignExtended(low, 2))
       /\ i.op = "Clz" => Arm!Reversal(s, i) = Arm!Put(s, i.rd, zeros)
  <2> DEFINE v == Arm!Reg(s, i.rm)
             l == Arm!SwapBytes(v % Arm!Span(2), 2)
  <2>1. /\ i.op = "Rev" => Arm!Reversal(s, i) = Arm!Put(s, i.rd, Arm!SwapBytes(v, 4))
        /\ i.op = "Rev16" => Arm!Reversal(s, i)
              = Arm!Put(s, i.rd, l + Arm!Span(2) * Arm!SwapBytes(v \div Arm!Span(2), 2))
        /\ i.op = "Revsh" => Arm!Reversal(s, i) = Arm!Put(s, i.rd, Arm!SignExtended(l, 2))
        /\ i.op = "Clz" => Arm!Reversal(s, i)
              = Arm!Put(s, i.rd, Cardinality({k \in Arm!Position : v < 2^k}))
    <3>1. ASSUME i.op = "Rev"
          PROVE  Arm!Reversal(s, i) = Arm!Put(s, i.rd, Arm!SwapBytes(v, 4))
      BY <3>1, Zenon DEF Arm!Reversal
    <3>2. ASSUME i.op = "Rev16"
          PROVE  Arm!Reversal(s, i)
                   = Arm!Put(s, i.rd, l + Arm!Span(2) * Arm!SwapBytes(v \div Arm!Span(2), 2))
      BY <3>2, Zenon DEF Arm!Reversal
    <3>3. ASSUME i.op = "Revsh"
          PROVE  Arm!Reversal(s, i) = Arm!Put(s, i.rd, Arm!SignExtended(l, 2))
      BY <3>3, Zenon DEF Arm!Reversal
    <3>4. ASSUME i.op = "Clz"
          PROVE  Arm!Reversal(s, i)
                   = Arm!Put(s, i.rd, Cardinality({k \in Arm!Position : v < 2^k}))
      <4> DEFINE r1 == Arm!SwapBytes(v, 4)
                 r2 == l + Arm!Span(2) * Arm!SwapBytes(v \div Arm!Span(2), 2)
                 r3 == Arm!SignExtended(l, 2)
                 r4 == Cardinality({k \in Arm!Position : v < 2^k})
                 r == CASE i.op = "Rev" -> r1 [] i.op = "Rev16" -> r2
                        [] i.op = "Revsh" -> r3 [] i.op = "Clz" -> r4
      <4>1. Arm!Reversal(s, i) = Arm!Put(s, i.rd, r)
        BY ArmCardinality DEF Arm!Reversal
      <4>2. r = r4
        <5> HIDE DEF r1, r2, r3, r4
        <5> QED BY <3>4
      <4> HIDE DEF r
      <4> QED BY <4>1, <4>2
    <3> QED BY <3>1, <3>2, <3>3, <3>4
  <2>2. v = val
    BY DEF val
  <2>3. Arm!Span(2) = q /\ l = low /\ Arm!SwapBytes(v, 4) = SwapBytes(val, 4)
        /\ Arm!SwapBytes(v \div q, 2) = high /\ Arm!SignExtended(l, 2) = SignExtended(low, 2)
    BY <2>2, ArmWords
  <2> HIDE DEF l, v, q, low, high
  <2> QED BY <2>1, <2>2, <2>3, ArmModulus
<1> HIDE DEF q, low, high, zeros
<1> QED BY <1>1, <1>6, <1>7, <1>8, <1>9, <1>10, ArmPut

\* The extensions keep the machine.
LEMMA ArmExtension ==
  ASSUME NEW T, 15 \notin T, NEW s \in ArmMachine(T), NEW i \in Arm!MediaInstr,
         i.op \in {"Sxtb", "Sxth", "Uxtb", "Uxth"}, KeepsStatuses(i, T)
  PROVE  Arm!Extension(s, i) \in ArmMachine(T)
<1> DEFINE rotated == RotatedRight(Arm!Reg(s, i.rm), i.rot * ByteBits)
           val == CASE i.op = "Sxtb" -> SignExtended(rotated, 1)
                    [] i.op = "Sxth" -> SignExtended(rotated, 2)
                    [] i.op = "Uxtb" -> rotated % Span(1)
                    [] i.op = "Uxth" -> rotated % Span(2)
           n == CHOOSE n \in i.rn : TRUE
           res == IF i.rn = {} THEN val ELSE (Arm!Reg(s, n) + val) % M
<1>1. i.rd \in Arm!Register /\ i.rm \in Arm!Register /\ i.rot \in 0 .. 3
      /\ i.rn \in SUBSET Arm!Register
  <2>1. i.rd \in Arm!Register /\ i.rm \in Arm!Register /\ i.rot \in 0 .. 3
        /\ i.rn \in Arm!Option(Arm!Register)
    BY DEF Arm!MediaInstr
  <2> QED BY <2>1 DEF Arm!Option
<1>2. i.rm \notin T /\ i.rn \cap T = {}
  <2>1. WordRegisters(i) = {i.rd, i.rm} \cup i.rn
    BY ArmGroups, Zenon DEF WordRegisters
  <2> QED BY <2>1, Zenon DEF KeepsStatuses
<1>3. rotated \in Word /\ rotated \in Int
  <2>1. i.rot * ByteBits \in Nat /\ i.rot * ByteBits <= Width
    BY <1>1, WordsAssumption DEF Width
  <2>2. Arm!Reg(s, i.rm) \in Word
    BY <1>1, <1>2, ArmReg
  <2>3. rotated \in Word
    BY <2>1, <2>2, ShiftType
  <2> QED BY <2>3, WordArithmetic
<1> HIDE DEF rotated
<1>4. val \in Word
  <2>1. /\ SignExtended(rotated, 1) \in Word /\ SignExtended(rotated, 2) \in Word
        /\ rotated % Span(1) \in Word /\ rotated % Span(2) \in Word
    BY <1>3, NarrowType
  <2> QED BY <2>1
<1> HIDE DEF val
<1>5. res \in Word
  <2>1. ASSUME i.rn # {} PROVE (Arm!Reg(s, n) + val) % M \in Word
    <3>1. n \in i.rn
      BY <2>1
    <3>2. Arm!Reg(s, n) \in Word
      BY <1>1, <1>2, <3>1, ArmReg
    <3> QED BY <1>4, <3>2, WordArithmetic
  <2> QED BY <1>4, <2>1
<1>6. Arm!Extension(s, i) = Arm!Put(s, i.rd, res)
  <2> DEFINE r == Arm!RotatedRight(Arm!Reg(s, i.rm), i.rot * ByteBits)
             v == CASE i.op = "Sxtb" -> Arm!SignExtended(r, 1)
                    [] i.op = "Sxth" -> Arm!SignExtended(r, 2)
                    [] i.op = "Uxtb" -> r % Arm!Span(1)
                    [] i.op = "Uxth" -> r % Arm!Span(2)
  <2>1. Arm!Extension(s, i)
          = Arm!Put(s, i.rd, IF i.rn = {} THEN v ELSE (Arm!Reg(s, n) + v) % Arm!M)
    BY DEF Arm!Extension
  <2>2. r = rotated
    BY ArmWords DEF rotated
  <2> HIDE DEF r
  <2>3. v = val
    BY <2>2, ArmWords DEF val
  <2> HIDE DEF v, n
  <2> QED BY <2>1, <2>3, ArmModulus
<1> HIDE DEF res
<1> QED BY <1>1, <1>5, <1>6, ArmPut

-----------------------------------------------------------------------------
(* Loads and stores                                                        *)

\* A number of n bytes is a word.
LEMMA BytesAreWords ==
  ASSUME NEW n \in {1, 2, 4}
  PROVE  0 .. Span(n) - 1 \subseteq Word /\ Span(n) \in Nat /\ Span(n) >= 1
<1>1. n \in Nat /\ n <= 4
  OBVIOUS
<1>2. Span(n) \in Nat /\ Span(n) >= 1 /\ Span(4) \in Nat /\ M = Span(4)
  BY <1>1, Spans
<1>3. Span(n) <= M
  BY <1>1, <1>2, SpanGrows
<1> HIDE DEF M
<1> QED BY <1>2, <1>3 DEF Word

\* Swapping for the data endianness keeps the number of bytes.
LEMMA ArmSwapped ==
  ASSUME NEW s, NEW n \in {1, 2, 4}, NEW v \in 0 .. Span(n) - 1
  PROVE  Arm!Swapped(s, v, n) \in 0 .. Span(n) - 1
<1>1. v \in Int /\ n \in Nat
  BY BytesAreWords
<1>2. SwapBytes(v, n) \in 0 .. Span(n) - 1
  BY <1>1, SwapBytesType
<1>3. Arm!SwapBytes(v, n) = SwapBytes(v, n)
  BY ArmWords
<1> QED BY <1>2, <1>3 DEF Arm!Swapped

\* What is read from memory is a word, sign extended or not.
LEMMA ArmReadData ==
  ASSUME NEW T, NEW s \in ArmMachine(T), NEW a \in Word, NEW n \in {1, 2, 4}, Reachable(s, a, n)
  PROVE  /\ Arm!ReadData(s, a, n) \in Word
         /\ Arm!SignExtended(Arm!ReadData(s, a, n), n) \in Word
<1>1. Loaded(s, a, n) \in 0 .. Span(n) - 1
  BY ArmSet, LoadedType
<1>2. Arm!ReadData(s, a, n) = Arm!Swapped(s, Loaded(s, a, n), n)
  BY ArmMemory DEF Arm!ReadData
<1>3. Arm!ReadData(s, a, n) \in Word
  BY <1>1, <1>2, ArmSwapped, BytesAreWords
<1>4. Arm!ReadData(s, a, n) \in Int
  BY <1>3, WordArithmetic
<1>5. SignExtended(Arm!ReadData(s, a, n), n) \in Word
  BY <1>4, NarrowType
<1>6. Arm!SignExtended(Arm!ReadData(s, a, n), n) = SignExtended(Arm!ReadData(s, a, n), n)
  BY ArmWords
<1> QED BY <1>3, <1>5, <1>6

\* Writing to memory keeps the machine.
LEMMA ArmWriteData ==
  ASSUME NEW T, NEW s \in ArmMachine(T), NEW a, NEW n \in {1, 2, 4}, NEW v \in Word
  PROVE  Arm!WriteData(s, a, n, v % Arm!Span(n)) \in ArmMachine(T)
<1>1. v \in Int
  BY WordArithmetic
<1>2. v % Span(n) \in 0 .. Span(n) - 1
  BY <1>1, NarrowType
<1> DEFINE w == Arm!Swapped(s, v % Span(n), n)
<1>3. w \in 0 .. Span(n) - 1
  BY <1>2, ArmSwapped
<1> HIDE DEF w
<1>4. w \in Int /\ n \in Nat
  BY <1>3, BytesAreWords
<1>5. Arm!WriteData(s, a, n, v % Arm!Span(n)) = Stored(s, a, n, w)
  BY ArmMemory, ArmModulus DEF Arm!WriteData, w
<1> QED BY <1>4, <1>5, ArmStored

\* A transfer's registers hold words.
LEMMA ArmTransferFields ==
  ASSUME NEW i \in Arm!TransferInstr, NEW T, KeepsStatuses(i, T)
  PROVE  /\ i.rd \in Arm!Register \ T /\ i.rn \in Arm!Register \ T
         /\ i.offset \in Arm!Operand2 /\ OperandRegisters(i.offset) \cap T = {}
         /\ i.op \in {"Ldr", "Str", "Ldrb", "Strb", "Ldrh", "Strh", "Ldrsb", "Ldrsh"}
<1>1. i.op \in {"Ldr", "Str", "Ldrb", "Strb", "Ldrh", "Strh", "Ldrsb", "Ldrsh"}
  BY ArmVariants
<1>2. i.rd \in Arm!Register /\ i.rn \in Arm!Register /\ i.offset \in Arm!Operand2
  BY DEF Arm!TransferInstr
<1>3. WordRegisters(i) = {i.rd, i.rn} \cup OperandRegisters(i.offset)
  BY <1>1, ArmGroups, Zenon DEF WordRegisters
<1>4. i.op # "Mrs"
  BY <1>1
<1>5. WordRegisters(i) \cap T = {}
  BY <1>4, Zenon DEF KeepsStatuses
<1> QED BY <1>1, <1>2, <1>3, <1>5

\* The address of a transfer, and the base after it, are words.
LEMMA ArmMoved ==
  ASSUME NEW T, 15 \notin T, NEW s \in ArmMachine(T), NEW i \in Arm!TransferInstr,
         KeepsStatuses(i, T)
  PROVE  Arm!Moved(s, i) \in Word /\ Arm!Address(s, i, Arm!Moved(s, i)) \in Word
<1> DEFINE base == Arm!Reg(s, i.rn)   off == Arm!EvaluateOperand2(s, i.offset).val
           sign == IF i.up THEN 1 ELSE -1
<1>1. base \in Word /\ off \in Word
  BY ArmTransferFields, ArmReg, ArmOperand
<1>2. Arm!Moved(s, i) = (base + sign * off) % M
  BY ArmModulus DEF Arm!Moved
<1> HIDE DEF base, off
<1>3. base \in Int /\ off \in Int
  BY <1>1, WordArithmetic
<1>4. base + sign * off \in Int
  BY <1>3
<1>5. (base + sign * off) % M \in Word
  <2> HIDE DEF sign
  <2> QED BY <1>4, WordType
<1> QED BY <1>1, <1>2, <1>5 DEF Arm!Address, base

\* Writing the base back keeps the machine.
LEMMA ArmWriteBack ==
  ASSUME NEW T, NEW s \in ArmMachine(T), NEW i, i.rn \in Arm!Register, NEW moved \in Word
  PROVE  Arm!WriteBack(s, i, moved) \in ArmMachine(T)
BY ArmPut DEF Arm!WriteBack

\* A load keeps the machine, whether it succeeds or not.
LEMMA ArmLoad ==
  ASSUME NEW T, NEW s \in ArmMachine(T), NEW i \in Arm!TransferInstr, NEW a \in Word,
         NEW n \in {1, 2, 4}, NEW val, NEW moved \in Word, Reachable(s, a, n) => val \in Word
  PROVE  Arm!Load(s, i, n, val, a, moved) \in ArmMachine(T)
<1>1. i.rd \in Arm!Register /\ i.rn \in Arm!Register
  BY DEF Arm!TransferInstr
<1>2. Arm!Load(s, i, n, val, a, moved) =
        IF ~Reachable(s, a, n) THEN Fails(s, "fault")
        ELSE Arm!WriteBack(Arm!Put(s, i.rd, val), i, moved)
  BY ArmMemory DEF Arm!Load
<1>3. Fails(s, "fault") \in ArmMachine(T)
  BY ArmFails DEF Errors
<1>4. ASSUME Reachable(s, a, n)
      PROVE  Arm!WriteBack(Arm!Put(s, i.rd, val), i, moved) \in ArmMachine(T)
  <2>1. Arm!Put(s, i.rd, val) \in ArmMachine(T)
    BY <1>1, <1>4, ArmPut
  <2> QED BY <1>1, <2>1, ArmWriteBack
<1> QED BY <1>2, <1>3, <1>4

\* A store with its write-back keeps the machine.
LEMMA ArmStore ==
  ASSUME NEW T, 15 \notin T, NEW s \in ArmMachine(T), NEW i \in Arm!TransferInstr, NEW a \in Word,
         NEW n \in {1, 2, 4}, NEW moved \in Word, i.rd \notin T
  PROVE  Arm!Store(s, i, n, a, moved) \in ArmMachine(T)
<1>1. i.rd \in Arm!Register /\ i.rn \in Arm!Register
  BY DEF Arm!TransferInstr
<1> DEFINE t == Arm!WriteData(s, a, n, Arm!Reg(s, i.rd) % Arm!Span(n))
<1>2. t \in ArmMachine(T)
  BY <1>1, ArmReg, ArmWriteData
<1>3. Arm!Store(s, i, n, a, moved) = IF t.err = "ok" THEN Arm!WriteBack(t, i, moved) ELSE t
  BY DEF Arm!Store
<1> HIDE DEF t
<1>4. Arm!WriteBack(t, i, moved) \in ArmMachine(T)
  BY <1>1, <1>2, ArmWriteBack
<1> QED BY <1>2, <1>3, <1>4

\* Each of the single transfers keeps the machine.
LEMMA ArmSingle ==
  ASSUME NEW T, 15 \notin T, NEW s \in ArmMachine(T), NEW i \in Arm!TransferInstr,
         KeepsStatuses(i, T)
  PROVE  Arm!Single(s, i, Arm!Address(s, i, Arm!Moved(s, i)), Arm!Moved(s, i)) \in ArmMachine(T)
<1> DEFINE moved == Arm!Moved(s, i)   a == Arm!Address(s, i, moved)
<1>1. moved \in Word /\ a \in Word
  BY ArmMoved
<1> HIDE DEF moved, a
<1>2. \A n \in {1, 2, 4} :
        /\ Arm!Load(s, i, n, Arm!ReadData(s, a, n), a, moved) \in ArmMachine(T)
        /\ Arm!Load(s, i, n, Arm!SignExtended(Arm!ReadData(s, a, n), n), a, moved) \in ArmMachine(T)
        /\ Arm!Store(s, i, n, a, moved) \in ArmMachine(T)
  <2> SUFFICES ASSUME NEW n \in {1, 2, 4}
               PROVE  /\ Arm!Load(s, i, n, Arm!ReadData(s, a, n), a, moved) \in ArmMachine(T)
                      /\ Arm!Load(s, i, n, Arm!SignExtended(Arm!ReadData(s, a, n), n), a, moved)
                           \in ArmMachine(T)
                      /\ Arm!Store(s, i, n, a, moved) \in ArmMachine(T)
    OBVIOUS
  <2>1. Reachable(s, a, n) => /\ Arm!ReadData(s, a, n) \in Word
                              /\ Arm!SignExtended(Arm!ReadData(s, a, n), n) \in Word
    BY <1>1, ArmReadData
  <2>2. i.rd \notin T
    BY ArmTransferFields
  <2> QED BY <1>1, <2>1, <2>2, ArmLoad, ArmStore
<1>3. i.op \in {"Ldr", "Str", "Ldrb", "Strb", "Ldrh", "Strh", "Ldrsb", "Ldrsh"}
  BY ArmVariants
<1>4. Arm!Single(s, i, a, moved)
        \in {Arm!Load(s, i, n, Arm!ReadData(s, a, n), a, moved) : n \in {1, 2, 4}}
            \cup {Arm!Load(s, i, n, Arm!SignExtended(Arm!ReadData(s, a, n), n), a, moved) : n \in {1, 2, 4}}
            \cup {Arm!Store(s, i, n, a, moved) : n \in {1, 2, 4}}
  BY <1>3 DEF Arm!Single, Arm!Ldr, Arm!Str, Arm!Ldrb, Arm!Strb, Arm!Ldrh, Arm!Strh,
              Arm!Ldrsb, Arm!Ldrsh
<1>5. Arm!Single(s, i, a, moved) \in ArmMachine(T)
  BY <1>2, <1>4
<1> QED BY <1>5 DEF moved, a

-----------------------------------------------------------------------------
(* Block transfers                                                         *)

\* A block transfer's registers hold words.
LEMMA ArmBlockFields ==
  ASSUME NEW i \in Arm!BlockTransferInstr, NEW T, KeepsStatuses(i, T)
  PROVE  /\ i.rn \in Arm!Register \ T /\ i.reg_list \in SUBSET (Arm!Register \ T)
         /\ i.op \in {"Ldm", "Stm"}
<1>1. i.op \in {"Ldm", "Stm"}
  BY ArmVariants
<1>2. i.rn \in Arm!Register /\ i.reg_list \in SUBSET Arm!Register
  BY DEF Arm!BlockTransferInstr
<1>3. WordRegisters(i) = {i.rn} \cup i.reg_list
  BY <1>1, ArmGroups, Zenon DEF WordRegisters
<1>4. i.op # "Mrs"
  BY <1>1
<1>5. WordRegisters(i) \cap T = {}
  BY <1>4, Zenon DEF KeepsStatuses
<1> QED BY <1>1, <1>2, <1>3, <1>5

\* A set of registers is finite.
LEMMA RegisterCount ==
  ASSUME NEW S \in SUBSET Arm!Register
  PROVE  Cardinality(S) \in Nat
<1>1. IsFiniteSet(0 .. 15)
  <2>1. 0 \in Int /\ 15 \in Int
    OBVIOUS
  <2> QED BY <2>1, FS_Interval
<1>2. IsFiniteSet(S)
  BY <1>1, FS_Subset DEF Arm!Register
<1> QED BY <1>2, FS_CardinalityType

\* The address of a register in a block transfer is a word.
LEMMA ArmBlockAddress ==
  ASSUME NEW T, 15 \notin T, NEW s \in ArmMachine(T), NEW i \in Arm!BlockTransferInstr,
         KeepsStatuses(i, T), NEW r
  PROVE  Arm!BlockAddress(s, i, r) \in Word
<1> DEFINE base == Arm!Reg(s, i.rn)   all == Cardinality(i.reg_list)
           below == Cardinality({q \in i.reg_list : q < r})
           low == IF i.u THEN base ELSE base - 4 * all
           start0 == IF i.p = i.u THEN low + 4 ELSE low
<1>1. base \in Word
  BY ArmBlockFields, ArmReg
<1>2. base \in Int
  BY <1>1, WordArithmetic
<1>3. all \in Nat /\ below \in Nat
  <2>1. i.reg_list \in SUBSET Arm!Register
    BY ArmBlockFields
  <2>2. {q \in i.reg_list : q < r} \in SUBSET Arm!Register
    BY <2>1
  <2> QED BY <2>1, <2>2, RegisterCount
<1>4. Arm!BlockAddress(s, i, r) = (start0 + 4 * below) % M
  <2>1. Arm!BlockAddress(s, i, r) = (start0 + 4 * below) % Arm!M
    BY ArmCardinality DEF Arm!BlockAddress
  <2> HIDE DEF start0, below
  <2> QED BY <2>1, ArmModulus
<1> HIDE DEF base, all, below
<1>5. start0 + 4 * below \in Int
  BY <1>2, <1>3
<1> HIDE DEF start0
<1> QED BY <1>4, <1>5, WordType

\* The write-back of a block transfer keeps the machine.
LEMMA ArmBlockMoved ==
  ASSUME NEW T, 15 \notin T, NEW s \in ArmMachine(T), NEW i \in Arm!BlockTransferInstr,
         KeepsStatuses(i, T)
  PROVE  Arm!BlockMoved(s, i) \in ArmMachine(T)
<1> DEFINE base == s.regs[i.rn]   total == 4 * Cardinality(i.reg_list)
           moved == (IF i.u THEN base + total ELSE base - total) % M
<1>1. base \in Int
  <2>1. base \in Word
    BY ArmBlockFields, ArmSet
  <2> QED BY <2>1, WordArithmetic
<1>2. Cardinality(i.reg_list) \in Nat
  BY ArmBlockFields, RegisterCount
<1>3. moved \in Word
  <2> DEFINE n == Cardinality(i.reg_list)   sum == IF i.u THEN base + 4 * n ELSE base - 4 * n
  <2>1. sum \in Int
    <3> HIDE DEF base, n
    <3>1. n \in Nat
      BY <1>2 DEF n
    <3> QED BY <1>1, <3>1
  <2>2. moved = sum % M
    OBVIOUS
  <2> HIDE DEF sum, moved
  <2> QED BY <2>1, <2>2, WordType
<1>4. Arm!BlockMoved(s, i) = IF i.w THEN Arm!Put(s, i.rn, moved) ELSE s
  <2> DEFINE sum == IF i.u THEN base + total ELSE base - total
  <2>1. Arm!BlockMoved(s, i) = IF i.w THEN Arm!Put(s, i.rn, sum % Arm!M) ELSE s
    BY ArmCardinality DEF Arm!BlockMoved
  <2>2. moved = sum % M
    BY Zenon
  <2> HIDE DEF sum, moved
  <2> QED BY <2>1, <2>2, ArmModulus
<1> HIDE DEF moved
<1> QED BY <1>3, <1>4, ArmBlockFields, ArmPut

\* LDM keeps the machine, wherever it fails.
LEMMA ArmLdm ==
  ASSUME NEW T, 15 \notin T, NEW s \in ArmMachine(T), NEW i \in Arm!BlockTransferInstr,
         KeepsStatuses(i, T)
  PROVE  Arm!Ldm(s, i) \in ArmMachine(T)
<1> DEFINE done == Arm!BlockDone(s, i)   b == Arm!BlockMoved(s, i)
           Got(r) == Arm!ReadData(s, Arm!BlockAddress(s, i, r), 4)
           g == [r \in Arm!Register |-> IF r \in done THEN Got(r) ELSE b.regs[r]]
           t == [b EXCEPT !.regs = g]
<1>1. b \in ArmMachine(T)
  BY ArmBlockMoved
<1>2. \A r \in done : Got(r) \in Word
  <2> SUFFICES ASSUME NEW r \in done PROVE Got(r) \in Word
    OBVIOUS
  <2>1. r \in i.reg_list /\ r \in Arm!Register
    BY ArmBlockFields DEF Arm!BlockDone
  <2>2. Arm!Reachable(s, Arm!BlockAddress(s, i, r), 4)
    <3>1. r <= r
      BY <2>1 DEF Arm!Register
    <3> QED BY <2>1, <3>1 DEF Arm!BlockDone
  <2>3. Reachable(s, Arm!BlockAddress(s, i, r), 4)
    BY <2>2, ArmMemory
  <2> QED BY <2>3, ArmBlockAddress, ArmReadData
<1>3. Arm!Ldm(s, i) = IF done = i.reg_list THEN t ELSE Fails(t, "fault")
  BY ArmMemory DEF Arm!Ldm
<1> HIDE DEF done, b, Got
<1>4. g \in ArmRegs(T)
  <2>1. b.regs \in [Arm!Register -> Word \cup Status] /\ \A r \in Arm!Register \ T : b.regs[r] \in Word
    BY <1>1, ArmSet DEF ArmRegs
  <2>2. g \in [Arm!Register -> Word \cup Status]
    BY <1>2, <2>1
  <2>3. \A r \in Arm!Register \ T : g[r] \in Word
    BY <1>2, <2>1
  <2> HIDE DEF g
  <2> QED BY <2>2, <2>3 DEF ArmRegs
<1> HIDE DEF g
<1>5. t \in ArmMachine(T)
  BY <1>1, <1>4 DEF ArmMachine
<1> HIDE DEF t
<1>6. Fails(t, "fault") \in ArmMachine(T)
  BY <1>5, ArmFails DEF Errors
<1> QED BY <1>3, <1>5, <1>6

\* STM keeps the machine, wherever it fails.
LEMMA ArmStm ==
  ASSUME NEW T, 15 \notin T, NEW s \in ArmMachine(T), NEW i \in Arm!BlockTransferInstr,
         KeepsStatuses(i, T)
  PROVE  Arm!Stm(s, i) \in ArmMachine(T)
<1> DEFINE done == Arm!BlockDone(s, i)
           Has(r, c) == c - Arm!BlockAddress(s, i, r) \in 0 .. 3
           Gives(r, c) == Arm!ByteAt(Arm!Swapped(s, Arm!Reg(s, r), 4), c - Arm!BlockAddress(s, i, r))
           mem == [c \in DOMAIN s.mem |->
                     IF \E r \in done : Has(r, c)
                     THEN Gives(CHOOSE r \in done : Has(r, c), c) ELSE s.mem[c]]
           t == [s EXCEPT !.mem = mem]
<1>1. \A r \in done : \A c : Has(r, c) => Gives(r, c) \in Byte
  <2> SUFFICES ASSUME NEW r \in done, NEW c, Has(r, c) PROVE Gives(r, c) \in Byte
    OBVIOUS
  <2>1. r \in Arm!Register \ T
    BY ArmBlockFields DEF Arm!BlockDone
  <2>2. Arm!Reg(s, r) \in 0 .. Span(4) - 1
    BY <2>1, ArmReg DEF Word, M
  <2> DEFINE v == Arm!Swapped(s, Arm!Reg(s, r), 4)   k == c - Arm!BlockAddress(s, i, r)
  <2>3. v \in 0 .. Span(4) - 1
    BY <2>2, ArmSwapped
  <2>4. k \in Nat
    OBVIOUS
  <2>5. Arm!ByteAt(v, k) = ByteAt(v, k)
    BY ArmWords
  <2> HIDE DEF v, k
  <2>6. v \in Int
    BY <2>3, BytesAreWords
  <2>7. ByteAt(v, k) \in Byte
    BY <2>4, <2>6, ByteAtType
  <2> QED BY <2>5, <2>7 DEF v, k
<1>2. Arm!Stm(s, i) = IF done = i.reg_list THEN Arm!BlockMoved(t, i) ELSE Fails(t, "fault")
  BY ArmMemory DEF Arm!Stm
<1> HIDE DEF done, Has, Gives
<1>3. mem \in [Cells -> Byte]
  <2>1. s.mem \in [Cells -> Byte]
    BY DEF ArmMachine
  <2>2. ASSUME NEW c, \E r \in done : Has(r, c)
        PROVE  Gives(CHOOSE r \in done : Has(r, c), c) \in Byte
    BY <1>1, <2>2
  <2> QED BY <2>1, <2>2
<1> HIDE DEF mem
<1>4. t \in ArmMachine(T)
  BY <1>3 DEF ArmMachine
<1> HIDE DEF t
<1>5. Fails(t, "fault") \in ArmMachine(T)
  BY <1>4, ArmFails DEF Errors
<1>6. Arm!BlockMoved(t, i) \in ArmMachine(T)
  BY <1>4, ArmBlockMoved
<1> QED BY <1>2, <1>5, <1>6

-----------------------------------------------------------------------------
(* Branches, system instructions and exceptions                            *)

\* Setting the PC keeps the machine.
LEMMA ArmJump ==
  ASSUME NEW T, NEW s \in ArmMachine(T), NEW d \in Word
  PROVE  Arm!Put(s, 15, d) \in ArmMachine(T)
BY ArmPut DEF Arm!Register

\* Setting the link register keeps the machine.
LEMMA ArmLink ==
  ASSUME NEW T, 15 \notin T, NEW s \in ArmMachine(T), NEW i
  PROVE  Arm!Link(s, i) \in ArmMachine(T)
<1>1. s.regs[15] \in Word
  BY ArmSet DEF Arm!Register
<1>2. Arm!Put(s, 14, s.regs[15]) \in ArmMachine(T)
  BY <1>1, ArmPut DEF Arm!Register
<1> QED BY <1>2 DEF Arm!Link

\* B and BL keep the machine.
LEMMA ArmBranch ==
  ASSUME NEW T, 15 \notin T, NEW s \in ArmMachine(T), NEW i \in Arm!ControlInstr,
         i.op \in {"B", "Bl"}
  PROVE  Arm!Branch(s, i) \in ArmMachine(T)
<1>1. s.regs[15] \in Word
  BY ArmSet DEF Arm!Register
<1>2. i.target \in Arm!TwosComplement(26)
  BY DEF Arm!ControlInstr
<1>3. i.target \in Int
  <2>1. \A n : TwosComplement(n) \subseteq Int
    BY DEF TwosComplement
  <2>2. Arm!TwosComplement(26) \subseteq Int
    BY <2>1, ArmWords
  <2> QED BY <1>2, <2>2
<1>4. s.regs[15] \in Int
  BY <1>1, WordArithmetic
<1> DEFINE d == s.regs[15] + 4 + i.target
<1>5. d \in Int
  BY <1>3, <1>4
<1>6. Arm!Branch(s, i) = Arm!Put(Arm!Link(s, i), 15, d % M)
  BY ArmModulus DEF Arm!Branch
<1> HIDE DEF d
<1>7. d % M \in Word
  BY <1>5, WordType
<1> QED BY <1>6, <1>7, ArmLink, ArmJump

\* BX and BLX keep the machine.
LEMMA ArmBranchExchange ==
  ASSUME NEW T, 15 \notin T, NEW s \in ArmMachine(T), NEW i \in Arm!ControlInstr,
         i.op \in {"Bx", "Blx"}, KeepsStatuses(i, T)
  PROVE  Arm!BranchExchange(s, i) \in ArmMachine(T)
<1> DEFINE t == Arm!Link(s, i)   val == Arm!Reg(t, i.rm)
           f == Arm!SetFlag(t.cpsr.flags, "T", Arm!Bit(val, 0))
           u == [t EXCEPT !.cpsr.flags = f]
<1>1. i.rm \in Arm!Register \ T
  <2>1. i.rm \in Arm!Register
    BY DEF Arm!ControlInstr
  <2>2. WordRegisters(i) = {i.rm}
    BY ArmGroups, Zenon DEF WordRegisters
  <2>3. i.op # "Mrs"
    OBVIOUS
  <2>4. WordRegisters(i) \cap T = {}
    BY <2>3, Zenon DEF KeepsStatuses
  <2> QED BY <2>1, <2>2, <2>4
<1>2. t \in ArmMachine(T)
  BY ArmLink
<1>3. Arm!BranchExchange(s, i) = Arm!Put(u, 15, val - (val % 2))
  BY DEF Arm!BranchExchange
<1> HIDE DEF t
<1>4. val \in Word
  BY <1>1, <1>2, ArmReg
<1>5. f \in SUBSET Arm!CpsrBit
  <2>1. "T" \in Arm!CpsrBit
    BY DEF Arm!CpsrBit
  <2> QED BY <1>2, <2>1, ArmSet, ArmFlagSets
<1> HIDE DEF f, val
<1>6. u \in ArmMachine(T)
  BY <1>2, <1>5, ArmSetFlags
<1>7. val - (val % 2) \in Word
  <2>1. val \in Nat /\ val <= M - 1 /\ M \in Nat
    BY <1>4, WordType DEF Word
  <2>2. val - (val % 2) \in Nat /\ val - (val % 2) <= val
    BY <2>1
  <2> HIDE DEF M
  <2>3. val - (val % 2) \in 0 .. M - 1
    BY <2>1, <2>2
  <2> QED BY <2>3 DEF Word
<1> HIDE DEF u
<1> QED BY <1>3, <1>6, <1>7, ArmJump

\* System calls, breakpoints and unknown instructions keep the machine.
LEMMA ArmSystem ==
  ASSUME NEW T, NEW s \in ArmMachine(T), NEW i, i.op \in {"Svc", "Bkpt", "Nop", "Unknown"}
  PROVE  Arm!System(s, i) \in ArmMachine(T)
<1>1. Arm!System(s, i) \in {s, Arm!Fails(s, "not_implemented"), Arm!Fails(s, "breakpoint"),
                            Arm!Fails(s, "invalid")}
  BY DEF Arm!System
<1>2. \A e : Arm!Fails(s, e) = Fails(s, e)
  BY ArmMemory
<1>3. \A e \in Errors : Fails(s, e) \in ArmMachine(T)
  BY ArmFails
<1> QED BY <1>1, <1>2, <1>3 DEF Errors

\* A transfer, single or block, keeps the machine.
LEMMA ArmTransfer ==
  ASSUME NEW T, 15 \notin T, NEW s \in ArmMachine(T),
         NEW i \in Arm!TransferInstr \cup Arm!BlockTransferInstr, KeepsStatuses(i, T)
  PROVE  Arm!Transfer(s, i) \in ArmMachine(T)
<1>1. ASSUME i \in Arm!TransferInstr PROVE Arm!Transfer(s, i) \in ArmMachine(T)
  <2>1. i.op \in {"Ldr", "Str", "Ldrb", "Strb", "Ldrh", "Strh", "Ldrsb", "Ldrsh"}
    BY <1>1, ArmVariants
  <2>2. Arm!Transfer(s, i)
          = Arm!Single(s, i, Arm!Address(s, i, Arm!Moved(s, i)), Arm!Moved(s, i))
    BY <2>1 DEF Arm!Transfer
  <2> QED BY <1>1, <2>2, ArmSingle
<1>2. ASSUME i \in Arm!BlockTransferInstr PROVE Arm!Transfer(s, i) \in ArmMachine(T)
  <2>1. i.op \in {"Ldm", "Stm"}
    BY <1>2, ArmVariants
  <2>2. Arm!Transfer(s, i) \in {Arm!Ldm(s, i), Arm!Stm(s, i)}
    BY <2>1 DEF Arm!Transfer
  <2> QED BY <1>2, <2>2, ArmLdm, ArmStm
<1> QED BY <1>1, <1>2

\* Entering an exception keeps the machine.
LEMMA ArmException ==
  ASSUME NEW T, 15 \notin T, NEW s \in ArmMachine(T), NEW mode, NEW target \in Word
  PROVE  Arm!TriggerException(s, mode, target) \in ArmMachine(T)
<1> SUFFICES ASSUME mode \in Arm!Banked PROVE Arm!TriggerException(s, mode, target) \in ArmMachine(T)
  BY DEF Arm!TriggerException
<1>1. s.cpsr \in Status /\ s.regs[15] \in Word /\ s.spsr \in [Arm!Banked -> Status]
      /\ s.lr \in [Arm!Banked -> Word]
  BY ArmSet DEF Arm!Register
<1> DEFINE c == [flags |-> s.cpsr.flags \cup {"I"}, mode |-> mode]
           sp == [s.spsr EXCEPT ![mode] = s.cpsr]
           lr == [s.lr EXCEPT ![mode] = s.regs[15]]
           g == [s.regs EXCEPT ![15] = target]
<1>2. c \in Status
  <2>1. s.cpsr.flags \in SUBSET Arm!CpsrBit /\ mode \in Arm!Mode /\ "I" \in Arm!CpsrBit
    BY ArmSet, ArmModes DEF Arm!CpsrBit
  <2> QED BY <2>1 DEF Status
<1>3. sp \in [Arm!Banked -> Status] /\ lr \in [Arm!Banked -> Word]
  BY <1>1
<1>4. g \in ArmRegs(T)
  BY ArmSet, ArmRegsSet DEF Arm!Register
<1>5. Arm!TriggerException(s, mode, target) =
        [s EXCEPT !.spsr = sp, !.lr = lr, !.cpsr = c, !.regs = g]
  BY DEF Arm!TriggerException
<1> HIDE DEF sp, lr, c, g
<1> QED BY <1>2, <1>3, <1>4, <1>5 DEF ArmMachine

-----------------------------------------------------------------------------
(* Every instruction keeps the machine                                     *)

\* An instruction leaves a machine of the same type, whatever it did.
LEMMA ArmExecutes ==
  ASSUME NEW T, 15 \notin T, NEW s \in ArmMachine(T), NEW i \in Arm!Instr, KeepsStatuses(i, T)
  PROVE  Arm!ExecuteArm(s, i) \in ArmMachine(T)
<1> DEFINE taken == Arm!CheckCondition(s.cpsr.flags, Arm!InstrCondition(i))
<1>1. ASSUME ~taken PROVE Arm!ExecuteArm(s, i) \in ArmMachine(T)
  BY <1>1 DEF Arm!ExecuteArm
<1> SUFFICES ASSUME taken PROVE Arm!ExecuteArm(s, i) \in ArmMachine(T)
  BY <1>1
<1>2. Arm!ExecuteArm(s, i) =
        CASE i.op \in {"And", "Eor", "Sub", "Rsb", "Add", "Adc", "Sbc", "Rsc", "Tst", "Teq",
                       "Cmp", "Cmn", "Orr", "Mov", "Bic", "Mvn"} -> Arm!DataProcessing(s, i)
          [] i.op \in {"Movw", "Movt"} -> Arm!Move(s, i)
          [] i.op = "Mrs" -> Arm!Mrs(s, i)
          [] i.op = "Msr" -> Arm!Msr(s, i)
          [] i.op \in {"Mul", "Mla"} -> Arm!Multiply(s, i)
          [] i.op \in {"Umull", "Umlal", "Smull", "Smlal"} -> Arm!MultiplyLong(s, i)
          [] i.op \in {"Bfc", "Bfi", "Ubfx", "Sbfx"} -> Arm!BitField(s, i)
          [] i.op \in {"Rev", "Rev16", "Revsh", "Clz"} -> Arm!Reversal(s, i)
          [] i.op \in {"Sxtb", "Sxth", "Uxtb", "Uxth"} -> Arm!Extension(s, i)
          [] i.op \in {"B", "Bl"} -> Arm!Branch(s, i)
          [] i.op \in {"Bx", "Blx"} -> Arm!BranchExchange(s, i)
          [] i.op \in {"Svc", "Bkpt", "Nop", "Unknown"} -> Arm!System(s, i)
          [] OTHER -> Arm!Transfer(s, i)
  BY ArmGroups, Zenon DEF Arm!ExecuteArm
<1> DEFINE e == Arm!ExecuteArm(s, i)
<1> HIDE DEF e, taken
<1>3. ASSUME i.op \in {"And", "Eor", "Sub", "Rsb", "Add", "Adc", "Sbc", "Rsc", "Tst", "Teq",
                       "Cmp", "Cmn", "Orr", "Mov", "Bic", "Mvn"}
      PROVE  e \in ArmMachine(T)
  <2>1. e = Arm!DataProcessing(s, i)
    BY <1>2, <1>3 DEF e
  <2> QED BY <1>3, <2>1, ArmKinds, ArmDataProcessing
<1>4. ASSUME i.op \in {"Movw", "Movt"} PROVE e \in ArmMachine(T)
  <2>1. e = Arm!Move(s, i)
    BY <1>2, <1>4 DEF e
  <2> QED BY <1>4, <2>1, ArmKinds, ArmMove
<1>5. ASSUME i.op = "Mrs" PROVE e \in ArmMachine(T)
  <2>1. e = Arm!Mrs(s, i)
    BY <1>2, <1>5 DEF e
  <2> QED BY <1>5, <2>1, ArmKinds, ArmMrs
<1>6. ASSUME i.op = "Msr" PROVE e \in ArmMachine(T)
  <2>1. e = Arm!Msr(s, i)
    BY <1>2, <1>6 DEF e
  <2> QED BY <1>6, <2>1, ArmKinds, ArmMsr
<1>7. ASSUME i.op \in {"Mul", "Mla"} PROVE e \in ArmMachine(T)
  <2>1. e = Arm!Multiply(s, i)
    BY <1>2, <1>7 DEF e
  <2> QED BY <1>7, <2>1, ArmKinds, ArmMultiply
<1>8. ASSUME i.op \in {"Umull", "Umlal", "Smull", "Smlal"} PROVE e \in ArmMachine(T)
  <2>1. e = Arm!MultiplyLong(s, i)
    BY <1>2, <1>8 DEF e
  <2> QED BY <1>8, <2>1, ArmKinds, ArmMultiplyLong
<1>9. ASSUME i.op \in {"Bfc", "Bfi", "Ubfx", "Sbfx"} PROVE e \in ArmMachine(T)
  <2>1. e = Arm!BitField(s, i)
    BY <1>2, <1>9 DEF e
  <2> QED BY <1>9, <2>1, ArmKinds, ArmBitField
<1>10. ASSUME i.op \in {"Rev", "Rev16", "Revsh", "Clz"} PROVE e \in ArmMachine(T)
  <2>1. e = Arm!Reversal(s, i)
    BY <1>2, <1>10 DEF e
  <2> QED BY <1>10, <2>1, ArmKinds, ArmReversal
<1>11. ASSUME i.op \in {"Sxtb", "Sxth", "Uxtb", "Uxth"} PROVE e \in ArmMachine(T)
  <2>1. e = Arm!Extension(s, i)
    BY <1>2, <1>11 DEF e
  <2> QED BY <1>11, <2>1, ArmKinds, ArmExtension
<1>12. ASSUME i.op \in {"B", "Bl"} PROVE e \in ArmMachine(T)
  <2>1. e = Arm!Branch(s, i)
    BY <1>2, <1>12 DEF e
  <2> QED BY <1>12, <2>1, ArmKinds, ArmBranch
<1>13. ASSUME i.op \in {"Bx", "Blx"} PROVE e \in ArmMachine(T)
  <2>1. e = Arm!BranchExchange(s, i)
    BY <1>2, <1>13 DEF e
  <2> QED BY <1>13, <2>1, ArmKinds, ArmBranchExchange
<1>14. ASSUME i.op \in {"Svc", "Bkpt", "Nop", "Unknown"} PROVE e \in ArmMachine(T)
  <2>1. e = Arm!System(s, i)
    BY <1>2, <1>14 DEF e
  <2> QED BY <1>14, <2>1, ArmSystem
<1>15. ASSUME i.op \in {"Ldr", "Str", "Ldrb", "Strb", "Ldrh", "Strh", "Ldrsb", "Ldrsh",
                        "Ldm", "Stm"}
       PROVE  e \in ArmMachine(T)
  <2>1. e = Arm!Transfer(s, i)
    BY <1>2, <1>15 DEF e
  <2>2. i \in Arm!TransferInstr \cup Arm!BlockTransferInstr
    BY <1>15, ArmKinds
  <2> QED BY <2>1, <2>2, ArmTransfer
<1>16. e \in ArmMachine(T)
  BY <1>3, <1>4, <1>5, <1>6, <1>7, <1>8, <1>9, <1>10, <1>11, <1>12, <1>13, <1>14, <1>15, ArmKinds
<1> QED BY <1>16 DEF e

\* A step of ARM on any word leaves a machine of the same type, every register
\* that MRS has not put a status in a word, and if the instruction failed the PC
\* is back on it.
THEOREM ArmSteps ==
  ASSUME NEW T, 15 \notin T, NEW s \in ArmMachine(T), NEW raw \in SUBSET (0 .. 31),
         KeepsStatuses(Arm!DecodeArm(raw), T)
  PROVE  /\ Arm!ArmStep(s, raw) \in ArmMachine(T)
         /\ Arm!ArmStep(s, raw).err # "ok" => Arm!ArmStep(s, raw).regs[15] = s.regs[15]
<1> DEFINE p == Arm!Put(s, 15, (s.regs[15] + 4) % M)
           t == Arm!ExecuteArm(p, Arm!DecodeArm(raw))
<1>1. s.regs[15] \in Word
  BY ArmSet DEF Arm!Register
<1>2. (s.regs[15] + 4) % M \in Word
  <2>1. s.regs[15] + 4 \in Int
    <3>1. s.regs[15] \in Int
      BY <1>1, WordArithmetic
    <3> QED BY <3>1
  <2> QED BY <2>1, WordType
<1>3. p \in ArmMachine(T)
  BY <1>2, ArmJump
<1> HIDE DEF p
<1>4. t \in ArmMachine(T)
  BY <1>3, ArmDecodes, ArmExecutes
<1>5. Arm!ArmStep(s, raw) = IF t.err = "ok" THEN t ELSE Arm!Put(t, 15, s.regs[15])
  BY ArmModulus DEF Arm!ArmStep, Arm!Rewound, p
<1> HIDE DEF t
<1>6. Arm!Put(t, 15, s.regs[15]) \in ArmMachine(T)
  BY <1>1, <1>4, ArmJump
<1>7. Arm!Put(t, 15, s.regs[15]).regs[15] = s.regs[15]
  <2>1. t.regs \in [Arm!Register -> Word \cup Status] /\ 15 \in Arm!Register
    BY <1>4, ArmSet DEF ArmRegs, Arm!Register
  <2>2. t \in ArmMachine(T)
    BY <1>4
  <2>3. Arm!Put(t, 15, s.regs[15]).regs = [t.regs EXCEPT ![15] = s.regs[15]]
    BY <2>2 DEF Arm!Put, ArmMachine
  <2> QED BY <2>1, <2>3
<1> QED BY <1>4, <1>5, <1>6, <1>7

\* The x86 module's words are those of this one.
LEMMA X86Words ==
  /\ X86!M = M /\ X86!Word = Word /\ X86!Width = Width /\ X86!Position = Position
  /\ \A n : X86!Span(n) = Span(n)
  /\ X86!ValueOf = ValueOf /\ X86!BitsOf = BitsOf
  /\ \A x, y : X86!And(x, y) = And(x, y) /\ X86!Or(x, y) = Or(x, y) /\ X86!Xor(x, y) = Xor(x, y)
  /\ \A x : X86!Not(x) = Not(x)
  /\ \A x, n : X86!Signed(x, n) = Signed(x, n) /\ X86!SignExtended(x, n) = SignExtended(x, n)
               /\ X86!Negative(x, n) = Negative(x, n)
  /\ \A x, n : /\ X86!ShiftedLeft(x, n) = ShiftedLeft(x, n)
               /\ X86!ShiftedRight(x, n) = ShiftedRight(x, n)
               /\ X86!ArithmeticRight(x, n) = ArithmeticRight(x, n)
               /\ X86!RotatedRight(x, n) = RotatedRight(x, n)
               /\ X86!Bit(x, n) = Bit(x, n)
  /\ \A x, n : X86!ByteAt(x, n) = ByteAt(x, n) /\ X86!SwapBytes(x, n) = SwapBytes(x, n)
  /\ \A b, n : X86!OfBytes(b, n) = OfBytes(b, n)
  /\ \A raw, lo, n : X86!Field(raw, lo, n) = Field(raw, lo, n)
                     /\ X86!SignedField(raw, lo, n) = SignedField(raw, lo, n)
  /\ \A n : X86!Unsigned(n) = Unsigned(n) /\ X86!TwosComplement(n) = TwosComplement(n)
<1>1. X86!M = M /\ X86!Word = Word /\ X86!Width = Width /\ X86!Position = Position
  BY DEF X86!M, M, X86!Word, Word, X86!Width, Width, X86!Position, Position, X86!Span, Span
<1>2. \A n : X86!Span(n) = Span(n)
  BY DEF X86!Span, Span
<1>3. \A h : X86!SumFunction(h) = SumFunction(h)
  BY DEF X86!SumFunction, SumFunction, X86!SumFunctionOnSet, SumFunctionOnSet,
         X86!FoldFunctionOnSet, FoldFunctionOnSet, X86!MapThenFoldSet, MapThenFoldSet
<1>4. X86!ValueOf = ValueOf /\ X86!BitsOf = BitsOf
  BY <1>1, <1>3 DEF X86!ValueOf, ValueOf, X86!BitsOf, BitsOf
<1>5. \A x, y : X86!And(x, y) = And(x, y) /\ X86!Or(x, y) = Or(x, y) /\ X86!Xor(x, y) = Xor(x, y)
  BY <1>4 DEF X86!And, And, X86!Or, Or, X86!Xor, Xor, X86!SymDiff, SymDiff
<1>6. \A x, n : X86!Signed(x, n) = Signed(x, n) /\ X86!Negative(x, n) = Negative(x, n)
  BY DEF X86!Signed, Signed, X86!Negative, Negative
<1>7. \A x, n : X86!SignExtended(x, n) = SignExtended(x, n)
  BY <1>1, <1>2, <1>6 DEF X86!SignExtended, SignExtended
<1>8. \A x, n : /\ X86!ShiftedLeft(x, n) = ShiftedLeft(x, n)
                /\ X86!ShiftedRight(x, n) = ShiftedRight(x, n)
                /\ X86!ArithmeticRight(x, n) = ArithmeticRight(x, n)
  BY <1>1, <1>6 DEF X86!ShiftedLeft, ShiftedLeft, X86!ShiftedRight, ShiftedRight,
                    X86!ArithmeticRight, ArithmeticRight
<1>9. \A x, n : X86!RotatedRight(x, n) = RotatedRight(x, n) /\ X86!Bit(x, n) = Bit(x, n)
  BY <1>1 DEF X86!RotatedRight, RotatedRight, X86!Bit, Bit
<1>10. \A x : X86!Not(x) = Not(x)
  BY <1>1 DEF X86!Not, Not
<1>11. \A x, n : X86!ByteAt(x, n) = ByteAt(x, n)
  BY <1>2 DEF X86!ByteAt, ByteAt
<1>12. \A b, n : X86!OfBytes(b, n) = OfBytes(b, n)
  BY <1>2, <1>3 DEF X86!OfBytes, OfBytes
<1>13. \A x, n : X86!SwapBytes(x, n) = SwapBytes(x, n)
  BY <1>11, <1>12 DEF X86!SwapBytes, SwapBytes
<1>14. \A raw, lo, n : X86!Field(raw, lo, n) = Field(raw, lo, n)
  BY <1>3 DEF X86!Field, Field
<1>15. \A raw, lo, n : X86!SignedField(raw, lo, n) = SignedField(raw, lo, n)
  BY <1>14 DEF X86!SignedField, SignedField
<1>16. \A n : X86!Unsigned(n) = Unsigned(n) /\ X86!TwosComplement(n) = TwosComplement(n)
  BY DEF X86!Unsigned, Unsigned, X86!TwosComplement, TwosComplement
<1> QED
  BY <1>1, <1>2, <1>4, <1>5, <1>6, <1>7, <1>8, <1>9, <1>10, <1>11, <1>12, <1>13, <1>14, <1>15, <1>16

\* The x86 module's loads and stores are those of this one.
LEMMA X86Memory ==
  /\ \A s, a, n : X86!Reachable(s, a, n) = Reachable(s, a, n)
  /\ \A s, a, n : X86!Loaded(s, a, n) = Loaded(s, a, n)
  /\ \A s, e : X86!Fails(s, e) = Fails(s, e)
  /\ \A s, a, n, v : X86!Stored(s, a, n, v) = Stored(s, a, n, v)
<1>1. \A s, a, n : X86!Reachable(s, a, n) = Reachable(s, a, n)
  BY DEF X86!Reachable, Reachable
<1>2. \A s, a, n : X86!Loaded(s, a, n) = Loaded(s, a, n)
  BY X86Words DEF X86!Loaded, Loaded
<1>3. \A s, e : X86!Fails(s, e) = Fails(s, e)
  BY DEF X86!Fails, Fails
<1>4. \A mem, a, n, v : X86!Filled(mem, a, n, v) = Filled(mem, a, n, v)
  BY X86Words DEF X86!Filled, Filled
<1>5. \A s, a, n, v : X86!Stored(s, a, n, v) = Stored(s, a, n, v)
  BY <1>1, <1>3, <1>4 DEF X86!Stored, Stored
<1> QED BY <1>1, <1>2, <1>3, <1>5


\* The part of X86Words that arithmetic needs.
LEMMA X86Modulus ==
  /\ X86!M = M /\ X86!Width = Width
  /\ \A n : X86!Span(n) = Span(n)
BY X86Words

-----------------------------------------------------------------------------
(* The x86 machine                                                         *)

\* A machine whose registers and PC hold words.
X86Machine ==
  [mem : [Cells -> Byte], mapped : SUBSET Regions, handles : BOOLEAN, err : Errors,
   regs : [X86!GpReg -> Word], pc : Word, flags : SUBSET X86!EFlags]

\* What the parts of a machine are.
LEMMA X86Set ==
  ASSUME NEW s \in X86Machine
  PROVE  /\ HasMemory(s) /\ s.handles \in BOOLEAN /\ s.err \in Errors
         /\ s.regs \in [X86!GpReg -> Word] /\ s.pc \in Word /\ s.flags \in SUBSET X86!EFlags
         /\ \A r \in X86!GpReg : s.regs[r] \in Word
BY DEF X86Machine, HasMemory

\* The registers that instructions use by name.
LEMMA X86Registers ==
  /\ X86!GpReg = 0 .. 7
  /\ X86!EAX \in X86!GpReg /\ X86!ECX \in X86!GpReg /\ X86!EDX \in X86!GpReg
  /\ X86!ESP \in X86!GpReg /\ X86!EBP \in X86!GpReg /\ X86!ESI \in X86!GpReg /\ X86!EDI \in X86!GpReg
BY DEF X86!GpReg, X86!EAX, X86!ECX, X86!EDX, X86!ESP, X86!EBP, X86!ESI, X86!EDI

\* Changing one part of a machine keeps it.
LEMMA X86Updates ==
  ASSUME NEW s \in X86Machine
  PROVE  /\ \A r \in X86!GpReg, v \in Word : X86!Put(s, r, v) \in X86Machine
         /\ \A f \in SUBSET X86!EFlags : X86!PutFlags(s, f) \in X86Machine
         /\ \A v \in Word : [s EXCEPT !.pc = v] \in X86Machine
         /\ \A e \in Errors : Fails(s, e) \in X86Machine
         /\ \A g \in [X86!GpReg -> Word] : [s EXCEPT !.regs = g] \in X86Machine
<1>1. \A g \in [X86!GpReg -> Word] : [s EXCEPT !.regs = g] \in X86Machine
  BY DEF X86Machine
<1>2. ASSUME NEW r \in X86!GpReg, NEW v \in Word PROVE X86!Put(s, r, v) \in X86Machine
  <2>1. [s.regs EXCEPT ![r] = v] \in [X86!GpReg -> Word]
    BY X86Set
  <2>2. X86!Put(s, r, v) = [s EXCEPT !.regs = [s.regs EXCEPT ![r] = v]]
    BY DEF X86!Put
  <2> QED BY <1>1, <2>1, <2>2
<1>3. \A f \in SUBSET X86!EFlags : X86!PutFlags(s, f) \in X86Machine
  BY DEF X86!PutFlags, X86Machine
<1>4. \A v \in Word : [s EXCEPT !.pc = v] \in X86Machine
  BY DEF X86Machine
<1>5. \A e \in Errors : Fails(s, e) \in X86Machine
  BY DEF Fails, X86Machine
<1> QED BY <1>1, <1>2, <1>3, <1>4, <1>5

\* A machine that reports an error is a machine.
LEMMA X86Failures ==
  ASSUME NEW s \in X86Machine
  PROVE  \A e \in {"fault", "device", "panic", "not_implemented", "breakpoint", "invalid"} :
           X86!Fails(s, e) \in X86Machine
<1>1. \A e : X86!Fails(s, e) = Fails(s, e)
  BY X86Memory
<1> QED BY <1>1, X86Updates DEF Errors

\* A store keeps the machine, whether it succeeds or not.
LEMMA X86Stored ==
  ASSUME NEW s \in X86Machine, NEW a, NEW n \in Nat, NEW v \in Int
  PROVE  X86!Stored(s, a, n, v) \in X86Machine
<1>1. Filled(s.mem, a, n, v) \in [Cells -> Byte] /\ Filled(s.mem, a, 1, v) \in [Cells -> Byte]
  BY FilledType DEF X86Machine
<1>2. [s EXCEPT !.mem = Filled(s.mem, a, n, v)] \in X86Machine
  BY <1>1 DEF X86Machine
<1>3. [[s EXCEPT !.mem = Filled(s.mem, a, 1, v)] EXCEPT !.err = "fault"] \in X86Machine
  BY <1>1 DEF X86Machine, Errors
<1>4. [s EXCEPT !.err = "fault"] \in X86Machine
  BY DEF X86Machine, Errors
<1>5. Stored(s, a, n, v) \in X86Machine
  BY <1>2, <1>3, <1>4 DEF Stored, Fails
<1> QED BY <1>5, X86Memory

-----------------------------------------------------------------------------
(* Parts of a register                                                     *)

\* The spans of the operand sizes divide that of a word.
LEMMA SpanDivides ==
  ASSUME NEW n \in {1, 2, 4}
  PROVE  /\ Span(n) \in Nat /\ Span(n) >= 1
         /\ \E e \in Nat : e >= 1 /\ M = Span(n) * e
<1>1. Span(n) \in Nat /\ Span(n) >= 1
  BY BytesAreWords
<1>2. M = Span(3) * Span(1) /\ M = Span(2) * Span(2) /\ M = Span(4)
      /\ Span(1) \in Nat /\ Span(2) \in Nat /\ Span(3) \in Nat /\ Span(3) >= 1 /\ Span(2) >= 1 /\ Span(4) \in Nat
  BY Spans
<1>3. M = Span(1) * Span(3) /\ M = Span(4) * 1
  <2> HIDE DEF M
  <2> QED BY <1>2
<1> HIDE DEF M
<1> QED BY <1>1, <1>2, <1>3

\* A number is made of quotient and remainder.
LEMMA DivisionOf ==
  ASSUME NEW x \in Nat, NEW d \in Nat, d >= 1
  PROVE  /\ x = d * (x \div d) + (x % d)
         /\ x \div d \in Nat /\ x % d \in 0 .. d - 1
OBVIOUS

\* Replacing the low part of a number keeps it in range.
LEMMA LowPartType ==
  ASSUME NEW x \in Nat, NEW d \in Nat, NEW e \in Nat, d >= 1, x < d * e, NEW r \in 0 .. d - 1
  PROVE  x - (x % d) + r \in 0 .. d * e - 1
<1> DEFINE q == x \div d   p == x % d
<1>1. q \in 0 .. e - 1
  BY QuotientBelow
<1>2. x = d * q + p /\ p \in 0 .. d - 1
  BY DivisionOf
<1> HIDE DEF q, p
<1>3. d * q \in Nat /\ d * q <= d * (e - 1)
  BY <1>1
<1>4. d * (e - 1) = d * e - d
  BY <1>1
<1>5. x - p + r = d * q + r
  BY <1>2, <1>3
<1> QED BY <1>3, <1>4, <1>5 DEF p

\* Replacing the low bytes of a word gives a word.
LEMMA WithLowType ==
  ASSUME NEW x \in Word, NEW n \in {1, 2, 4}, NEW v \in Int
  PROVE  X86!WithLow(x, n, v) \in Word
<1>1. PICK e \in Nat : M = Span(n) * e
  BY SpanDivides
<1> DEFINE d == Span(n)   r == v % d
<1>2. d \in Nat /\ d >= 1 /\ x \in Nat
  BY SpanDivides, WordArithmetic
<1>3. x < d * e
  BY <1>1, <1>2, WordType DEF Word
<1>4. X86!WithLow(x, n, v) = x - (x % d) + r
  BY X86Modulus DEF X86!WithLow
<1>5. r \in 0 .. d - 1
  <2> HIDE DEF d
  <2> QED BY <1>2, Remainder
<1> HIDE DEF d, r
<1>6. x - (x % d) + r \in 0 .. d * e - 1
  BY <1>2, <1>3, <1>5, LowPartType
<1> QED BY <1>1, <1>4, <1>6 DEF Word, d

\* Replacing the second byte of a number keeps it in range.
LEMMA HighByteType ==
  ASSUME NEW x \in Nat, NEW d \in Nat, d >= 1, NEW e \in Nat, x < d * (d * e),
         NEW b \in 0 .. d - 1
  PROVE  x - ((x \div d) % d) * d + b * d \in 0 .. d * (d * e) - 1
<1> DEFINE q == x \div d   p == x % d   h == q % d   t == q \div d
<1>1. q \in Nat /\ p \in 0 .. d - 1 /\ x = d * q + p
  BY DivisionOf
<1>2. q < d * e
  <2>1. d * e \in Nat
    OBVIOUS
  <2>2. q \in 0 .. (d * e) - 1
    BY <2>1, QuotientBelow
  <2> QED BY <2>1, <2>2
<1> HIDE DEF q
<1>3. t \in 0 .. e - 1
  BY <1>1, <1>2, QuotientBelow
<1>4. h \in 0 .. d - 1 /\ q = d * t + h
  BY <1>1, DivisionOf
<1> HIDE DEF h, t, p
<1>5. q - h + b \in Nat /\ q - h + b = d * t + b
  BY <1>1, <1>3, <1>4
<1>6. d * t <= d * (e - 1) /\ d * t \in Nat
  BY <1>3
<1>7. d * (e - 1) = d * e - d
  BY <1>3
<1>8. q - h + b \in 0 .. (d * e) - 1
  BY <1>5, <1>6, <1>7
<1> DEFINE u == q - h + b   k == d * e
<1>9. u \in Nat /\ k \in Nat /\ u <= k - 1
  <2>1. k \in Nat
    BY <1>3
  <2> QED BY <1>8, <2>1
<1>10. x - h * d + b * d = d * u + p
  <2>1. d * u = d * q - d * h + d * b
    BY <1>1, <1>4
  <2>2. h * d = d * h /\ b * d = d * b
    BY <1>4
  <2> HIDE DEF u
  <2> QED BY <1>1, <1>4, <2>1, <2>2
<1> HIDE DEF u, k
<1>11. d * u \in Nat /\ d * u <= d * (k - 1)
  BY <1>9
<1>12. d * (k - 1) = d * k - d
  BY <1>9
<1>13. d * u + p \in 0 .. d * k - 1
  BY <1>1, <1>9, <1>11, <1>12
<1> QED BY <1>10, <1>13 DEF k, h, q

\* Writing AL or AH into EAX gives a word, and so for the others.
LEMMA ByteRegister ==
  ASSUME NEW x \in Word, NEW k \in {0, 1}, NEW b \in Int
  PROVE  X86!WithByte(x, k, b) \in Word
<1> DEFINE d == Span(1)   c == b % d
<1>1. d \in Nat /\ d >= 1 /\ x \in Nat /\ Span(0) = 1
  BY Spans, WordArithmetic
<1>2. c \in 0 .. d - 1
  <2> HIDE DEF d
  <2> QED BY <1>1, Remainder
<1>3. X86!WithByte(x, k, b) = x - ByteAt(x, k) * Span(k) + c * Span(k)
  BY X86Words DEF X86!WithByte
<1> HIDE DEF c
<1>4. CASE k = 0
  <2>1. ByteAt(x, 0) = x % d
    <3>1. x \div 1 = x
      BY <1>1
    <3> QED BY <1>1, <3>1 DEF ByteAt
  <2> HIDE DEF d
  <2>2. (x % d) * 1 = x % d /\ c * 1 = c
    <3>1. x % d \in Int
      BY <1>1, Remainder
    <3> QED BY <1>2, <3>1
  <2>3. X86!WithByte(x, k, b) = x - (x % d) + c
    BY <1>1, <1>3, <1>4, <2>1, <2>2
  <2>4. PICK e \in Nat : M = d * e
    BY SpanDivides DEF d
  <2>5. x < d * e
    BY <1>1, <2>4, WordType DEF Word
  <2>6. x - (x % d) + c \in 0 .. d * e - 1
    BY <1>1, <1>2, <2>5, LowPartType
  <2> QED BY <2>3, <2>4, <2>6 DEF Word
<1>5. CASE k = 1
  <2>1. ByteAt(x, 1) = (x \div d) % d
    BY DEF ByteAt
  <2> DEFINE e == Span(2)
  <2>2. M = d * (d * e) /\ e \in Nat
    <3>1. Span(2) = d * d /\ M = Span(2) * Span(2) /\ Span(2) \in Nat
      BY Spans
    <3> HIDE DEF d, M
    <3>2. (d * d) * e = d * (d * e)
      BY <1>1, <3>1
    <3> QED BY <3>1, <3>2
  <2> HIDE DEF d, e
  <2>3. X86!WithByte(x, k, b) = x - ((x \div d) % d) * d + c * d
    BY <1>3, <1>5, <2>1 DEF d
  <2>4. x < d * (d * e)
    BY <1>1, <2>2, WordType DEF Word
  <2>5. x - ((x \div d) % d) * d + c * d \in 0 .. d * (d * e) - 1
    BY <1>1, <1>2, <2>2, <2>4, HighByteType
  <2> QED BY <2>2, <2>3, <2>5 DEF Word
<1> QED BY <1>4, <1>5

-----------------------------------------------------------------------------
(* Operands                                                                *)

\* Displacements are integers.
LEMMA X86Relatives == X86!Rel \subseteq Int
<1>1. \A a, b : a .. b \subseteq Int
  OBVIOUS
<1> QED BY <1>1 DEF X86!Rel

\* What an operand's kind says of its parts.
LEMMA X86Operands ==
  ASSUME NEW o \in X86!Operand
  PROVE  /\ o.size \in {1, 2, 4}
         /\ o.kind \in {"reg", "mem", "imm"}
         /\ o.kind = "reg" => o.reg \in X86!GpReg
         /\ o.kind = "mem" => o.addr \in X86!MemoryAddr
         /\ o.kind = "imm" => o.val \in Int
         /\ o.kind # "mem" => o \in X86!RegOperand \cup X86!ImmOperand
         /\ o.kind = "mem" => o \in X86!MemOperand
<1>1. X86!Rel \subseteq Int
  BY X86Relatives
<1>2. X86!Unsigned(16) \subseteq Int
  <2>1. Unsigned(16) \subseteq Int
    BY DEF Unsigned
  <2> QED BY <2>1, X86Words
<1>3. CASE o \in X86!RegOperand
  BY <1>3 DEF X86!RegOperand, X86!OpSize
<1>4. CASE o \in X86!MemOperand
  BY <1>4 DEF X86!MemOperand, X86!OpSize
<1>5. CASE o \in X86!ImmOperand
  <2>1. 0 .. 255 \subseteq Int
    OBVIOUS
  <2>2. o.size \in {1, 2, 4} /\ o.kind = "imm" /\ o.val \in Int
    BY <1>1, <1>2, <1>5, <2>1 DEF X86!ImmOperand
  <2> QED BY <1>5, <2>2
<1> QED BY <1>3, <1>4, <1>5 DEF X86!Operand

\* The effective address is a word.
LEMMA X86Address ==
  ASSUME NEW s \in X86Machine, NEW m \in X86!MemoryAddr
  PROVE  X86!CalcAddr(s, m) \in Word
<1> DEFINE base == IF m.base = {} THEN 0 ELSE s.regs[CHOOSE r \in m.base : TRUE]
           index == IF m.index = {} THEN 0 ELSE s.regs[CHOOSE r \in m.index : TRUE] * m.scale
           disp == m.disp % M
<1>1. m.base \in SUBSET X86!GpReg /\ m.index \in SUBSET X86!GpReg /\ m.scale \in {1, 2, 4, 8}
      /\ m.disp \in X86!Rel
  <2>1. m.base \in X86!Option(X86!GpReg) /\ m.index \in X86!Option(X86!GpReg)
        /\ m.scale \in {1, 2, 4, 8} /\ m.disp \in X86!Rel
    BY DEF X86!MemoryAddr
  <2> QED BY <2>1 DEF X86!Option
<1>2. disp \in Int
  <2>1. m.disp \in Int
    BY <1>1, X86Relatives
  <2>2. disp \in Word
    BY <2>1, WordType
  <2> HIDE DEF disp
  <2> QED BY <2>2, WordArithmetic
<1>3. \A r \in X86!GpReg : s.regs[r] \in Int
  BY X86Set, WordArithmetic
<1>4. base \in Int
  <2>1. m.base # {} => (CHOOSE r \in m.base : TRUE) \in X86!GpReg
    BY <1>1
  <2> QED BY <1>3, <2>1
<1>5. index \in Int
  <2>1. m.index # {} => (CHOOSE r \in m.index : TRUE) \in X86!GpReg
    BY <1>1
  <2>2. \A x \in Int : x * m.scale \in Int
    BY <1>1
  <2> QED BY <1>3, <2>1, <2>2
<1>6. X86!CalcAddr(s, m) = (disp + base + index) % M
  BY X86Modulus DEF X86!CalcAddr
<1> HIDE DEF disp, base, index
<1>7. disp + base + index \in Int
  BY <1>2, <1>4, <1>5
<1> QED BY <1>6, <1>7, WordType

\* A readable operand has a value of its size.
LEMMA X86LoadOp ==
  ASSUME NEW s \in X86Machine, NEW o \in X86!Operand, X86!Readable(s, o)
  PROVE  /\ X86!LoadOp(s, o) \in 0 .. Span(o.size) - 1
         /\ X86!LoadOp(s, o) \in Word /\ X86!LoadOp(s, o) \in Int
<1> DEFINE v == X86!LoadOp(s, o)   n == o.size
<1>1. n \in {1, 2, 4}
  BY X86Operands
<1>2. ASSUME o.kind = "reg", n = 1 PROVE v \in 0 .. Span(n) - 1
  <2>1. o.reg % 4 \in X86!GpReg /\ o.reg \div 4 \in Nat
    BY <1>2, X86Operands DEF X86!GpReg
  <2>2. s.regs[o.reg % 4] \in Int
    BY <2>1, X86Set, WordArithmetic
  <2>3. ByteAt(s.regs[o.reg % 4], o.reg \div 4) \in Byte
    BY <2>1, <2>2, ByteAtType
  <2>4. v = X86!ByteAt(s.regs[o.reg % 4], o.reg \div 4)
    BY <1>2 DEF X86!LoadOp, X86!ByteReg
  <2>5. v = ByteAt(s.regs[o.reg % 4], o.reg \div 4)
    BY <2>4, X86Words
  <2> QED BY <1>2, <2>3, <2>5 DEF Byte
<1>3. ASSUME o.kind = "reg", n # 1 PROVE v \in 0 .. Span(n) - 1
  <2>1. s.regs[o.reg] \in Int
    BY <1>3, X86Operands, X86Set, WordArithmetic
  <2>2. v = s.regs[o.reg] % Span(n)
    BY <1>3, X86Modulus DEF X86!LoadOp
  <2> QED BY <1>1, <2>1, <2>2, NarrowType
<1>4. ASSUME o.kind = "mem" PROVE v \in 0 .. Span(n) - 1
  <2> DEFINE a == X86!CalcAddr(s, o.addr)
  <2>1. a \in Word
    BY <1>4, X86Operands, X86Address
  <2>2. X86!Reachable(s, a, n)
    BY <1>4 DEF X86!Readable
  <2>3. Reachable(s, a, n)
    BY <2>2, X86Memory
  <2>4. v = X86!Loaded(s, a, n)
    BY <1>4 DEF X86!LoadOp
  <2>5. v = Loaded(s, a, n)
    BY <2>4, X86Memory
  <2> HIDE DEF a, n
  <2> QED BY <1>1, <2>1, <2>3, <2>5, X86Set, LoadedType
<1>5. ASSUME o.kind = "imm" PROVE v \in 0 .. Span(n) - 1
  <2>1. o.val \in Int
    BY <1>5, X86Operands
  <2>2. v = o.val % Span(n)
    BY <1>5, X86Modulus DEF X86!LoadOp
  <2> QED BY <1>1, <2>1, <2>2, NarrowType
<1>6. v \in 0 .. Span(n) - 1
  BY <1>2, <1>3, <1>4, <1>5, X86Operands
<1>7. v \in Word
  <2> HIDE DEF v, n
  <2> QED BY <1>1, <1>6, BytesAreWords
<1> HIDE DEF v
<1>8. v \in Int
  BY <1>7, WordArithmetic
<1> QED BY <1>6, <1>7, <1>8 DEF v

\* Writing an operand keeps the machine, whether it succeeds or not.
LEMMA X86StoreOp ==
  ASSUME NEW s \in X86Machine, NEW o \in X86!Operand, NEW v \in Int
  PROVE  X86!StoreOp(s, o, v) \in X86Machine
<1> DEFINE n == o.size   r == o.reg
<1>1. n \in {1, 2, 4} /\ n \in Nat
  BY X86Operands
<1>2. ASSUME o.kind = "reg", n = 1 PROVE X86!StoreOp(s, o, v) \in X86Machine
  <2>1. r % 4 \in X86!GpReg /\ r \div 4 \in {0, 1}
    BY <1>2, X86Operands DEF X86!GpReg
  <2>2. s.regs[r % 4] \in Word
    BY <2>1, X86Set
  <2>3. X86!StoreOp(s, o, v) = X86!Put(s, r % 4, X86!WithByte(s.regs[r % 4], r \div 4, v))
    BY <1>2 DEF X86!StoreOp
  <2>4. X86!WithByte(s.regs[r % 4], r \div 4, v) \in Word
    BY <2>1, <2>2, ByteRegister
  <2> QED BY <2>1, <2>3, <2>4, X86Updates
<1>3. ASSUME o.kind = "reg", n # 1 PROVE X86!StoreOp(s, o, v) \in X86Machine
  <2>1. r \in X86!GpReg /\ s.regs[r] \in Word
    BY <1>3, X86Operands, X86Set
  <2>2. X86!StoreOp(s, o, v) = X86!Put(s, r, X86!WithLow(s.regs[r], n, v))
    BY <1>3 DEF X86!StoreOp
  <2>3. X86!WithLow(s.regs[r], n, v) \in Word
    BY <1>1, <2>1, WithLowType
  <2> QED BY <2>1, <2>2, <2>3, X86Updates
<1>4. ASSUME o.kind = "mem" PROVE X86!StoreOp(s, o, v) \in X86Machine
  <2>1. X86!StoreOp(s, o, v) = X86!Stored(s, X86!CalcAddr(s, o.addr), n, v)
    BY <1>4 DEF X86!StoreOp
  <2> QED BY <1>1, <2>1, X86Stored
<1>5. ASSUME o.kind = "imm" PROVE X86!StoreOp(s, o, v) \in X86Machine
  <2>1. X86!StoreOp(s, o, v) = X86!Fails(s, "device")
    BY <1>5 DEF X86!StoreOp
  <2> QED BY <2>1, X86Failures
<1> QED BY <1>2, <1>3, <1>4, <1>5, X86Operands

-----------------------------------------------------------------------------
(* Flags and adders                                                        *)

\* The operators on flags give flags.
LEMMA X86FlagSets ==
  ASSUME NEW flags \in SUBSET X86!EFlags
  PROVE  /\ \A f \in X86!EFlags : \A on : X86!SetFlag(flags, f, on) \in SUBSET X86!EFlags
         /\ \A res, n : X86!ResultFlags(flags, res, n) \in SUBSET X86!EFlags
         /\ \A res, n : X86!SetLogicFlags(flags, res, n) \in SUBSET X86!EFlags
<1>1. \A g \in SUBSET X86!EFlags, f \in X86!EFlags : \A on : X86!SetFlag(g, f, on) \in SUBSET X86!EFlags
  BY DEF X86!SetFlag
<1>2. "ZF" \in X86!EFlags /\ "SF" \in X86!EFlags /\ "PF" \in X86!EFlags
  BY DEF X86!EFlags
<1>3. \A res, n : X86!ResultFlags(flags, res, n) \in SUBSET X86!EFlags
  BY <1>1, <1>2, Zenon DEF X86!ResultFlags
<1>4. \A res, n : X86!SetLogicFlags(flags, res, n) \in SUBSET X86!EFlags
  BY <1>3 DEF X86!SetLogicFlags
<1> QED BY <1>1, <1>3, <1>4

\* The adders give integers and flags.
LEMMA X86Adders ==
  ASSUME NEW flags \in SUBSET X86!EFlags, NEW x \in Int, NEW y \in Int, NEW c, NEW n \in {1, 2, 4}
  PROVE  /\ X86!DoAdd(flags, x, y, c, n).res \in Int
         /\ X86!DoAdd(flags, x, y, c, n).flags \in SUBSET X86!EFlags
         /\ X86!DoSub(flags, x, y, c, n).res \in Int
         /\ X86!DoSub(flags, x, y, c, n).flags \in SUBSET X86!EFlags
<1> DEFINE d == Span(n)   a == x % d   b == y % d   k == X86!CarryIn(flags, c)
           t == (a + b) % d   u == (a - b) % d   r == (t + k) % d   w == (u - k) % d
<1>1. d \in Nat /\ d >= 1
  BY SpanDivides
<1>2. k \in Int
  BY DEF X86!CarryIn
<1> HIDE DEF d, k
<1>3. a \in Int /\ b \in Int
  BY <1>1, Remainder
<1> HIDE DEF a, b
<1>4. t \in Int /\ u \in Int
  <2>1. a + b \in Int /\ a - b \in Int
    BY <1>3
  <2> QED BY <1>1, <2>1, Remainder
<1> HIDE DEF t, u
<1>5. r \in Int /\ w \in Int
  <2>1. t + k \in Int /\ u - k \in Int
    BY <1>2, <1>4
  <2> QED BY <1>1, <2>1, Remainder
<1>6. "CF" \in X86!EFlags /\ "OF" \in X86!EFlags
  BY DEF X86!EFlags
<1>7. \A res, p, q : X86!SetFlag(X86!SetFlag(X86!ResultFlags(flags, res, n), "CF", p), "OF", q)
                       \in SUBSET X86!EFlags
  BY <1>6, X86FlagSets
<1>8. X86!DoAdd(flags, x, y, c, n).res = r /\ X86!DoSub(flags, x, y, c, n).res = w
  BY X86Modulus DEF X86!DoAdd, X86!DoSub, r, w, t, u, a, b, d, k
<1>9. X86!DoAdd(flags, x, y, c, n).flags \in SUBSET X86!EFlags
  BY <1>7, Zenon DEF X86!DoAdd
<1>10. X86!DoSub(flags, x, y, c, n).flags \in SUBSET X86!EFlags
  BY <1>7, Zenon DEF X86!DoSub
<1> QED BY <1>5, <1>8, <1>9, <1>10

-----------------------------------------------------------------------------
(* Moves, adders and the logical operations                                *)

\* MOV keeps the machine.
LEMMA X86Mov ==
  ASSUME NEW s \in X86Machine, NEW i, i.dest \in X86!Operand, i.src \in X86!Operand
  PROVE  X86!Mov(s, i) \in X86Machine
<1>1. ASSUME X86!Readable(s, i.src)
      PROVE  X86!StoreOp(s, i.dest, X86!LoadOp(s, i.src)) \in X86Machine
  BY <1>1, X86LoadOp, X86StoreOp
<1> QED BY <1>1, X86Failures DEF X86!Mov

\* The adders and CMP keep the machine.
LEMMA X86Adder ==
  ASSUME NEW s \in X86Machine, NEW i, i.dest \in X86!Operand, i.src \in X86!Operand,
         X86!Readable(s, i.dest), X86!Readable(s, i.src),
         i.op \in {"Add", "Adc", "Sub", "Sbb", "Cmp"}
  PROVE  X86!Adder(s, i) \in X86Machine
<1> DEFINE v1 == X86!LoadOp(s, i.dest)   v2 == X86!LoadOp(s, i.src)   n == i.dest.size
           out == CASE i.op \in {"Add", "Adc"} -> X86!DoAdd(s.flags, v1, v2, i.op = "Adc", n)
                    [] i.op \in {"Sub", "Sbb", "Cmp"} -> X86!DoSub(s.flags, v1, v2, i.op = "Sbb", n)
           t == X86!PutFlags(s, out.flags)
<1>1. v1 \in Int /\ v2 \in Int /\ n \in {1, 2, 4} /\ s.flags \in SUBSET X86!EFlags
  BY X86LoadOp, X86Operands, X86Set
<1>2. X86!Adder(s, i) = IF i.op = "Cmp" THEN t ELSE X86!StoreOp(t, i.dest, out.res)
  BY DEF X86!Adder
<1> HIDE DEF v1, v2, n
<1>3. \A c : /\ X86!DoAdd(s.flags, v1, v2, c, n).res \in Int
             /\ X86!DoAdd(s.flags, v1, v2, c, n).flags \in SUBSET X86!EFlags
             /\ X86!DoSub(s.flags, v1, v2, c, n).res \in Int
             /\ X86!DoSub(s.flags, v1, v2, c, n).flags \in SUBSET X86!EFlags
  BY <1>1, X86Adders
<1>4. out.res \in Int /\ out.flags \in SUBSET X86!EFlags
  BY <1>3, Zenon
<1> HIDE DEF out
<1>5. t \in X86Machine
  BY <1>4, X86Updates
<1> HIDE DEF t
<1> QED BY <1>2, <1>4, <1>5, X86StoreOp

\* Writing a logical operation's result keeps the machine.
LEMMA X86StoreLogic ==
  ASSUME NEW s \in X86Machine, NEW o \in X86!Operand, NEW v \in Int
  PROVE  X86!StoreLogic(s, o, v) \in X86Machine
<1>1. X86!SetLogicFlags(s.flags, v, o.size) \in SUBSET X86!EFlags
  BY X86Set, X86FlagSets
<1> DEFINE t == X86!StoreOp(s, o, v)
<1>2. t \in X86Machine
  BY X86StoreOp
<1>3. X86!StoreLogic(s, o, v) =
        IF t.err = "ok" THEN X86!PutFlags(t, X86!SetLogicFlags(s.flags, v, o.size)) ELSE t
  BY DEF X86!StoreLogic
<1> HIDE DEF t
<1> QED BY <1>1, <1>2, <1>3, X86Updates

\* The logical operations and TEST keep the machine.
LEMMA X86Logic ==
  ASSUME NEW s \in X86Machine, NEW i, i.dest \in X86!Operand, i.src \in X86!Operand,
         X86!Readable(s, i.dest), X86!Readable(s, i.src),
         i.op \in {"Xor", "And", "Or", "Test"}
  PROVE  X86!Logic(s, i) \in X86Machine
<1> DEFINE v1 == X86!LoadOp(s, i.dest)   v2 == X86!LoadOp(s, i.src)
<1>1. v1 \in Word /\ v2 \in Word
  BY X86LoadOp
<1>2. X86!Logic(s, i)
        \in {X86!StoreLogic(s, i.dest, X86!Xor(v1, v2)), X86!StoreLogic(s, i.dest, X86!And(v1, v2)),
             X86!StoreLogic(s, i.dest, X86!Or(v1, v2)),
             X86!PutFlags(s, X86!SetLogicFlags(s.flags, X86!And(v1, v2), i.dest.size))}
  BY DEF X86!Logic
<1> HIDE DEF v1, v2
<1>3. And(v1, v2) \in Word /\ Or(v1, v2) \in Word /\ Xor(v1, v2) \in Word
  BY <1>1, BitwiseType
<1>4. And(v1, v2) \in Int /\ Or(v1, v2) \in Int /\ Xor(v1, v2) \in Int
  BY <1>3, WordArithmetic
<1>5. X86!And(v1, v2) \in Int /\ X86!Or(v1, v2) \in Int /\ X86!Xor(v1, v2) \in Int
  BY <1>4, X86Words
<1>6. \A v \in Int : X86!StoreLogic(s, i.dest, v) \in X86Machine
  BY X86StoreLogic
<1>7. \A v, n : X86!PutFlags(s, X86!SetLogicFlags(s.flags, v, n)) \in X86Machine
  BY X86Set, X86FlagSets, X86Updates
<1> QED BY <1>2, <1>5, <1>6, <1>7

\* The operations on two operands keep the machine, readable or not.
LEMMA X86Binary ==
  ASSUME NEW s \in X86Machine, NEW i, i.dest \in X86!Operand, i.src \in X86!Operand,
         i.op \in {"Add", "Adc", "Sub", "Sbb", "Xor", "And", "Or", "Cmp", "Test"}
  PROVE  X86!Binary(s, i) \in X86Machine
<1>1. CASE ~X86!Readable(s, i.dest) \/ ~X86!Readable(s, i.src)
  BY <1>1, X86Failures DEF X86!Binary
<1>2. CASE X86!Readable(s, i.dest) /\ X86!Readable(s, i.src)
  <2>1. X86!Binary(s, i) = IF i.op \in {"Add", "Adc", "Sub", "Sbb", "Cmp"}
                           THEN X86!Adder(s, i) ELSE X86!Logic(s, i)
    BY <1>2 DEF X86!Binary
  <2> QED BY <1>2, <2>1, X86Adder, X86Logic
<1> QED BY <1>1, <1>2

\* INC, DEC, NEG and NOT keep the machine.
LEMMA X86Unary ==
  ASSUME NEW s \in X86Machine, NEW i, i.dest \in X86!Operand,
         i.op \in {"Inc", "Dec", "Neg", "Not"}
  PROVE  X86!Unary(s, i) \in X86Machine
<1> DEFINE v == X86!LoadOp(s, i.dest)   n == i.dest.size
           out == CASE i.op = "Inc" -> X86!DoAdd(s.flags, v, 1, FALSE, n)
                    [] i.op = "Dec" -> X86!DoSub(s.flags, v, 1, FALSE, n)
                    [] i.op = "Neg" -> X86!DoSub(s.flags, 0, v, FALSE, n)
                    [] i.op = "Not" -> [res |-> X86!Span(n) - 1 - v, flags |-> s.flags]
           flags == IF i.op \in {"Inc", "Dec"} THEN X86!SetFlag(out.flags, "CF", "CF" \in s.flags)
                    ELSE out.flags
<1>1. X86!Unary(s, i) = IF ~X86!Readable(s, i.dest) THEN X86!Fails(s, "fault")
                        ELSE X86!StoreOp(X86!PutFlags(s, flags), i.dest, out.res)
  BY DEF X86!Unary
<1> SUFFICES ASSUME X86!Readable(s, i.dest)
             PROVE  X86!StoreOp(X86!PutFlags(s, flags), i.dest, out.res) \in X86Machine
  <2> HIDE DEF out, flags
  <2> QED BY <1>1, X86Failures
<1>2. v \in Int /\ n \in {1, 2, 4} /\ s.flags \in SUBSET X86!EFlags
  BY X86LoadOp, X86Operands, X86Set
<1> HIDE DEF v, n
<1>3. /\ X86!DoAdd(s.flags, v, 1, FALSE, n).res \in Int
      /\ X86!DoAdd(s.flags, v, 1, FALSE, n).flags \in SUBSET X86!EFlags
      /\ X86!DoSub(s.flags, v, 1, FALSE, n).res \in Int
      /\ X86!DoSub(s.flags, v, 1, FALSE, n).flags \in SUBSET X86!EFlags
      /\ X86!DoSub(s.flags, 0, v, FALSE, n).res \in Int
      /\ X86!DoSub(s.flags, 0, v, FALSE, n).flags \in SUBSET X86!EFlags
  <2>1. 0 \in Int /\ 1 \in Int
    OBVIOUS
  <2> QED BY <1>2, <2>1, X86Adders
<1>4. X86!Span(n) - 1 - v \in Int
  <2>1. X86!Span(n) \in Int
    BY <1>2, X86Modulus, SpanDivides
  <2> QED BY <1>2, <2>1
<1>5. out.res \in Int /\ out.flags \in SUBSET X86!EFlags
  BY <1>2, <1>3, <1>4
<1> HIDE DEF out
<1>6. flags \in SUBSET X86!EFlags
  <2>1. "CF" \in X86!EFlags
    BY DEF X86!EFlags
  <2> QED BY <1>5, <2>1, X86FlagSets
<1> HIDE DEF flags
<1> QED BY <1>5, <1>6, X86Updates, X86StoreOp

\* Setting or clearing CF and OF together keeps the machine.
LEMMA X86FlagsPair ==
  ASSUME NEW s \in X86Machine, NEW t \in X86Machine, NEW c
  PROVE  X86!PutFlags(t, IF c THEN s.flags \cup {"CF", "OF"} ELSE s.flags \ {"CF", "OF"}) \in X86Machine
<1>1. s.flags \cup {"CF", "OF"} \in SUBSET X86!EFlags /\ s.flags \ {"CF", "OF"} \in SUBSET X86!EFlags
  BY X86Set DEF X86!EFlags
<1> QED BY <1>1, X86Updates

\* Both halves of a product of words are words.
LEMMA WordProduct ==
  ASSUME NEW a \in Word, NEW b \in Word
  PROVE  (a * b) % M \in Word /\ (a * b) \div M \in Word
<1>1. M \in Nat /\ M >= 1 /\ a \in Nat /\ b \in Nat /\ a <= M - 1 /\ b <= M - 1
  BY WordType, WordArithmetic DEF Word
<1>2. (a * b) % M \in Word
  BY ProductType
<1> HIDE DEF M
<1>3. a * b \in Nat /\ a * b <= a * M
  BY <1>1
<1>4. a * M <= (M - 1) * M
  BY <1>1
<1>5. (M - 1) * M = M * M - M
  BY <1>1
<1> DEFINE p == a * b   q == M * M
<1>6. p \in Nat /\ p < q
  BY <1>1, <1>3, <1>4, <1>5
<1> HIDE DEF p
<1>7. p \div M \in 0 .. M - 1
  BY <1>1, <1>6, QuotientBelow
<1> QED BY <1>2, <1>7 DEF p, Word

\* MUL keeps the machine.
LEMMA X86Mul ==
  ASSUME NEW s \in X86Machine, NEW i, i.dest \in X86!Operand
  PROVE  X86!Mul(s, i) \in X86Machine
<1> DEFINE a == s.regs[X86!EAX]   b == X86!LoadOp(s, i.dest)   res == a * b
           t == X86!Put(X86!Put(s, X86!EAX, res % M), X86!EDX, res \div M)
<1>1. X86!Mul(s, i) = IF ~X86!Readable(s, i.dest) THEN X86!Fails(s, "fault")
        ELSE X86!PutFlags(t, IF res >= M THEN s.flags \cup {"CF", "OF"} ELSE s.flags \ {"CF", "OF"})
  BY X86Modulus DEF X86!Mul
<1>2. ASSUME X86!Readable(s, i.dest) PROVE t \in X86Machine
  <2>1. a \in Word /\ b \in Word
    BY <1>2, X86LoadOp, X86Set, X86Registers
  <2> HIDE DEF a, b
  <2>2. res % M \in Word /\ res \div M \in Word
    BY <2>1, WordProduct
  <2> HIDE DEF res
  <2>3. X86!Put(s, X86!EAX, res % M) \in X86Machine
    BY <2>2, X86Updates, X86Registers
  <2> QED BY <2>2, <2>3, X86Updates, X86Registers
<1> HIDE DEF t, res
<1> QED BY <1>1, <1>2, X86FlagsPair, X86Failures

\* IMUL keeps the machine.
LEMMA X86Imul ==
  ASSUME NEW s \in X86Machine, NEW i, i.dest \in X86!Operand, i.src \in X86!Operand
  PROVE  X86!Imul(s, i) \in X86Machine
<1> DEFINE a == X86!LoadOp(s, i.dest)   b == X86!LoadOp(s, i.src)
           res == Signed(a, M) * Signed(b, M)
           t == X86!StoreOp(s, i.dest, res % M)
<1>1. X86!Imul(s, i) =
        IF ~X86!Readable(s, i.dest) \/ ~X86!Readable(s, i.src) THEN X86!Fails(s, "fault")
        ELSE X86!PutFlags(t, IF res # Signed(res % M, M) THEN s.flags \cup {"CF", "OF"}
                             ELSE s.flags \ {"CF", "OF"})
  <2>1. X86!Signed(a, M) = Signed(a, M) /\ X86!Signed(b, M) = Signed(b, M)
        /\ X86!Signed(res % M, M) = Signed(res % M, M)
    BY X86Words
  <2> DEFINE r == X86!Signed(a, X86!M) * X86!Signed(b, X86!M)
  <2>2. X86!Imul(s, i) =
          IF ~X86!Readable(s, i.dest) \/ ~X86!Readable(s, i.src) THEN X86!Fails(s, "fault")
          ELSE X86!PutFlags(X86!StoreOp(s, i.dest, r % X86!M),
                            IF r # X86!Signed(r % X86!M, X86!M) THEN s.flags \cup {"CF", "OF"}
                            ELSE s.flags \ {"CF", "OF"})
    BY DEF X86!Imul
  <2>3. r = res
    BY <2>1, X86Modulus
  <2> HIDE DEF r, res
  <2> QED BY <2>1, <2>2, <2>3, X86Modulus
<1>2. ASSUME X86!Readable(s, i.dest), X86!Readable(s, i.src) PROVE t \in X86Machine
  <2>1. a \in Word /\ b \in Word
    BY <1>2, X86LoadOp
  <2> HIDE DEF a, b
  <2>2. res \in Int
    BY <2>1, ProductType
  <2> HIDE DEF res
  <2>3. res % M \in Word
    BY <2>2, WordType
  <2>4. res % M \in Int
    BY <2>3, WordArithmetic
  <2> QED BY <2>4, X86StoreOp
<1> HIDE DEF t, res
<1> DEFINE c == res # Signed(res % M, M)
<1> HIDE DEF c
<1>3. X86!Imul(s, i) =
        IF ~X86!Readable(s, i.dest) \/ ~X86!Readable(s, i.src) THEN X86!Fails(s, "fault")
        ELSE X86!PutFlags(t, IF c THEN s.flags \cup {"CF", "OF"} ELSE s.flags \ {"CF", "OF"})
  BY <1>1 DEF c
<1> QED BY <1>2, <1>3, X86FlagsPair, X86Failures

\* DIV keeps the machine, also when it divides by zero or overflows.
LEMMA X86Div ==
  ASSUME NEW s \in X86Machine, NEW i, i.dest \in X86!Operand
  PROVE  X86!Div(s, i) \in X86Machine
<1> DEFINE b == X86!LoadOp(s, i.dest)   lo == s.regs[X86!EAX]   hi == s.regs[X86!EDX]
           a == hi * M + lo
           t == X86!Put(X86!Put(s, X86!EAX, a \div b), X86!EDX, a % b)
<1>1. X86!Div(s, i) = IF ~X86!Readable(s, i.dest) THEN X86!Fails(s, "fault")
                      ELSE IF b = 0 \/ a \div b >= M THEN X86!Fails(s, "device") ELSE t
  BY X86Modulus DEF X86!Div
<1>2. ASSUME X86!Readable(s, i.dest), b # 0, ~(a \div b >= M) PROVE t \in X86Machine
  <2>1. b \in Word /\ lo \in Word /\ hi \in Word
    BY <1>2, X86LoadOp, X86Set, X86Registers
  <2>2. b \in Nat /\ lo \in Nat /\ hi \in Nat /\ M \in Nat /\ b <= M - 1
    BY <2>1, WordType DEF Word
  <2> HIDE DEF b, lo, hi, M
  <2>3. a \in Nat /\ b >= 1
    BY <1>2, <2>2
  <2> HIDE DEF a
  <2>4. a \div b \in Nat /\ a % b \in 0 .. b - 1
    BY <2>2, <2>3, DivisionOf
  <2>5. a \div b \in 0 .. M - 1 /\ a % b \in 0 .. M - 1
    BY <1>2, <2>2, <2>4
  <2>6. a \div b \in Word /\ a % b \in Word
    BY <2>5 DEF Word
  <2>7. X86!Put(s, X86!EAX, a \div b) \in X86Machine
    BY <2>6, X86Updates, X86Registers
  <2> QED BY <2>6, <2>7, X86Updates, X86Registers
<1> HIDE DEF t, a, b
<1> QED BY <1>1, <1>2, X86Failures

\* The shifts keep the machine.
LEMMA X86Shift ==
  ASSUME NEW s \in X86Machine, NEW i, i.dest \in X86!Operand,
         i.count \in X86!RegOperand \cup X86!ImmOperand, i.op \in {"Shl", "Shr", "Sar"}
  PROVE  X86!Shift(s, i) \in X86Machine
<1> DEFINE v == X86!LoadOp(s, i.dest)   n == i.dest.size   c == X86!ShiftCount(s, i.count)
           res == CASE i.op = "Shl" -> X86!ShiftedLeft(v, c)
                    [] i.op = "Shr" -> X86!ShiftedRight(v, c)
                    [] i.op = "Sar" -> X86!ArithmeticRight(X86!SignExtended(v, n), c)
           out == IF i.op = "Shl" THEN n * ByteBits - c ELSE c - 1
           t == X86!StoreLogic(s, i.dest, res)
           u == X86!PutFlags(t, X86!SetFlag(t.flags, "CF", X86!Bit(v, out)))
<1>1. X86!Shift(s, i) = IF ~X86!Readable(s, i.dest) THEN X86!Fails(s, "fault")
                        ELSE IF c = 0 THEN s
                        ELSE IF t.err # "ok" THEN t
                        ELSE IF out < 0 THEN X86!Fails(t, "panic") ELSE u
  BY DEF X86!Shift
<1>2. c \in Nat
  <2> DEFINE o == i.count   x == IF o.kind = "imm" THEN o.val ELSE s.regs[o.reg]
  <2>1. o \in X86!Operand /\ o.kind # "mem"
    BY DEF X86!Operand, X86!RegOperand, X86!ImmOperand
  <2>2. x \in Int
    <3>1. ASSUME o.kind = "reg" PROVE s.regs[o.reg] \in Int
      BY <2>1, <3>1, X86Operands, X86Set, WordArithmetic
    <3> QED BY <2>1, <3>1, X86Operands
  <2>3. c = x % Width
    BY X86Modulus DEF X86!ShiftCount
  <2>4. Width \in Nat /\ Width >= 1
    BY Spans
  <2> HIDE DEF x, Width, c
  <2> QED BY <2>2, <2>3, <2>4, Remainder
<1> HIDE DEF c
<1>3. ASSUME X86!Readable(s, i.dest) PROVE t \in X86Machine
  <2>1. v \in Word /\ v \in Int /\ n \in {1, 2, 4}
    BY <1>3, X86LoadOp, X86Operands
  <2> HIDE DEF v, n
  <2>2. ShiftedLeft(v, c) \in Word /\ ShiftedRight(v, c) \in Word
    BY <1>2, <2>1, ShiftType
  <2>3. SignExtended(v, n) \in Word
    BY <2>1, NarrowType
  <2>4. ArithmeticRight(SignExtended(v, n), c) \in Word
    BY <1>2, <2>3, ShiftType
  <2>5. res \in {ShiftedLeft(v, c), ShiftedRight(v, c), ArithmeticRight(SignExtended(v, n), c)}
    <3>1. X86!ShiftedLeft(v, c) = ShiftedLeft(v, c) /\ X86!ShiftedRight(v, c) = ShiftedRight(v, c)
          /\ X86!ArithmeticRight(X86!SignExtended(v, n), c) = ArithmeticRight(SignExtended(v, n), c)
      BY X86Words
    <3> QED BY <3>1
  <2> HIDE DEF res
  <2>6. res \in Word
    BY <2>2, <2>4, <2>5
  <2>7. res \in Int
    BY <2>6, WordArithmetic
  <2> QED BY <2>7, X86StoreLogic
<1> HIDE DEF t, out, res, v
<1>4. ASSUME t \in X86Machine PROVE u \in X86Machine /\ X86!Fails(t, "panic") \in X86Machine
  <2>1. "CF" \in X86!EFlags
    BY DEF X86!EFlags
  <2>2. t.flags \in SUBSET X86!EFlags
    BY <1>4, X86Set
  <2>3. \A on : X86!SetFlag(t.flags, "CF", on) \in SUBSET X86!EFlags
    BY <2>1, <2>2, X86FlagSets
  <2> QED BY <1>4, <2>3, X86Updates, X86Failures
<1> HIDE DEF u
<1> QED BY <1>1, <1>3, <1>4, X86Failures

\* MOVZX and MOVSX keep the machine.
LEMMA X86Extend ==
  ASSUME NEW s \in X86Machine, NEW i, i.dest \in X86!Operand, i.src \in X86!Operand
  PROVE  X86!Extend(s, i) \in X86Machine
<1> DEFINE v == X86!LoadOp(s, i.src)   w == IF i.op = "Movzx8" THEN v ELSE X86!SignExtended(v, 1)
<1>1. X86!Extend(s, i) = IF ~X86!Readable(s, i.src) THEN X86!Fails(s, "fault")
                         ELSE X86!StoreOp(s, i.dest, w)
  BY DEF X86!Extend
<1>2. ASSUME X86!Readable(s, i.src) PROVE w \in Int
  <2>1. v \in Int
    BY <1>2, X86LoadOp
  <2> HIDE DEF v
  <2>2. SignExtended(v, 1) \in Word
    BY <2>1, NarrowType
  <2>3. SignExtended(v, 1) \in Int
    BY <2>2, WordArithmetic
  <2>4. X86!SignExtended(v, 1) = SignExtended(v, 1)
    BY X86Words
  <2> QED BY <2>1, <2>3, <2>4
<1> HIDE DEF w
<1> QED BY <1>1, <1>2, X86StoreOp, X86Failures

\* CBW and CWD, at each of their sizes, keep the machine.
LEMMA X86Convert ==
  ASSUME NEW s \in X86Machine, NEW i, i.size \in {1, 2, 4}
  PROVE  X86!Convert(s, i) \in X86Machine
<1> DEFINE n == i.size   half == n \div 2   a == s.regs[X86!EAX]   d == s.regs[X86!EDX]
           low == X86!SignExtended(a, half)
           high == IF X86!Negative(a % X86!Span(n), X86!Span(n)) THEN X86!Span(n) - 1 ELSE 0
<1>1. a \in Word /\ d \in Word /\ a \in Int
  BY X86Set, X86Registers, WordArithmetic
<1>2. X86!Convert(s, i) = IF i.op = "Cbw" THEN X86!Put(s, X86!EAX, X86!WithLow(a, n, low))
                          ELSE X86!Put(s, X86!EDX, X86!WithLow(d, n, high))
  BY DEF X86!Convert
<1>3. low \in Int
  <2> DEFINE q == Span(half)
  <2>1. half \in Nat
    OBVIOUS
  <2>2. q \in Nat /\ q >= 1
    BY <2>1, Spans
  <2>3. low = SignExtended(a, half)
    BY X86Words
  <2> HIDE DEF a, q, half
  <2>4. a % q \in Int
    BY <1>1, <2>2, Remainder
  <2>5. Signed(a % q, q) \in Int
    BY <2>2, <2>4, SignedType
  <2>6. Signed(a % q, q) % M \in Word
    BY <2>5, WordType
  <2>7. low \in Word
    BY <2>3, <2>6 DEF SignExtended, q
  <2> QED BY <2>7, WordArithmetic
<1>4. high \in Int
  <2>1. X86!Span(n) \in Int
    BY X86Modulus, SpanDivides
  <2> HIDE DEF n, a
  <2> QED BY <2>1
<1> HIDE DEF low, high, a, d
<1>5. X86!WithLow(a, n, low) \in Word /\ X86!WithLow(d, n, high) \in Word
  BY <1>1, <1>3, <1>4, WithLowType
<1> QED BY <1>2, <1>5, X86Updates, X86Registers

-----------------------------------------------------------------------------
(* The stack and control flow                                              *)

\* What is loaded is a word.
LEMMA X86Loads ==
  ASSUME NEW s \in X86Machine, NEW a \in Word, NEW n \in {1, 2, 4}, X86!Reachable(s, a, n)
  PROVE  X86!Loaded(s, a, n) \in Word /\ X86!Loaded(s, a, n) \in Int
<1>1. Reachable(s, a, n) /\ X86!Loaded(s, a, n) = Loaded(s, a, n)
  BY X86Memory
<1>2. Loaded(s, a, n) \in Word
  BY <1>1, X86Set, LoadedType
<1> QED BY <1>1, <1>2, WordArithmetic

\* Moving the stack pointer keeps the machine.
LEMMA X86StackMoves ==
  ASSUME NEW s \in X86Machine, NEW n \in Int
  PROVE  X86!Down(s, n) \in X86Machine /\ X86!Up(s, n) \in X86Machine
<1> DEFINE e == s.regs[X86!ESP]
<1>1. e \in Word
  BY X86Set, X86Registers
<1>2. (e - n) % M \in Word /\ (e + n) % M \in Word
  BY <1>1, WordArithmetic
<1>3. X86!Down(s, n) = X86!Put(s, X86!ESP, (e - n) % M) /\ X86!Up(s, n) = X86!Put(s, X86!ESP, (e + n) % M)
  BY X86Modulus DEF X86!Down, X86!Up
<1> HIDE DEF e
<1> QED BY <1>2, <1>3, X86Updates, X86Registers

\* PUSH keeps the machine.
LEMMA X86Push ==
  ASSUME NEW s \in X86Machine, NEW i, i.dest \in X86!Operand
  PROVE  X86!Push(s, i) \in X86Machine
<1> DEFINE n == X86!StackSize(i.dest)   t == X86!Down(s, n)   v == X86!LoadOp(s, i.dest)
<1>1. n \in Nat /\ n \in Int
  BY DEF X86!StackSize
<1>2. t \in X86Machine
  BY <1>1, X86StackMoves
<1>3. X86!Push(s, i) = IF ~X86!Readable(s, i.dest) THEN X86!Fails(s, "fault")
                       ELSE X86!Stored(t, t.regs[X86!ESP], n, v)
  BY DEF X86!Push
<1>4. X86!Readable(s, i.dest) => v \in Int
  BY X86LoadOp
<1> HIDE DEF n, t, v
<1> QED BY <1>1, <1>2, <1>3, <1>4, X86Stored, X86Failures

\* POP keeps the machine.
LEMMA X86Pop ==
  ASSUME NEW s \in X86Machine, NEW i, i.dest \in X86!Operand
  PROVE  X86!Pop(s, i) \in X86Machine
<1> DEFINE n == X86!StackSize(i.dest)   t == X86!Up(s, n)   e == s.regs[X86!ESP]
           v == X86!Loaded(s, e, n)
<1>1. n \in {1, 2, 4} /\ n \in Int
  BY DEF X86!StackSize
<1>2. t \in X86Machine
  BY <1>1, X86StackMoves
<1>3. X86!Pop(s, i) = IF ~X86!Reachable(s, e, n) THEN X86!Fails(s, "fault")
                      ELSE X86!StoreOp(t, i.dest, v)
  BY DEF X86!Pop
<1>4. e \in Word
  BY X86Set, X86Registers
<1>5. X86!Reachable(s, e, n) => v \in Int
  BY <1>1, <1>4, X86Loads
<1> HIDE DEF n, t, v
<1> QED BY <1>2, <1>3, <1>5, X86StoreOp, X86Failures

\* A relative jump keeps the machine.
LEMMA X86Jump ==
  ASSUME NEW s \in X86Machine, NEW rel \in X86!Rel
  PROVE  X86!Jump(s, rel) \in X86Machine
<1>1. s.pc \in Word /\ rel \in Int
  BY X86Set, X86Relatives
<1>2. (s.pc + rel) % M \in Word
  BY <1>1, WordArithmetic
<1>3. X86!Jump(s, rel) = [s EXCEPT !.pc = (s.pc + rel) % M]
  BY X86Modulus DEF X86!Jump
<1> QED BY <1>2, <1>3, X86Updates

\* CALL keeps the machine.
LEMMA X86Call ==
  ASSUME NEW s \in X86Machine, NEW i, i.rel \in X86!Rel
  PROVE  X86!Call(s, i) \in X86Machine
<1> DEFINE t == X86!Down(s, 4)   u == X86!Stored(t, t.regs[X86!ESP], 4, s.pc)
<1>1. t \in X86Machine
  BY X86StackMoves
<1>2. s.pc \in Int
  BY X86Set, WordArithmetic
<1> HIDE DEF t
<1>3. u \in X86Machine
  BY <1>1, <1>2, X86Stored
<1>4. X86!Call(s, i) = IF u.err = "ok" THEN X86!Jump(u, i.rel) ELSE u
  BY DEF X86!Call, t
<1> HIDE DEF u
<1> QED BY <1>3, <1>4, X86Jump

\* RET keeps the machine.
LEMMA X86Ret ==
  ASSUME NEW s \in X86Machine
  PROVE  X86!Ret(s) \in X86Machine
<1> DEFINE t == X86!Up(s, 4)   e == s.regs[X86!ESP]   v == X86!Loaded(s, e, 4)
<1>1. t \in X86Machine
  BY X86StackMoves
<1>2. e \in Word
  BY X86Set, X86Registers
<1>3. X86!Reachable(s, e, 4) => v \in Word
  BY <1>2, X86Loads
<1>4. X86!Ret(s) = IF ~X86!Reachable(s, e, 4) THEN X86!Fails(s, "fault") ELSE [t EXCEPT !.pc = v]
  BY DEF X86!Ret
<1> HIDE DEF t, v
<1> QED BY <1>1, <1>3, <1>4, X86Updates, X86Failures

\* LEAVE keeps the machine.
LEMMA X86Leave ==
  ASSUME NEW s \in X86Machine
  PROVE  X86!Leave(s) \in X86Machine
<1> DEFINE t == X86!Put(s, X86!ESP, s.regs[X86!EBP])   e == t.regs[X86!ESP]
           v == X86!Loaded(t, e, 4)   u == X86!Put(t, X86!EBP, v)
<1>1. s.regs[X86!EBP] \in Word
  BY X86Set, X86Registers
<1>2. t \in X86Machine
  BY <1>1, X86Updates, X86Registers
<1>3. X86!Leave(s) = IF ~X86!Reachable(t, e, 4) THEN X86!Fails(t, "fault") ELSE X86!Up(u, 4)
  BY DEF X86!Leave
<1> HIDE DEF t
<1>4. e \in Word
  BY <1>2, X86Set, X86Registers
<1> HIDE DEF e
<1>5. X86!Reachable(t, e, 4) => v \in Word
  BY <1>2, <1>4, X86Loads
<1> HIDE DEF v
<1>6. X86!Reachable(t, e, 4) => u \in X86Machine
  BY <1>2, <1>5, X86Updates, X86Registers
<1> HIDE DEF u
<1>7. X86!Reachable(t, e, 4) => X86!Up(u, 4) \in X86Machine
  BY <1>6, X86StackMoves
<1> QED BY <1>2, <1>3, <1>7, X86Failures

\* Counting ECX down keeps the machine.
LEMMA X86CountDown ==
  ASSUME NEW s \in X86Machine
  PROVE  X86!Put(s, X86!ECX, (s.regs[X86!ECX] - 1) % X86!M) \in X86Machine
<1>1. s.regs[X86!ECX] \in Word
  BY X86Set, X86Registers
<1>2. (s.regs[X86!ECX] - 1) % M \in Word
  BY <1>1, WordArithmetic
<1> QED BY <1>2, X86Modulus, X86Updates, X86Registers

\* The LOOP instructions and JECXZ keep the machine.
LEMMA X86Loop ==
  ASSUME NEW s \in X86Machine, NEW i, i.rel \in X86!Rel
  PROVE  X86!Loop(s, i) \in X86Machine
<1> DEFINE t == X86!Put(s, X86!ECX, (s.regs[X86!ECX] - 1) % X86!M)
<1>1. t \in X86Machine
  BY X86CountDown
<1>2. X86!Loop(s, i) \in {s, t, X86!Jump(s, i.rel), X86!Jump(t, i.rel)}
  BY DEF X86!Loop
<1> HIDE DEF t
<1> QED BY <1>1, <1>2, X86Jump

\* The stack and control flow instructions keep the machine.
LEMMA X86Flow ==
  ASSUME NEW s \in X86Machine, NEW i,
         i.op \in {"Push", "Pop"} => i.dest \in X86!Operand,
         i.op \in {"Call", "Jmp", "Jcc", "Loop", "Loope", "Loopne", "Jecxz"} => i.rel \in X86!Rel,
         i.op \in {"Push", "Pop", "Call", "Ret", "Leave", "Jmp", "Jcc",
                   "Loop", "Loope", "Loopne", "Jecxz"}
  PROVE  X86!Flow(s, i) \in X86Machine
<1>1. CASE i.op = "Push"
  BY <1>1, X86Push DEF X86!Flow
<1>2. CASE i.op = "Pop"
  BY <1>2, X86Pop DEF X86!Flow
<1>3. CASE i.op = "Call"
  BY <1>3, X86Call DEF X86!Flow
<1>4. CASE i.op = "Ret"
  BY <1>4, X86Ret DEF X86!Flow
<1>5. CASE i.op = "Leave"
  BY <1>5, X86Leave DEF X86!Flow
<1>6. CASE i.op = "Jmp"
  BY <1>6, X86Jump DEF X86!Flow
<1>7. CASE i.op = "Jcc"
  BY <1>7, X86Jump DEF X86!Flow
<1>8. CASE i.op \in {"Loop", "Loope", "Loopne", "Jecxz"}
  BY <1>8, X86Loop DEF X86!Flow
<1> QED BY <1>1, <1>2, <1>3, <1>4, <1>5, <1>6, <1>7, <1>8

-----------------------------------------------------------------------------
(* String operations                                                       *)

\* Moving the string pointers keeps the machine.
LEMMA X86Advanced ==
  ASSUME NEW s \in X86Machine, NEW R, NEW n \in {1, 2, 4}
  PROVE  X86!Advanced(s, R, n) \in X86Machine
<1> DEFINE k == X86!StringStep(s, n)
           g == [r \in X86!GpReg |-> IF r \in R THEN (s.regs[r] + k) % X86!M ELSE s.regs[r]]
<1>1. k \in Int
  BY DEF X86!StringStep
<1>2. \A r \in X86!GpReg : s.regs[r] \in Word /\ (s.regs[r] + k) % X86!M \in Word
  BY <1>1, X86Set, X86Modulus, WordArithmetic
<1>3. X86!Advanced(s, R, n) = [s EXCEPT !.regs = g]
  BY DEF X86!Advanced
<1>4. g \in [X86!GpReg -> Word]
  <2> HIDE DEF k
  <2> QED BY <1>2
<1> HIDE DEF g
<1> QED BY <1>3, <1>4, X86Updates

\* The registers that string operations use.
LEMMA X86Pointers ==
  ASSUME NEW s \in X86Machine
  PROVE  /\ s.regs[X86!ESI] \in Word /\ s.regs[X86!EDI] \in Word
         /\ s.regs[X86!EAX] \in Word /\ s.regs[X86!EAX] \in Int
BY X86Set, X86Registers, WordArithmetic

\* LODS keeps the machine.
LEMMA X86Lods ==
  ASSUME NEW s \in X86Machine, NEW n \in {1, 2, 4}
  PROVE  X86!Lods(s, n) \in X86Machine
<1> DEFINE a == s.regs[X86!ESI]   v == X86!Loaded(s, a, n)   t == X86!Advanced(s, {X86!ESI}, n)
           w == X86!WithLow(s.regs[X86!EAX], n, v)
<1>1. X86!Lods(s, n) = IF ~X86!Reachable(s, a, n) THEN X86!Fails(s, "fault")
                       ELSE X86!Put(t, X86!EAX, w)
  BY DEF X86!Lods
<1>2. t \in X86Machine
  BY X86Advanced
<1>3. X86!Reachable(s, a, n) => w \in Word
  <2>1. X86!Reachable(s, a, n) => v \in Int
    BY X86Pointers, X86Loads
  <2> HIDE DEF v
  <2> QED BY <2>1, X86Pointers, WithLowType
<1> HIDE DEF t, w
<1>4. X86!EAX \in X86!GpReg /\ X86!Fails(s, "fault") \in X86Machine
  BY X86Registers, X86Failures
<1>5. X86!Reachable(s, a, n) => X86!Put(t, X86!EAX, w) \in X86Machine
  BY <1>2, <1>3, <1>4, X86Updates
<1> QED BY <1>1, <1>4, <1>5

\* STOS keeps the machine.
LEMMA X86Stos ==
  ASSUME NEW s \in X86Machine, NEW n \in {1, 2, 4}
  PROVE  X86!Stos(s, n) \in X86Machine
<1> DEFINE v == s.regs[X86!EAX] % X86!Span(n)   t == X86!Stored(s, s.regs[X86!EDI], n, v)
<1>1. v \in Int /\ n \in Nat
  <2>1. s.regs[X86!EAX] % Span(n) \in Word
    BY X86Pointers, NarrowType
  <2>2. s.regs[X86!EAX] % Span(n) \in Int
    BY <2>1, WordArithmetic
  <2>3. X86!Span(n) = Span(n)
    BY X86Modulus
  <2>4. n \in Nat
    OBVIOUS
  <2> QED BY <2>2, <2>3, <2>4
<1> HIDE DEF v
<1>2. t \in X86Machine
  BY <1>1, X86Stored
<1>3. X86!Stos(s, n) = IF t.err = "ok" THEN X86!Advanced(t, {X86!EDI}, n) ELSE t
  BY DEF X86!Stos, v
<1> HIDE DEF t
<1> QED BY <1>2, <1>3, X86Advanced

\* MOVS keeps the machine.
LEMMA X86Movs ==
  ASSUME NEW s \in X86Machine, NEW n \in {1, 2, 4}
  PROVE  X86!Movs(s, n) \in X86Machine
<1> DEFINE a == s.regs[X86!ESI]   v == X86!Loaded(s, a, n)
           t == X86!Stored(s, s.regs[X86!EDI], n, v)
<1>1. X86!Movs(s, n) = IF ~X86!Reachable(s, a, n) THEN X86!Fails(s, "fault")
                       ELSE IF t.err = "ok" THEN X86!Advanced(t, {X86!ESI, X86!EDI}, n) ELSE t
  BY DEF X86!Movs
<1>2. X86!Reachable(s, a, n) => v \in Int
  BY X86Pointers, X86Loads
<1> HIDE DEF v
<1>3. X86!Reachable(s, a, n) => t \in X86Machine
  BY <1>2, X86Stored
<1> HIDE DEF t
<1> QED BY <1>1, <1>3, X86Advanced, X86Failures

\* Comparing and moving on keeps the machine.
LEMMA X86Compared ==
  ASSUME NEW s \in X86Machine, NEW n \in {1, 2, 4}, NEW x \in Int, NEW y \in Int, NEW R
  PROVE  X86!Advanced(X86!PutFlags(s, X86!DoSub(s.flags, x, y, FALSE, n).flags), R, n) \in X86Machine
<1>1. X86!DoSub(s.flags, x, y, FALSE, n).flags \in SUBSET X86!EFlags
  BY X86Set, X86Adders
<1>2. X86!PutFlags(s, X86!DoSub(s.flags, x, y, FALSE, n).flags) \in X86Machine
  BY <1>1, X86Updates
<1> QED BY <1>2, X86Advanced

\* SCAS keeps the machine.
LEMMA X86Scas ==
  ASSUME NEW s \in X86Machine, NEW n \in {1, 2, 4}
  PROVE  X86!Scas(s, n) \in X86Machine
<1>1. X86!Reachable(s, s.regs[X86!EDI], n) => X86!Loaded(s, s.regs[X86!EDI], n) \in Int
  BY X86Pointers, X86Loads
<1> QED BY <1>1, X86Pointers, X86Compared, X86Failures DEF X86!Scas

\* CMPS keeps the machine.
LEMMA X86Cmps ==
  ASSUME NEW s \in X86Machine, NEW n \in {1, 2, 4}
  PROVE  X86!Cmps(s, n) \in X86Machine
<1>1. X86!Reachable(s, s.regs[X86!EDI], n) => X86!Loaded(s, s.regs[X86!EDI], n) \in Int
  BY X86Pointers, X86Loads
<1>2. X86!Reachable(s, s.regs[X86!ESI], n) => X86!Loaded(s, s.regs[X86!ESI], n) \in Int
  BY X86Pointers, X86Loads
<1> QED BY <1>1, <1>2, X86Compared, X86Failures DEF X86!Cmps

\* A round of a string operation keeps the machine.
LEMMA X86StringOp ==
  ASSUME NEW s \in X86Machine, NEW i, i.size \in {1, 2, 4},
         i.op \in {"Lods", "Stos", "Movs", "Scas", "Cmps"}
  PROVE  X86!StringOp(s, i) \in X86Machine
<1>1. X86!StringOp(s, i) \in {X86!Lods(s, i.size), X86!Stos(s, i.size), X86!Movs(s, i.size),
                              X86!Scas(s, i.size), X86!Cmps(s, i.size)}
  BY DEF X86!StringOp
<1> QED BY <1>1, X86Lods, X86Stos, X86Movs, X86Scas, X86Cmps

-----------------------------------------------------------------------------
(* A repeated string operation: its rounds are defined by recursion.       *)

\* The first n + 1 iterates of F from x.
Iterates(R, x, F, n) ==
  {f \in [0 .. n -> R] : f[0] = x /\ \A k \in 1 .. n : f[k] = F[f[k - 1]]}

\* Iterates of different lengths agree where both are defined.
LEMMA IteratesAgree ==
  ASSUME NEW R, NEW x \in R, NEW F \in [R -> R]
  PROVE  \A k \in Nat : \A n, m \in Nat : k <= n /\ k <= m =>
            \A f \in Iterates(R, x, F, n), g \in Iterates(R, x, F, m) : f[k] = g[k]
<1> DEFINE Agree(k) == \A n, m \in Nat : k <= n /\ k <= m =>
                          \A f \in Iterates(R, x, F, n), g \in Iterates(R, x, F, m) : f[k] = g[k]
           S == {k \in Nat : Agree(k)}
<1>1. 0 \in S
  BY DEF Iterates
<1>2. ASSUME NEW k \in Nat, k \in S PROVE k + 1 \in S
  <2> SUFFICES ASSUME NEW n \in Nat, NEW m \in Nat, k + 1 <= n, k + 1 <= m,
                      NEW f \in Iterates(R, x, F, n), NEW g \in Iterates(R, x, F, m)
               PROVE  f[k + 1] = g[k + 1]
    OBVIOUS
  <2>1. f[k] = g[k]
    BY <1>2
  <2>2. f[k + 1] = F[f[(k + 1) - 1]] /\ g[k + 1] = F[g[(k + 1) - 1]]
    BY DEF Iterates
  <2>3. (k + 1) - 1 = k
    OBVIOUS
  <2> QED BY <2>1, <2>2, <2>3
<1> HIDE DEF S
<1>3. Nat \subseteq S
  BY <1>1, <1>2, SetInduction
<1> QED BY <1>3 DEF S

\* There are iterates of every length.
LEMMA IteratesExist ==
  ASSUME NEW R, NEW x \in R, NEW F \in [R -> R]
  PROVE  \A n \in Nat : Iterates(R, x, F, n) # {}
<1> DEFINE S == {n \in Nat : Iterates(R, x, F, n) # {}}
<1>1. 0 \in S
  <2>1. [k \in 0 .. 0 |-> x] \in Iterates(R, x, F, 0)
    BY DEF Iterates
  <2> QED BY <2>1
<1>2. ASSUME NEW n \in Nat, n \in S PROVE n + 1 \in S
  <2>1. PICK f : f \in Iterates(R, x, F, n)
    BY <1>2
  <2>2. f \in [0 .. n -> R] /\ f[0] = x /\ \A k \in 1 .. n : f[k] = F[f[k - 1]]
    BY <2>1 DEF Iterates
  <2> DEFINE g == [k \in 0 .. n + 1 |-> IF k = n + 1 THEN F[f[n]] ELSE f[k]]
  <2>3. F[f[n]] \in R
    BY <2>2
  <2>4. g \in [0 .. n + 1 -> R]
    BY <2>2, <2>3
  <2>5. g[0] = x
    BY <2>2
  <2>6. \A k \in 1 .. n + 1 : g[k] = F[g[k - 1]]
    <3> SUFFICES ASSUME NEW k \in 1 .. n + 1 PROVE g[k] = F[g[k - 1]]
      OBVIOUS
    <3>1. CASE k = n + 1
      <4>1. g[k] = F[f[n]] /\ g[k - 1] = f[n]
        BY <3>1
      <4> QED BY <4>1
    <3>2. CASE k # n + 1
      <4>1. k \in 1 .. n
        BY <3>2
      <4>2. g[k] = f[k] /\ g[k - 1] = f[k - 1]
        BY <4>1
      <4> QED BY <2>2, <4>1, <4>2
    <3> QED BY <3>1, <3>2
  <2>7. g \in Iterates(R, x, F, n + 1)
    <3> HIDE DEF g
    <3> QED BY <2>4, <2>5, <2>6 DEF Iterates
  <2> QED BY <2>7
<1> HIDE DEF S
<1>3. Nat \subseteq S
  BY <1>1, <1>2, SetInduction
<1> QED BY <1>3 DEF S

\* A function defined by recursion on the naturals exists.
LEMMA RecursionExists ==
  ASSUME NEW R, NEW x \in R, NEW F \in [R -> R]
  PROVE  \E f \in [Nat -> R] : \A k \in Nat : f[k] = IF k = 0 THEN x ELSE F[f[k - 1]]
<1> DEFINE It(n) == Iterates(R, x, F, n)
           f == [k \in Nat |-> (CHOOSE g \in It(k) : TRUE)[k]]
<1>1. \A k \in Nat : (CHOOSE g \in It(k) : TRUE) \in It(k)
  BY IteratesExist
<1>2. f \in [Nat -> R]
  <2>1. ASSUME NEW k \in Nat PROVE (CHOOSE g \in It(k) : TRUE)[k] \in R
    <3>1. (CHOOSE g \in It(k) : TRUE) \in [0 .. k -> R]
      BY <1>1 DEF Iterates
    <3> QED BY <3>1
  <2> QED BY <2>1
<1>3. ASSUME NEW k \in Nat PROVE f[k] = IF k = 0 THEN x ELSE F[f[k - 1]]
  <2> DEFINE g == CHOOSE g \in It(k) : TRUE
  <2>1. g \in It(k) /\ f[k] = g[k]
    BY <1>1
  <2> HIDE DEF g
  <2>2. CASE k = 0
    BY <2>1, <2>2 DEF Iterates
  <2>3. CASE k # 0
    <3> DEFINE j == k - 1   h == CHOOSE h \in It(j) : TRUE
    <3>1. j \in Nat /\ j <= k /\ j <= j /\ k \in 1 .. k
      BY <2>3
    <3> HIDE DEF j
    <3>2. h \in It(j) /\ f[j] = h[j]
      BY <1>1, <3>1
    <3> HIDE DEF h
    <3>3. h[j] = g[j]
      BY <2>1, <3>1, <3>2, IteratesAgree
    <3>4. g[k] = F[g[k - 1]]
      BY <2>1, <3>1 DEF Iterates
    <3> HIDE DEF f, It
    <3> QED BY <2>1, <2>3, <3>2, <3>3, <3>4 DEF j
  <2> QED BY <2>2, <2>3
<1> HIDE DEF f
<1> QED BY <1>2, <1>3

\* A machine, and whether the string operation goes on.
X86Rounds == [m : X86Machine, on : BOOLEAN]

\* A round, and what it says of going on.
LEMMA X86Round ==
  ASSUME NEW r \in X86Rounds, NEW i, i.size \in {1, 2, 4},
         i.op \in {"Lods", "Stos", "Movs", "Scas", "Cmps"}
  PROVE  X86!Round(r, i) \in X86Rounds
<1> DEFINE t == X86!StringOp(r.m, i)   u == X86!Put(t, X86!ECX, (t.regs[X86!ECX] - 1) % X86!M)
<1>1. t \in X86Machine
  BY X86StringOp DEF X86Rounds
<1>2. X86!Round(r, i) = IF ~r.on THEN r
                        ELSE IF t.err # "ok" THEN [m |-> t, on |-> FALSE]
                        ELSE [m |-> u, on |-> ~X86!RepEnds(u, i)]
  BY DEF X86!Round
<1> HIDE DEF t
<1>3. u \in X86Machine
  BY <1>1, X86CountDown
<1> HIDE DEF u
<1>4. X86!RepEnds(u, i) \in BOOLEAN
  BY DEF X86!RepEnds
<1>5. [m |-> t, on |-> FALSE] \in X86Rounds
  BY <1>1 DEF X86Rounds
<1>6. [m |-> u, on |-> ~X86!RepEnds(u, i)] \in X86Rounds
  BY <1>3, <1>4 DEF X86Rounds
<1> QED BY <1>2, <1>5, <1>6

\* A repeated string operation keeps the machine, however many rounds it has.
LEMMA X86Repeated ==
  ASSUME NEW s \in X86Machine, NEW i, i.size \in {1, 2, 4},
         i.op \in {"Lods", "Stos", "Movs", "Scas", "Cmps"}
  PROVE  X86!Repeated(s, i) \in X86Machine
<1> DEFINE x == [m |-> s, on |-> TRUE]
           F == [r \in X86Rounds |-> X86!Round(r, i)]
           Eq(f) == f = [k \in Nat |-> IF k = 0 THEN x ELSE X86!Round(f[k - 1], i)]
           round == CHOOSE f : Eq(f)
<1>1. X86!Repeated(s, i) = round[s.regs[X86!ECX]].m
  BY DEF X86!Repeated
<1>2. F \in [X86Rounds -> X86Rounds]
  BY X86Round
<1>3. x \in X86Rounds
  BY DEF X86Rounds
<1>4. \E f : Eq(f)
  <2>1. PICK f \in [Nat -> X86Rounds] : \A k \in Nat : f[k] = IF k = 0 THEN x ELSE F[f[k - 1]]
    <3> HIDE DEF F, x
    <3> QED BY <1>2, <1>3, RecursionExists
  <2>2. ASSUME NEW k \in Nat PROVE f[k] = IF k = 0 THEN x ELSE X86!Round(f[k - 1], i)
    <3>1. CASE k = 0
      BY <2>1, <3>1
    <3>2. CASE k # 0
      <4>1. k - 1 \in Nat
        BY <3>2
      <4>2. f[k - 1] \in X86Rounds
        BY <2>1, <4>1
      <4>3. F[f[k - 1]] = X86!Round(f[k - 1], i)
        BY <4>2
      <4> HIDE DEF F
      <4> QED BY <2>1, <3>2, <4>3
    <3> QED BY <3>1, <3>2
  <2> HIDE DEF x
  <2>3. f = [k \in Nat |-> IF k = 0 THEN x ELSE X86!Round(f[k - 1], i)]
    BY <2>1, <2>2
  <2> QED BY <2>3
<1>5. Eq(round)
  BY <1>4
<1> HIDE DEF round
<1>6. \A k \in Nat : round[k] = IF k = 0 THEN x ELSE X86!Round(round[k - 1], i)
  <2> HIDE DEF x
  <2> QED BY <1>5
<1> DEFINE S == {k \in Nat : round[k] \in X86Rounds}
<1>7. 0 \in S
  BY <1>3, <1>6
<1>8. ASSUME NEW k \in Nat, k \in S PROVE k + 1 \in S
  <2>1. k + 1 \in Nat /\ k + 1 # 0 /\ (k + 1) - 1 = k
    OBVIOUS
  <2>2. round[k + 1] = X86!Round(round[k], i)
    <3> HIDE DEF x
    <3> QED BY <1>6, <2>1
  <2>3. round[k] \in X86Rounds
    BY <1>8
  <2> QED BY <2>1, <2>2, <2>3, X86Round
<1> HIDE DEF S
<1>9. Nat \subseteq S
  BY <1>7, <1>8, SetInduction
<1>10. s.regs[X86!ECX] \in Nat
  BY X86Set, X86Registers, WordArithmetic
<1>11. round[s.regs[X86!ECX]] \in X86Rounds
  BY <1>9, <1>10 DEF S
<1> QED BY <1>1, <1>11 DEF X86Rounds

-----------------------------------------------------------------------------
(* Every instruction keeps the machine                                     *)

\* Ports, system calls and the other instructions keep the machine.
LEMMA X86System ==
  ASSUME NEW s \in X86Machine, NEW i,
         i.op \in {"Syscall", "Sysret", "Sysenter", "Sysexit", "In", "Out", "Ins", "Outs",
                   "Int", "Cld", "Std", "Nop", "Hlt", "Unknown"}
  PROVE  X86!System(s, i) \in X86Machine
<1>1. X86!System(s, i)
        \in {s, X86!Fails(s, "not_implemented"), X86!Fails(s, "breakpoint"), X86!Fails(s, "invalid"),
             X86!PutFlags(s, s.flags \ {"DF"}), X86!PutFlags(s, s.flags \cup {"DF"})}
  BY DEF X86!System
<1>2. s.flags \ {"DF"} \in SUBSET X86!EFlags /\ s.flags \cup {"DF"} \in SUBSET X86!EFlags
  BY X86Set DEF X86!EFlags
<1>3. X86!PutFlags(s, s.flags \ {"DF"}) \in X86Machine
      /\ X86!PutFlags(s, s.flags \cup {"DF"}) \in X86Machine
  BY <1>2, X86Updates
<1> QED BY <1>1, <1>3, X86Failures

\* What an instruction's name says of its fields.
LEMMA X86Variants ==
  ASSUME NEW i \in X86!Instr
  PROVE  /\ i.op \in {"Add", "Or", "Adc", "Sbb", "And", "Sub", "Xor", "Cmp",
                      "Mov", "Test", "Movzx8", "Movsx8", "Imul"}
              => i.dest \in X86!Operand /\ i.src \in X86!Operand
         /\ i.op \in {"Push", "Pop", "Inc", "Dec", "Neg", "Not", "Mul", "Div"} => i.dest \in X86!Operand
         /\ i.op = "Lea" => i.reg \in X86!GpReg /\ i.addr \in X86!MemoryAddr
         /\ i.op \in {"Shl", "Shr", "Sar"}
              => i.dest \in X86!Operand /\ i.count \in X86!RegOperand \cup X86!ImmOperand
         /\ i.op \in {"Lods", "Stos", "Movs", "Scas", "Cmps", "Cbw", "Cwd"} => i.size \in {1, 2, 4}
         /\ i.op \in {"Jmp", "Loop", "Loope", "Loopne", "Jecxz", "Call", "Jcc"} => i.rel \in X86!Rel
         /\ \/ i.op \in {"Add", "Or", "Adc", "Sbb", "And", "Sub", "Xor", "Cmp",
                         "Mov", "Test", "Movzx8", "Movsx8", "Imul"}
            \/ i.op \in {"Push", "Pop", "Inc", "Dec", "Neg", "Not", "Mul", "Div"}
            \/ i.op \in {"Lea", "Shl", "Shr", "Sar", "Cbw", "Cwd", "Jcc", "In", "Out", "Int", "Unknown"}
            \/ i.op \in {"Lods", "Stos", "Movs", "Scas", "Cmps", "Ins", "Outs"}
            \/ i.op \in {"Jmp", "Loop", "Loope", "Loopne", "Jecxz", "Call"}
            \/ i.op \in {"Cld", "Std", "Ret", "Leave", "Nop", "Hlt",
                         "Syscall", "Sysret", "Sysenter", "Sysexit"}
<1>1. {X86!AluOps[k] : k \in 1 .. 8} = {"Add", "Or", "Adc", "Sbb", "And", "Sub", "Xor", "Cmp"}
  BY DEF X86!AluOps
<1> QED BY <1>1, SMTT(60) DEF X86!Instr, X86!OpSize

\* An instruction leaves a machine of the same type, whatever it did.
LEMMA X86Executes ==
  ASSUME NEW s \in X86Machine, NEW i \in X86!Instr
  PROVE  X86!ExecuteX86(s, i) \in X86Machine
<1> DEFINE e == X86!ExecuteX86(s, i)
<1>1. ASSUME i.op \in {"Mov"}
      PROVE  e \in X86Machine
  <2>1. e = X86!Mov(s, i)
    BY <1>1, ZenonT(60) DEF X86!ExecuteX86
  <2>2. i.dest \in X86!Operand /\ i.src \in X86!Operand
    BY <1>1, X86Variants
  <2> HIDE DEF e
  <2> QED BY <1>1, <2>1, <2>2, X86Mov
<1>2. ASSUME i.op \in {"Lea"}
      PROVE  e \in X86Machine
  <2>1. e = X86!Put(s, i.reg, X86!CalcAddr(s, i.addr))
    BY <1>2, ZenonT(60) DEF X86!ExecuteX86
  <2> HIDE DEF e
  <2>2. i.reg \in X86!GpReg /\ X86!CalcAddr(s, i.addr) \in Word
    BY <1>2, X86Variants, X86Address
  <2> QED BY <2>1, <2>2, X86Updates
<1>3. ASSUME i.op \in {"Add", "Adc", "Sub", "Sbb", "Xor", "And", "Or", "Cmp", "Test"}
      PROVE  e \in X86Machine
  <2>1. e = X86!Binary(s, i)
    BY <1>3, ZenonT(60) DEF X86!ExecuteX86
  <2>2. i.dest \in X86!Operand /\ i.src \in X86!Operand
    BY <1>3, X86Variants
  <2> HIDE DEF e
  <2> QED BY <1>3, <2>1, <2>2, X86Binary
<1>4. ASSUME i.op \in {"Inc", "Dec", "Neg", "Not"}
      PROVE  e \in X86Machine
  <2>1. e = X86!Unary(s, i)
    BY <1>4, ZenonT(60) DEF X86!ExecuteX86
  <2>2. i.dest \in X86!Operand
    BY <1>4, X86Variants
  <2> HIDE DEF e
  <2> QED BY <1>4, <2>1, <2>2, X86Unary
<1>5. ASSUME i.op \in {"Mul"}
      PROVE  e \in X86Machine
  <2>1. e = X86!Mul(s, i)
    BY <1>5, ZenonT(60) DEF X86!ExecuteX86
  <2>2. i.dest \in X86!Operand
    BY <1>5, X86Variants
  <2> HIDE DEF e
  <2> QED BY <1>5, <2>1, <2>2, X86Mul
<1>6. ASSUME i.op \in {"Imul"}
      PROVE  e \in X86Machine
  <2>1. e = X86!Imul(s, i)
    BY <1>6, ZenonT(60) DEF X86!ExecuteX86
  <2>2. i.dest \in X86!Operand /\ i.src \in X86!Operand
    BY <1>6, X86Variants
  <2> HIDE DEF e
  <2> QED BY <1>6, <2>1, <2>2, X86Imul
<1>7. ASSUME i.op \in {"Div"}
      PROVE  e \in X86Machine
  <2>1. e = X86!Div(s, i)
    BY <1>7, ZenonT(60) DEF X86!ExecuteX86
  <2>2. i.dest \in X86!Operand
    BY <1>7, X86Variants
  <2> HIDE DEF e
  <2> QED BY <1>7, <2>1, <2>2, X86Div
<1>8. ASSUME i.op \in {"Shl", "Shr", "Sar"}
      PROVE  e \in X86Machine
  <2>1. e = X86!Shift(s, i)
    BY <1>8, ZenonT(60) DEF X86!ExecuteX86
  <2>2. i.dest \in X86!Operand /\ i.count \in X86!RegOperand \cup X86!ImmOperand
    BY <1>8, X86Variants
  <2> HIDE DEF e
  <2> QED BY <1>8, <2>1, <2>2, X86Shift
<1>9. ASSUME i.op \in {"Movzx8", "Movsx8"}
      PROVE  e \in X86Machine
  <2>1. e = X86!Extend(s, i)
    BY <1>9, ZenonT(60) DEF X86!ExecuteX86
  <2>2. i.dest \in X86!Operand /\ i.src \in X86!Operand
    BY <1>9, X86Variants
  <2> HIDE DEF e
  <2> QED BY <1>9, <2>1, <2>2, X86Extend
<1>10. ASSUME i.op \in {"Cbw", "Cwd"}
      PROVE  e \in X86Machine
  <2>1. e = X86!Convert(s, i)
    BY <1>10, ZenonT(60) DEF X86!ExecuteX86
  <2>2. i.size \in {1, 2, 4}
    BY <1>10, X86Variants
  <2> HIDE DEF e
  <2> QED BY <1>10, <2>1, <2>2, X86Convert
<1>11. ASSUME i.op \in {"Lods", "Stos", "Movs", "Scas", "Cmps"}
      PROVE  e \in X86Machine
  <2>1. e = X86!String(s, i)
    BY <1>11, ZenonT(60) DEF X86!ExecuteX86
  <2>2. i.size \in {1, 2, 4}
    BY <1>11, X86Variants
  <2> HIDE DEF e
  <2> QED BY <1>11, <2>1, <2>2, X86StringOp, X86Repeated DEF X86!String
<1>12. ASSUME i.op \in {"Push", "Pop", "Call", "Ret", "Leave", "Jmp", "Jcc",
                     "Loop", "Loope", "Loopne", "Jecxz"}
      PROVE  e \in X86Machine
  <2>1. e = X86!Flow(s, i)
    BY <1>12, ZenonT(60) DEF X86!ExecuteX86
  <2> HIDE DEF e
  <2>2. /\ i.op \in {"Push", "Pop"} => i.dest \in X86!Operand
        /\ i.op \in {"Call", "Jmp", "Jcc", "Loop", "Loope", "Loopne", "Jecxz"} => i.rel \in X86!Rel
    BY <1>12, X86Variants
  <2> QED BY <1>12, <2>1, <2>2, X86Flow
<1>13. ASSUME i.op \in {"Syscall", "Sysret", "Sysenter", "Sysexit", "In", "Out", "Ins", "Outs",
                     "Int", "Cld", "Std", "Nop", "Hlt", "Unknown"}
      PROVE  e \in X86Machine
  <2>1. e = X86!System(s, i)
    BY <1>13, ZenonT(60) DEF X86!ExecuteX86
  <2> HIDE DEF e
  <2> QED BY <1>13, <2>1, X86System
<1> HIDE DEF e
<1>14. e \in X86Machine
  BY <1>1, <1>2, <1>3, <1>4, <1>5, <1>6, <1>7, <1>8, <1>9, <1>10, <1>11, <1>12, <1>13, X86Variants
<1> QED BY <1>14 DEF e

-----------------------------------------------------------------------------
(* Reads of the decoder                                                    *)

\* The bytes of the code, read without and with a sign, and two of them.
Octet == 0 .. 255
SignedOctet == -128 .. 127
HalfwordValue == 0 .. 65535
Code == Seq(Octet)

\* A halfword is a number between two bounds.
LEMMA HalfwordMembers ==
  \A x : x \in HalfwordValue <=> x \in Int /\ 0 <= x /\ x <= 65535
<1>1. ASSUME NEW a \in Int, NEW b \in Int
      PROVE  \A x : x \in a .. b <=> x \in Int /\ a <= x /\ x <= b
  BY SMT
<1> DEFINE last == 65535
<1>2. last \in Int /\ HalfwordValue = 0 .. last
  BY DEF HalfwordValue
<1>3. last = 65535
  OBVIOUS
<1> HIDE DEF last
<1>4. \A x : x \in HalfwordValue <=> x \in Int /\ 0 <= x /\ x <= last
  BY <1>1, <1>2, SMT
<1> QED BY <1>3, <1>4

\* A read gives a byte, beyond the end too.
LEMMA X86Bytes ==
  ASSUME NEW d \in Code, NEW q
  PROVE  X86!At(d, q) \in Octet
<1>1. d \in [1 .. Len(d) -> Octet] /\ DOMAIN d = 1 .. Len(d)
  BY DEF Code
<1>2. X86!At(d, q) = IF q \in DOMAIN d THEN d[q] ELSE 0
  BY DEF X86!At
<1>3. CASE q \in DOMAIN d
  <2>1. d[q] \in Octet
    BY <1>1, <1>3
  <2> QED BY <1>2, <1>3, <2>1
<1>4. CASE q \notin DOMAIN d
  BY <1>2, <1>4 DEF Octet
<1> QED BY <1>3, <1>4

\* A byte read as signed.
LEMMA X86Narrow ==
  ASSUME NEW b \in Octet
  PROVE  X86!Narrow(b) \in SignedOctet
BY SMT DEF X86!Narrow, Octet, SignedOctet

\* A read of two bytes gives a halfword.
LEMMA X86Halfwords ==
  ASSUME NEW d \in Code, NEW q
  PROVE  X86!At16(d, q) \in HalfwordValue
<1> DEFINE a == X86!At(d, q)   b == X86!At(d, q + 1)
<1>1. a \in Octet /\ b \in Octet
  BY X86Bytes
<1>2. X86!At16(d, q) = a + 256 * b
  BY DEF X86!At16
<1> HIDE DEF a, b
<1>3. a + 256 * b \in HalfwordValue
  BY <1>1, HalfwordMembers, SMT DEF Octet
<1> QED BY <1>2, <1>3

\* The limits of a signed doubleword, as numbers.
LEMMA X86Limits ==
  /\ X86!MinI32 \in Int /\ X86!MaxI32 \in Int
  /\ X86!MinI32 = -2147483647 - 1 /\ X86!MaxI32 = 2147483647
BY SMT DEF X86!MinI32, X86!MaxI32

\* A number within those limits is a displacement.
LEMMA X86IsRelative ==
  ASSUME NEW x \in Int, X86!MinI32 <= x, x <= X86!MaxI32
  PROVE  x \in X86!Rel
<1>1. X86!MinI32 \in Int /\ X86!MaxI32 \in Int
  BY SMT DEF X86!MinI32, X86!MaxI32
<1> HIDE DEF X86!MinI32, X86!MaxI32
<1> QED BY <1>1 DEF X86!Rel

\* A signed byte is a displacement.
LEMMA X86SmallRelatives ==
  ASSUME NEW x \in SignedOctet
  PROVE  x \in X86!Rel
<1>1. x \in Int /\ X86!MinI32 <= x /\ x <= X86!MaxI32
  BY SMT DEF SignedOctet, X86!MinI32, X86!MaxI32
<1> QED BY <1>1, X86IsRelative

\* A byte read as signed is a displacement.
LEMMA X86ByteRelatives ==
  ASSUME NEW d \in Code, NEW q
  PROVE  X86!Narrow(X86!At(d, q)) \in X86!Rel
BY X86Bytes, X86Narrow, X86SmallRelatives

\* An upper half that is signed and a lower one that is not.
LEMMA DoublewordBounds ==
  ASSUME NEW h \in Int, NEW k \in Int, 0 <= h, h <= 65535, -32768 <= k, k <= 32767
  PROVE  /\ h + 65536 * k \in Int
         /\ -2147483647 - 1 <= h + 65536 * k
         /\ h + 65536 * k <= 2147483647
<1>1. h + 65536 * k \in Int
  BY SMT
<1>2. -2147483647 - 1 <= h + 65536 * k
  BY SMT
<1>3. h + 65536 * k <= 2147483647
  BY SMT
<1> QED BY <1>1, <1>2, <1>3, SMT

\* A halfword, a byte and a signed byte make a signed doubleword.
LEMMA DoublewordRange ==
  ASSUME NEW h \in HalfwordValue, NEW b \in Octet, NEW n \in SignedOctet
  PROVE  /\ h + 65536 * (b + 256 * n) \in Int
         /\ X86!MinI32 <= h + 65536 * (b + 256 * n)
         /\ h + 65536 * (b + 256 * n) <= X86!MaxI32
<1>1. b + 256 * n \in Int /\ -32768 <= b + 256 * n /\ b + 256 * n <= 32767
  BY SMT DEF Octet, SignedOctet
<1>2. h \in Int /\ 0 <= h /\ h <= 65535
  BY HalfwordMembers, SMT
<1> DEFINE k == b + 256 * n
<1> HIDE DEF k
<1>3. k \in Int /\ -32768 <= k /\ k <= 32767
  BY <1>1, SMT DEF k
<1>4. /\ h + 65536 * k \in Int
      /\ -2147483647 - 1 <= h + 65536 * k
      /\ h + 65536 * k <= 2147483647
  BY <1>2, <1>3, DoublewordBounds, SMT
<1> QED BY <1>4, SMT DEF X86!MinI32, X86!MaxI32, k

\* A read of four bytes gives a displacement.
LEMMA X86Doublewords ==
  ASSUME NEW d \in Code, NEW q
  PROVE  X86!At32(d, q) \in X86!Rel
<1> DEFINE h == X86!At16(d, q)   b == X86!At(d, q + 2)   n == X86!Narrow(X86!At(d, q + 3))
           x == h + 65536 * (b + 256 * n)
<1>1. h \in HalfwordValue /\ b \in Octet
  BY X86Halfwords, X86Bytes
<1>2. n \in SignedOctet
  BY X86Bytes, X86Narrow
<1>3. X86!At32(d, q) = x
  BY SMT DEF X86!At32
<1> HIDE DEF h, b, n
<1>4. x \in Int /\ X86!MinI32 <= x /\ x <= X86!MaxI32
  BY <1>1, <1>2, DoublewordRange
<1> HIDE DEF x
<1> QED BY <1>3, <1>4, X86IsRelative

\* A halfword is an unsigned number of 16 bits.
LEMMA X86HalfwordValues ==
  ASSUME NEW x \in HalfwordValue
  PROVE  x \in X86!Unsigned(16)
<1> DEFINE m == 2^16
<1>1. X86!Unsigned(16) = 0 .. m - 1
  <2>1. Unsigned(16) = 0 .. m - 1
    BY DEF Unsigned
  <2> QED BY <2>1, X86Words
<1>2. m \in Int /\ m - 1 = 65535
  BY SMT
<1>3. x \in Int /\ 0 <= x /\ x <= 65535
  BY HalfwordMembers, SMT
<1> HIDE DEF m
<1>4. x \in 0 .. m - 1
  BY <1>2, <1>3, SMT
<1> QED BY <1>1, <1>4, Zenon

\* The immediates of each size.
LEMMA X86Immediates ==
  /\ \A v \in Octet : [kind |-> "imm", size |-> 1, val |-> v] \in X86!ImmOperand
  /\ \A v \in HalfwordValue : [kind |-> "imm", size |-> 2, val |-> v] \in X86!ImmOperand
  /\ \A v \in X86!Rel : [kind |-> "imm", size |-> 4, val |-> v] \in X86!ImmOperand
<1> DEFINE I(n, S) == [kind : {"imm"}, size : {n}, val : S]
<1>1. X86!ImmOperand = I(1, Octet) \cup I(2, X86!Unsigned(16)) \cup I(4, X86!Rel)
  BY DEF X86!ImmOperand, Octet
<1>2. \A v \in Octet : [kind |-> "imm", size |-> 1, val |-> v] \in I(1, Octet)
  OBVIOUS
<1>3. ASSUME NEW v \in HalfwordValue
      PROVE  [kind |-> "imm", size |-> 2, val |-> v] \in I(2, X86!Unsigned(16))
  <2>1. v \in X86!Unsigned(16)
    BY X86HalfwordValues
  <2> QED BY <2>1, Zenon
<1>4. \A v \in X86!Rel : [kind |-> "imm", size |-> 4, val |-> v] \in I(4, X86!Rel)
  OBVIOUS
<1> HIDE DEF I
<1> QED BY <1>1, <1>2, <1>3, <1>4, Zenon

\* The immediate operand that is read is one.
LEMMA X86Immediate ==
  ASSUME NEW d \in Code, NEW q, NEW n \in {1, 2, 4}
  PROVE  X86!Immediate(d, q, n) \in X86!ImmOperand
<1>1. CASE n = 1
  <2>1. X86!Immediate(d, q, n) = [kind |-> "imm", size |-> 1, val |-> X86!At(d, q)]
    BY <1>1 DEF X86!Immediate
  <2>2. X86!At(d, q) \in Octet
    BY X86Bytes
  <2> QED BY <2>1, <2>2, X86Immediates, Zenon
<1>2. CASE n = 2
  <2>1. X86!Immediate(d, q, n) = [kind |-> "imm", size |-> 2, val |-> X86!At16(d, q)]
    BY <1>2 DEF X86!Immediate
  <2>2. X86!At16(d, q) \in HalfwordValue
    BY X86Halfwords
  <2> QED BY <2>1, <2>2, X86Immediates, Zenon
<1>3. CASE n = 4
  <2>1. X86!Immediate(d, q, n) = [kind |-> "imm", size |-> 4, val |-> X86!At32(d, q)]
    BY <1>3 DEF X86!Immediate
  <2>2. X86!At32(d, q) \in X86!Rel
    BY X86Doublewords
  <2> QED BY <2>1, <2>2, X86Immediates, Zenon
<1> QED BY <1>1, <1>2, <1>3

\* Three bits name a register operand, a byte register too.
LEMMA X86MapReg ==
  ASSUME NEW r \in Int, NEW n \in {1, 2, 4}
  PROVE  X86!MapReg(r, n) \in X86!RegOperand
<1>1. r % 8 \in 0 .. 7
  OBVIOUS
<1>2. r % 8 \in X86!GpReg
  BY <1>1 DEF X86!GpReg
<1> QED BY <1>2 DEF X86!MapReg, X86!RegOperand, X86!OpSize

\* The fields of a ModR/M and of a SIB byte.
LEMMA X86ByteFields ==
  ASSUME NEW d \in Code, NEW q
  PROVE  /\ X86!At(d, q) % 8 \in X86!GpReg
         /\ (X86!At(d, q) \div 8) % 8 \in X86!GpReg
         /\ X86!At(d, q) \div 64 \in 0 .. 3
<1> DEFINE b == X86!At(d, q)
<1>1. b \in Octet
  BY X86Bytes
<1> HIDE DEF b
<1>2. b % 8 \in 0 .. 7 /\ (b \div 8) % 8 \in 0 .. 7 /\ b \div 64 \in 0 .. 3
  BY <1>1, SMT DEF Octet
<1> QED BY <1>2 DEF X86!GpReg, b

\* The scales of a SIB byte.
LEMMA X86Scales ==
  ASSUME NEW k \in 0 .. 3
  PROVE  2^k \in {1, 2, 4, 8}
<1>1. 2^0 = 1 /\ 2^1 = 2 /\ 2^2 = 4 /\ 2^3 = 8
  BY SMT
<1>2. k = 0 \/ k = 1 \/ k = 2 \/ k = 3
  OBVIOUS
<1> QED BY <1>1, <1>2

-----------------------------------------------------------------------------
(* What the decoder makes                                                  *)

\* What DecodeModRm and DecodeX86 return.
ModRm == [operand : X86!RegOperand \cup X86!MemOperand, reg : X86!GpReg, next : Int]
Decoded == [instr : X86!Instr, next : Int]

\* ModR/M, SIB byte and displacement make an operand and a register.
LEMMA X86ModRm ==
  ASSUME NEW d \in Code, NEW q \in Int, NEW n \in {1, 2, 4}
  PROVE  X86!DecodeModRm(d, q, n) \in ModRm
<1> DEFINE mode == X86!At(d, q) \div 64
           rm == X86!At(d, q) % 8
           sib == rm = 4
           base == IF sib THEN X86!At(d, q + 1) % 8 ELSE rm
           index == (X86!At(d, q + 1) \div 8) % 8
           absolute == mode = 0 /\ base = 5
           at == IF sib THEN q + 2 ELSE q + 1
           baseSet == IF absolute THEN {} ELSE {base}
           indexSet == IF sib /\ index # 4 THEN {index} ELSE {}
           scale == IF sib THEN 2^(X86!At(d, q + 1) \div 64) ELSE 1
           disp == IF mode = 1 THEN X86!Narrow(X86!At(d, at))
                   ELSE IF absolute \/ mode = 2 THEN X86!At32(d, at) ELSE 0
           addr == [base |-> baseSet, index |-> indexSet, scale |-> scale, disp |-> disp]
           mem == [kind |-> "mem", size |-> n, addr |-> addr]
           operand == IF mode = 3 THEN X86!MapReg(rm, n) ELSE mem
           reg == (X86!At(d, q) \div 8) % 8
           next == IF mode = 3 THEN q + 1
                   ELSE IF mode = 1 THEN at + 1
                   ELSE IF absolute \/ mode = 2 THEN at + 4 ELSE at
<1>1. rm \in X86!GpReg /\ index \in X86!GpReg /\ reg \in X86!GpReg
  BY X86ByteFields
<1>2. base \in X86!GpReg
  BY X86ByteFields
<1>3. scale \in {1, 2, 4, 8}
  <2>1. X86!At(d, q + 1) \div 64 \in 0 .. 3
    BY X86ByteFields
  <2> QED BY <2>1, X86Scales
<1>4. disp \in X86!Rel
  <2>1. X86!Narrow(X86!At(d, at)) \in X86!Rel /\ X86!At32(d, at) \in X86!Rel
    BY X86ByteRelatives, X86Doublewords
  <2>2. 0 \in X86!Rel
    <3>1. 0 \in SignedOctet
      BY DEF SignedOctet
    <3> QED BY <3>1, X86SmallRelatives
  <2> QED BY <2>1, <2>2, Zenon
<1>5. at \in Int
  OBVIOUS
<1>6. next \in Int
  <2> HIDE DEF at, mode, absolute
  <2> QED BY <1>5
<1>7. X86!DecodeModRm(d, q, n) = [operand |-> operand, reg |-> reg, next |-> next]
  BY DEF X86!DecodeModRm
<1>8. rm \in Int
  BY <1>1 DEF X86!GpReg
<1> HIDE DEF mode, rm, sib, base, index, absolute, at, scale, disp, reg, next
<1>9. baseSet \in X86!Option(X86!GpReg) /\ indexSet \in X86!Option(X86!GpReg)
  BY <1>1, <1>2 DEF X86!Option
<1> HIDE DEF baseSet, indexSet
<1>10. addr \in X86!MemoryAddr
  BY <1>3, <1>4, <1>9 DEF X86!MemoryAddr
<1> HIDE DEF addr
<1>11. mem \in X86!MemOperand
  BY <1>10 DEF X86!MemOperand, X86!OpSize
<1>12. X86!MapReg(rm, n) \in X86!RegOperand
  BY <1>8, X86MapReg
<1> HIDE DEF mem
<1>13. operand \in X86!RegOperand \cup X86!MemOperand
  BY <1>11, <1>12
<1> HIDE DEF operand
<1> QED BY <1>1, <1>6, <1>7, <1>13 DEF ModRm

\* An instruction and where the next one begins.
LEMMA X86Is ==
  ASSUME NEW i \in X86!Instr, NEW next \in Int
  PROVE  X86!Is(i, next) \in Decoded
BY DEF X86!Is, Decoded

\* The instructions with a destination and a source.
BinaryNames == {"Add", "Or", "Adc", "Sbb", "And", "Sub", "Xor", "Cmp",
                "Mov", "Test", "Movzx8", "Movsx8", "Imul"}

\* The instructions on operands, as the decoder makes them.
LEMMA X86Makes ==
  /\ \A op \in BinaryNames, dest, src \in X86!Operand :
        [op |-> op, dest |-> dest, src |-> src] \in X86!Instr
  /\ \A op \in {"Push", "Pop", "Inc", "Dec", "Neg", "Not", "Mul", "Div"}, dest \in X86!Operand :
        [op |-> op, dest |-> dest] \in X86!Instr
  /\ \A r \in X86!GpReg, a \in X86!MemoryAddr : [op |-> "Lea", reg |-> r, addr |-> a] \in X86!Instr
  /\ \A op \in {"Shl", "Shr", "Sar"}, dest \in X86!Operand, c \in X86!RegOperand \cup X86!ImmOperand :
        [op |-> op, dest |-> dest, count |-> c] \in X86!Instr
<1>1. {X86!AluOps[k] : k \in 1 .. 8} \cup {"Mov", "Test", "Movzx8", "Movsx8", "Imul"} = BinaryNames
  BY DEF X86!AluOps, BinaryNames
<1>2. ASSUME NEW op \in BinaryNames, NEW dest \in X86!Operand, NEW src \in X86!Operand
      PROVE  [op |-> op, dest |-> dest, src |-> src] \in X86!Instr
  BY <1>1 DEF X86!Instr
<1>3. \A op \in {"Push", "Pop", "Inc", "Dec", "Neg", "Not", "Mul", "Div"}, dest \in X86!Operand :
        [op |-> op, dest |-> dest] \in X86!Instr
  BY DEF X86!Instr
<1>4. \A r \in X86!GpReg, a \in X86!MemoryAddr :
        [op |-> "Lea", reg |-> r, addr |-> a] \in X86!Instr
  BY DEF X86!Instr
<1>5. \A op \in {"Shl", "Shr", "Sar"}, dest \in X86!Operand, c \in X86!RegOperand \cup X86!ImmOperand :
        [op |-> op, dest |-> dest, count |-> c] \in X86!Instr
  BY DEF X86!Instr
<1> QED BY <1>2, <1>3, <1>4, <1>5

\* The other instructions, as the decoder makes them.
LEMMA X86MakesOthers ==
  /\ \A op \in {"Lods", "Stos", "Movs", "Scas", "Cmps", "Ins", "Outs"}, n \in {1, 2, 4},
        rep \in X86!Option(X86!RepPrefix) : [op |-> op, size |-> n, rep |-> rep] \in X86!Instr
  /\ \A op \in {"Cbw", "Cwd"}, n \in {1, 2, 4} : [op |-> op, size |-> n] \in X86!Instr
  /\ \A op \in {"In", "Out"}, n \in {1, 2, 4}, port \in X86!Operand :
        [op |-> op, size |-> n, port |-> port] \in X86!Instr
  /\ \A op \in {"Jmp", "Loop", "Loope", "Loopne", "Jecxz", "Call"}, rel \in X86!Rel :
        [op |-> op, rel |-> rel] \in X86!Instr
  /\ \A cond \in X86!Condition, rel \in X86!Rel :
        [op |-> "Jcc", cond |-> cond, rel |-> rel] \in X86!Instr
  /\ \A v \in Octet : [op |-> "Int", vec |-> v] \in X86!Instr
  /\ \A op \in {"Cld", "Std", "Ret", "Leave", "Nop", "Hlt",
                "Syscall", "Sysret", "Sysenter", "Sysexit"} : [op |-> op] \in X86!Instr
  /\ \A b \in Octet : X86!Unknown(b) \in X86!Instr
<1>1. \A op \in {"Lods", "Stos", "Movs", "Scas", "Cmps", "Ins", "Outs"}, n \in {1, 2, 4},
        rep \in X86!Option(X86!RepPrefix) : [op |-> op, size |-> n, rep |-> rep] \in X86!Instr
  BY DEF X86!Instr, X86!OpSize
<1>2. \A op \in {"Cbw", "Cwd"}, n \in {1, 2, 4} : [op |-> op, size |-> n] \in X86!Instr
  BY DEF X86!Instr, X86!OpSize
<1>3. \A op \in {"In", "Out"}, n \in {1, 2, 4}, port \in X86!Operand :
        [op |-> op, size |-> n, port |-> port] \in X86!Instr
  BY DEF X86!Instr, X86!OpSize
<1>4. \A op \in {"Jmp", "Loop", "Loope", "Loopne", "Jecxz", "Call"}, rel \in X86!Rel :
        [op |-> op, rel |-> rel] \in X86!Instr
  BY DEF X86!Instr
<1>5. \A cond \in X86!Condition, rel \in X86!Rel :
        [op |-> "Jcc", cond |-> cond, rel |-> rel] \in X86!Instr
  BY DEF X86!Instr
<1>6. \A v \in Octet : [op |-> "Int", vec |-> v] \in X86!Instr
  BY DEF X86!Instr, Octet
<1>7. \A op \in {"Cld", "Std", "Ret", "Leave", "Nop", "Hlt",
                "Syscall", "Sysret", "Sysenter", "Sysexit"} : [op |-> op] \in X86!Instr
  BY DEF X86!Instr
<1>8. \A b \in Octet : X86!Unknown(b) \in X86!Instr
  BY DEF X86!Instr, X86!Unknown, Octet
<1> QED BY <1>1, <1>2, <1>3, <1>4, <1>5, <1>6, <1>7, <1>8

\* Each kind of operand is one.
LEMMA X86OperandKinds ==
  /\ X86!RegOperand \subseteq X86!Operand /\ X86!MemOperand \subseteq X86!Operand
  /\ X86!ImmOperand \subseteq X86!Operand
BY DEF X86!Operand

\* What the parts of a decoded ModR/M are.
LEMMA X86ModRmParts ==
  ASSUME NEW m \in ModRm
  PROVE  /\ m.operand \in X86!Operand /\ m.reg \in X86!GpReg /\ m.next \in Int /\ m.reg \in Int
         /\ m.operand.kind = "mem" => m.operand.addr \in X86!MemoryAddr
<1>1. m.operand \in X86!Operand /\ m.reg \in X86!GpReg /\ m.next \in Int
  BY X86OperandKinds DEF ModRm
<1>2. m.reg \in Int
  BY <1>1 DEF X86!GpReg
<1> QED BY <1>1, <1>2, X86Operands

\* Three bits name an operation of the ALU.
LEMMA X86AluNames ==
  ASSUME NEW k \in 0 .. 7
  PROVE  X86!AluOps[k + 1] \in BinaryNames
<1>1. k = 0 \/ k = 1 \/ k = 2 \/ k = 3 \/ k = 4 \/ k = 5 \/ k = 6 \/ k = 7
  OBVIOUS
<1> QED BY <1>1 DEF X86!AluOps, BinaryNames

\* An operation of the ALU, as the decoder makes it.
LEMMA X86BuildAlu ==
  ASSUME NEW k \in 0 .. 7, NEW dest \in X86!Operand, NEW src \in X86!Operand
  PROVE  X86!BuildAlu(k, dest, src) \in X86!Instr
BY X86AluNames, X86Makes DEF X86!BuildAlu

\* Four bits name a condition.
LEMMA X86ConditionNames ==
  ASSUME NEW k \in 0 .. 15
  PROVE  X86!Conditions[k + 1] \in X86!Condition
BY DEF X86!Condition

\* What the decoder makes of the second byte of a two byte opcode.
LEMMA X86TwoByte ==
  ASSUME NEW d \in Code, NEW q \in Int, NEW wide \in {2, 4}, NEW b \in Octet, NEW m \in ModRm
  PROVE  X86!TwoByte(d, q, wide, b, m) \in Decoded
<1> DEFINE system == [c \in {5, 7, 52, 53} |->
                        CASE c = 5 -> "Syscall" [] c = 7 -> "Sysret"
                          [] c = 52 -> "Sysenter" [] c = 53 -> "Sysexit"]
           to(op) == X86!Is([op |-> op, dest |-> X86!MapReg(m.reg, wide), src |-> m.operand], m.next)
           jcc == X86!Is([op |-> "Jcc", cond |-> X86!Conditions[b - 128 + 1],
                          rel |-> X86!At32(d, q + 1)], q + 5)
           unknown == X86!Is(X86!Unknown(15), q + 1)
<1>1. X86!TwoByte(d, q, wide, b, m) =
        CASE b \in DOMAIN system -> X86!Is([op |-> system[b]], q + 1)
          [] b \in 128 .. 143 -> jcc
          [] b = 175 -> to("Imul")
          [] b = 182 -> to("Movzx8")
          [] b = 190 -> to("Movsx8")
          [] OTHER -> unknown
  BY DEF X86!TwoByte
<1>2. ASSUME b \in {5, 7, 52, 53} PROVE X86!Is([op |-> system[b]], q + 1) \in Decoded
  <2>1. system[b] \in {"Syscall", "Sysret", "Sysenter", "Sysexit"}
    BY <1>2
  <2> HIDE DEF system
  <2>2. [op |-> system[b]] \in X86!Instr
    BY <2>1, X86MakesOthers
  <2>3. q + 1 \in Int
    OBVIOUS
  <2> QED BY <2>2, <2>3, X86Is
<1>3. ASSUME b \in 128 .. 143 PROVE jcc \in Decoded
  <2>1. b - 128 \in 0 .. 15 /\ q + 5 \in Int
    BY <1>3
  <2>2. X86!Conditions[b - 128 + 1] \in X86!Condition
    BY <2>1, X86ConditionNames
  <2>3. X86!At32(d, q + 1) \in X86!Rel
    BY X86Doublewords
  <2>4. [op |-> "Jcc", cond |-> X86!Conditions[b - 128 + 1], rel |-> X86!At32(d, q + 1)] \in X86!Instr
    BY <2>2, <2>3, X86MakesOthers
  <2> QED BY <2>1, <2>4, X86Is
<1>4. \A op \in {"Imul", "Movzx8", "Movsx8"} : to(op) \in Decoded
  <2>1. X86!MapReg(m.reg, wide) \in X86!Operand
    BY X86ModRmParts, X86MapReg, X86OperandKinds
  <2>2. \A op \in {"Imul", "Movzx8", "Movsx8"} :
          [op |-> op, dest |-> X86!MapReg(m.reg, wide), src |-> m.operand] \in X86!Instr
    BY <2>1, X86ModRmParts, X86Makes DEF BinaryNames
  <2> QED BY <2>2, X86ModRmParts, X86Is
<1>5. unknown \in Decoded
  <2>1. 15 \in Octet /\ q + 1 \in Int
    BY DEF Octet
  <2> QED BY <2>1, X86MakesOthers, X86Is
<1>6. DOMAIN system = {5, 7, 52, 53}
  OBVIOUS
<1> DEFINE simple == X86!Is([op |-> system[b]], q + 1)   f == X86!TwoByte(d, q, wide, b, m)
           D == DOMAIN system
<1>7. f = CASE b \in D -> simple [] b \in 128 .. 143 -> jcc [] b = 175 -> to("Imul")
            [] b = 182 -> to("Movzx8") [] b = 190 -> to("Movsx8") [] OTHER -> unknown
  BY <1>1
<1>8. D = {5, 7, 52, 53} /\ (b \in {5, 7, 52, 53} => simple \in Decoded)
  BY <1>2, <1>6
<1> HIDE DEF system, jcc, to, unknown, simple, f, D
<1>9. CASE b \in {5, 7, 52, 53}
  <2>1. f = simple
    BY <1>7, <1>8, <1>9
  <2> QED BY <1>8, <1>9, <2>1 DEF f
<1>10. CASE b \in 128 .. 143
  <2>1. f = jcc
    BY <1>7, <1>8, <1>10
  <2> QED BY <1>3, <1>10, <2>1 DEF f
<1>11. CASE b \notin {5, 7, 52, 53} /\ b \notin 128 .. 143
  <2>1. f \in {to("Imul"), to("Movzx8"), to("Movsx8"), unknown}
    BY <1>7, <1>8, <1>11
  <2> QED BY <1>4, <1>5, <2>1 DEF f
<1> QED BY <1>9, <1>10, <1>11

\* What the decoder makes of a two byte opcode.
LEMMA X86DecodeTwoByte ==
  ASSUME NEW d \in Code, NEW q \in Int, NEW wide \in {2, 4}
  PROVE  X86!DecodeTwoByte(d, q, wide) \in Decoded
<1> DEFINE b == X86!At(d, q)   n == IF b = 175 THEN wide ELSE 1
           m == X86!DecodeModRm(d, q + 1, n)
<1>1. b \in Octet /\ n \in {1, 2, 4} /\ q + 1 \in Int
  BY X86Bytes
<1>2. m \in ModRm
  <2> HIDE DEF n
  <2> QED BY <1>1, X86ModRm
<1>3. X86!DecodeTwoByte(d, q, wide) = X86!TwoByte(d, q, wide, b, m)
  BY DEF X86!DecodeTwoByte
<1> HIDE DEF b, n, m
<1> QED BY <1>1, <1>2, <1>3, X86TwoByte

\* What the decoder makes of the opcodes below 64.
LEMMA X86DecodeAlu ==
  ASSUME NEW d \in Code, NEW q \in Int, NEW op \in 0 .. 63, NEW n \in {1, 2, 4}, NEW m \in ModRm
  PROVE  X86!DecodeAlu(d, q, op, n, m) \in Decoded
<1> DEFINE reg == X86!MapReg(m.reg, n)   k == op \div 8   r == op % 8
           f == X86!DecodeAlu(d, q, op, n, m)
           f1 == X86!Is(X86!BuildAlu(k, m.operand, reg), m.next)
           f2 == X86!Is(X86!BuildAlu(k, reg, m.operand), m.next)
           f3 == X86!Is(X86!BuildAlu(k, X86!MapReg(0, n), X86!Immediate(d, q, n)), q + n)
           f4 == X86!Is(X86!Unknown(op), q)
<1>1. f = CASE r \in {0, 1} -> f1 [] r \in {2, 3} -> f2 [] r \in {4, 5} -> f3 [] r \in {6, 7} -> f4
  BY DEF X86!DecodeAlu
<1>2. k \in 0 .. 7 /\ r \in 0 .. 7 /\ op \in Octet /\ q + n \in Int
  BY SMT DEF Octet
<1> HIDE DEF k, r
<1>3. /\ reg \in X86!Operand /\ X86!MapReg(0, n) \in X86!Operand
      /\ X86!Immediate(d, q, n) \in X86!Operand /\ m.operand \in X86!Operand /\ m.next \in Int
  BY X86ModRmParts, X86MapReg, X86OperandKinds, X86Immediate
<1> HIDE DEF reg
<1>4. f1 \in Decoded /\ f2 \in Decoded /\ f3 \in Decoded
  BY <1>2, <1>3, X86BuildAlu, X86Is
<1>5. f4 \in Decoded
  BY <1>2, X86MakesOthers, X86Is
<1> HIDE DEF f1, f2, f3, f4, f
<1>6. f \in {f1, f2, f3, f4}
  BY <1>1, <1>2
<1> QED BY <1>4, <1>5, <1>6 DEF f

\* A byte of the code, extended to n bytes.
NarrowImmediate(d, q, n) ==
  [kind |-> "imm", size |-> n,
   val |-> IF n = 2 THEN X86!Narrow(X86!At(d, q)) % 65536 ELSE X86!Narrow(X86!At(d, q))]

\* A byte that is extended to an immediate of n bytes.
LEMMA X86NarrowImmediate ==
  ASSUME NEW d \in Code, NEW q, NEW n \in {2, 4}
  PROVE  NarrowImmediate(d, q, n) \in X86!Operand
<1> DEFINE narrow == X86!Narrow(X86!At(d, q))
<1>1. narrow \in SignedOctet /\ narrow \in X86!Rel
  BY X86Bytes, X86Narrow, X86ByteRelatives
<1> HIDE DEF narrow
<1>2. narrow % 65536 \in HalfwordValue
  BY <1>1, HalfwordMembers, SMT DEF SignedOctet
<1> DEFINE w == narrow % 65536
<1>3. w \in HalfwordValue
  BY <1>2
<1> HIDE DEF w
<1>4. [kind |-> "imm", size |-> 2, val |-> w] \in X86!Operand
      /\ [kind |-> "imm", size |-> 4, val |-> narrow] \in X86!Operand
  BY <1>1, <1>3, X86Immediates, X86OperandKinds
<1>5. [kind |-> "imm", size |-> n, val |-> IF n = 2 THEN w ELSE narrow] \in X86!Operand
  BY <1>4
<1> QED BY <1>5, SMT DEF w, narrow, NarrowImmediate

\* What the decoder makes of the opcodes 128 to 131.
LEMMA X86DecodeAluImmediate ==
  ASSUME NEW d \in Code, NEW op, NEW n \in {1, 2, 4}, NEW m \in ModRm, op = 131 => n # 1
  PROVE  X86!DecodeAluImmediate(d, op, n, m) \in Decoded
<1> DEFINE imm == NarrowImmediate(d, m.next, n)
           other == X86!Immediate(d, m.next, n)
           f1 == X86!Is(X86!BuildAlu(m.reg, m.operand, imm), m.next + 1)
           f2 == X86!Is(X86!BuildAlu(m.reg, m.operand, other), m.next + n)
           f == X86!DecodeAluImmediate(d, op, n, m)
<1>1. f = IF op = 131 THEN f1 ELSE f2
  BY SMT DEF X86!DecodeAluImmediate, NarrowImmediate
<1>2. m.reg \in 0 .. 7 /\ m.operand \in X86!Operand /\ m.next + 1 \in Int /\ m.next + n \in Int
  BY X86ModRmParts DEF X86!GpReg
<1>3. n # 1 => imm \in X86!Operand
  <2> SUFFICES ASSUME n # 1 PROVE imm \in X86!Operand
    OBVIOUS
  <2>1. n \in {2, 4}
    OBVIOUS
  <2> QED BY <2>1, X86NarrowImmediate
<1>4. other \in X86!Operand
  BY X86Immediate, X86OperandKinds
<1> HIDE DEF imm, other
<1>5. (n # 1 => f1 \in Decoded) /\ f2 \in Decoded
  BY <1>2, <1>3, <1>4, X86BuildAlu, X86Is
<1> HIDE DEF f1, f2, f
<1>6. f \in Decoded
  BY <1>1, <1>5
<1> QED BY <1>6 DEF f

\* What the decoder makes of MOV, TEST and LEA.
LEMMA X86DecodeMove ==
  ASSUME NEW d \in Code, NEW q \in Int, NEW n \in {1, 2, 4}, NEW wide \in {2, 4}, NEW m \in ModRm,
         NEW op \in {132, 133, 136, 137, 138, 139, 168, 169, 198, 199, 141} \cup (184 .. 191)
  PROVE  X86!DecodeMove(d, q, op, n, wide, m) \in Decoded
<1> DEFINE reg == X86!MapReg(m.reg, n)
           f1(name) == X86!Is([op |-> name, dest |-> m.operand, src |-> reg], m.next)
           f2 == X86!Is([op |-> "Mov", dest |-> reg, src |-> m.operand], m.next)
           lea == X86!Is([op |-> "Lea", reg |-> m.reg, addr |-> m.operand.addr], m.next)
           none == X86!Is(X86!Unknown(op), m.next)
           f3 == X86!Is([op |-> "Test", dest |-> X86!MapReg(0, n), src |-> X86!Immediate(d, q, n)], q + n)
           f4 == X86!Is([op |-> "Mov", dest |-> X86!MapReg(op - 184, wide),
                         src |-> X86!Immediate(d, q, wide)], q + wide)
           f5 == X86!Is([op |-> "Mov", dest |-> m.operand, src |-> X86!Immediate(d, m.next, n)],
                        m.next + n)
           f == X86!DecodeMove(d, q, op, n, wide, m)
<1>1. f = CASE op \in {132, 133} -> f1("Test")
            [] op \in {136, 137} -> f1("Mov")
            [] op \in {138, 139} -> f2
            [] op = 141 -> IF m.operand.kind # "mem" THEN none ELSE lea
            [] op \in {168, 169} -> f3
            [] op \in 184 .. 191 -> f4
            [] op \in {198, 199} -> f5
  BY DEF X86!DecodeMove
<1>2. /\ reg \in X86!Operand /\ X86!MapReg(0, n) \in X86!Operand
      /\ m.operand \in X86!Operand /\ m.next \in Int /\ m.reg \in X86!GpReg
      /\ X86!Immediate(d, q, n) \in X86!Operand /\ X86!Immediate(d, m.next, n) \in X86!Operand
      /\ X86!Immediate(d, q, wide) \in X86!Operand
  BY X86ModRmParts, X86MapReg, X86OperandKinds, X86Immediate
<1>3. m.next + n \in Int /\ q + n \in Int /\ q + wide \in Int /\ op \in Octet /\ op - 184 \in Int
  BY <1>2, SMT DEF Octet
<1>4. X86!MapReg(op - 184, wide) \in X86!Operand
  BY <1>3, X86MapReg, X86OperandKinds
<1>5. f1("Test") \in Decoded /\ f1("Mov") \in Decoded
  BY <1>2, X86Makes, X86Is DEF BinaryNames
<1>6. f2 \in Decoded
  BY <1>2, X86Makes, X86Is DEF BinaryNames
<1>7. f3 \in Decoded
  BY <1>2, <1>3, X86Makes, X86Is DEF BinaryNames
<1>8. f4 \in Decoded
  BY <1>2, <1>3, <1>4, X86Makes, X86Is DEF BinaryNames
<1>9. f5 \in Decoded
  BY <1>2, <1>3, X86Makes, X86Is DEF BinaryNames
<1>10. none \in Decoded
  BY <1>2, <1>3, X86MakesOthers, X86Is
<1>11. m.operand.kind = "mem" => lea \in Decoded
  BY <1>2, X86ModRmParts, X86Makes, X86Is
<1> DEFINE t == f1("Test")   v == f1("Mov")   isMem == m.operand.kind = "mem"
<1>12. f = CASE op \in {132, 133} -> t
             [] op \in {136, 137} -> v
             [] op \in {138, 139} -> f2
             [] op = 141 -> IF ~isMem THEN none ELSE lea
             [] op \in {168, 169} -> f3
             [] op \in 184 .. 191 -> f4
             [] op \in {198, 199} -> f5
  BY <1>1
<1>13. t \in Decoded /\ v \in Decoded /\ (isMem => lea \in Decoded)
  BY <1>5, <1>11
<1> HIDE DEF f1, t, v, isMem, f2, f3, f4, f5, none, lea, f, reg
<1>14. f \in {t, v, f2, f3, f4, f5, none} \/ (isMem /\ f = lea)
  BY <1>12, SMTT(60)
<1>15. f \in Decoded
  BY <1>6, <1>7, <1>8, <1>9, <1>10, <1>13, <1>14
<1> QED BY <1>15 DEF f

\* What the decoder makes of the shifts.
LEMMA X86DecodeShift ==
  ASSUME NEW d \in Code, NEW op \in Octet, NEW m \in ModRm
  PROVE  X86!DecodeShift(d, op, m) \in Decoded
<1> DEFINE shift == [r \in {4, 5, 6, 7} |->
                       CASE r \in {4, 6} -> "Shl" [] r = 5 -> "Shr" [] r = 7 -> "Sar"]
           count == IF op = 193 THEN X86!Immediate(d, m.next, 1) ELSE X86!MapReg(1, 1)
           next == IF op = 193 THEN m.next + 1 ELSE m.next
           f1 == X86!Is([op |-> shift[m.reg], dest |-> m.operand, count |-> count], next)
           none == X86!Is(X86!Unknown(op), next)
<1>1. X86!DecodeShift(d, op, m) = IF m.reg \in {4, 5, 6, 7} THEN f1 ELSE none
  BY DEF X86!DecodeShift
<1>2. next \in Int
  BY X86ModRmParts
<1>3. count \in X86!RegOperand \cup X86!ImmOperand
  BY X86Immediate, X86MapReg
<1>4. m.reg \in {4, 5, 6, 7} => shift[m.reg] \in {"Shl", "Shr", "Sar"}
  OBVIOUS
<1> HIDE DEF shift, count, next
<1>5. m.reg \in {4, 5, 6, 7} => f1 \in Decoded
  BY <1>2, <1>3, <1>4, X86ModRmParts, X86Makes, X86Is
<1>6. none \in Decoded
  BY <1>2, X86MakesOthers, X86Is
<1> QED BY <1>1, <1>5, <1>6

\* What the decoder makes of the groups of unary operations.
LEMMA X86DecodeUnary ==
  ASSUME NEW d \in Code, NEW op \in Octet, NEW n \in {1, 2, 4}, NEW m \in ModRm
  PROVE  X86!DecodeUnary(d, op, n, m) \in Decoded
<1> DEFINE unary == [r \in {2, 3, 4, 6} |->
                       CASE r = 2 -> "Not" [] r = 3 -> "Neg" [] r = 4 -> "Mul" [] r = 6 -> "Div"]
           f1 == X86!Is([op |-> "Test", dest |-> m.operand, src |-> X86!Immediate(d, m.next, n)],
                        m.next + n)
           f2 == X86!Is([op |-> unary[m.reg], dest |-> m.operand], m.next)
           none == X86!Is(X86!Unknown(op), m.next)
<1>1. X86!DecodeUnary(d, op, n, m)
        = IF m.reg \in {0, 1} THEN f1 ELSE IF m.reg \in {2, 3, 4, 6} THEN f2 ELSE none
  BY DEF X86!DecodeUnary
<1>2. m.next \in Int /\ m.next + n \in Int
  BY X86ModRmParts
<1>3. X86!Immediate(d, m.next, n) \in X86!Operand
  BY X86Immediate, X86OperandKinds
<1>4. m.reg \in {2, 3, 4, 6} => unary[m.reg] \in {"Not", "Neg", "Mul", "Div"}
  OBVIOUS
<1> HIDE DEF unary
<1>5. f1 \in Decoded
  BY <1>2, <1>3, X86ModRmParts, X86Makes, X86Is DEF BinaryNames
<1>6. m.reg \in {2, 3, 4, 6} => f2 \in Decoded
  BY <1>2, <1>4, X86ModRmParts, X86Makes, X86Is
<1>7. none \in Decoded
  BY <1>2, X86MakesOthers, X86Is
<1> QED BY <1>1, <1>5, <1>6, <1>7

\* Two bits name a LOOP instruction.
LEMMA X86LoopNames ==
  ASSUME NEW k \in 0 .. 3
  PROVE  X86!LoopOps[k + 1] \in {"Loopne", "Loope", "Loop", "Jecxz"}
<1>1. k = 0 \/ k = 1 \/ k = 2 \/ k = 3
  OBVIOUS
<1> QED BY <1>1 DEF X86!LoopOps

\* What the decoder makes of jumps, calls and returns.
LEMMA X86DecodeControl ==
  ASSUME NEW d \in Code, NEW q \in Int, NEW op \in Octet
  PROVE  X86!DecodeControl(d, q, op) \in Decoded
<1> DEFINE far(name) == X86!Is([op |-> name, rel |-> X86!At32(d, q)], q + 4)
           jump == X86!Is([op |-> "Jmp", rel |-> X86!Narrow(X86!At(d, q))], q + 1)
           plain(name) == X86!Is([op |-> name], q)
           three == X86!Is([op |-> "Int", vec |-> 3], q)
           int == X86!Is([op |-> "Int", vec |-> X86!At(d, q)], q + 1)
           loop == X86!Is([op |-> X86!LoopOps[op - 224 + 1], rel |-> X86!Narrow(X86!At(d, q))], q + 1)
           jcc == X86!Is([op |-> "Jcc", cond |-> X86!Conditions[op - 112 + 1],
                          rel |-> X86!Narrow(X86!At(d, q))], q + 1)
           none == X86!Is(X86!Unknown(op), q)
           call == far("Call")   jmp == far("Jmp")   ret == plain("Ret")   leave == plain("Leave")
           cld == plain("Cld")   std == plain("Std")
           f == X86!DecodeControl(d, q, op)
<1>1. f = CASE op = 232 -> call
            [] op = 195 -> ret
            [] op = 201 -> leave
            [] op = 204 -> three
            [] op = 205 -> int
            [] op \in 224 .. 227 -> loop
            [] op = 252 -> cld
            [] op = 253 -> std
            [] op \in 112 .. 127 -> jcc
            [] op = 235 -> jump
            [] op = 233 -> jmp
            [] OTHER -> none
  BY DEF X86!DecodeControl
<1>2. q + 1 \in Int /\ q + 4 \in Int /\ X86!At(d, q) \in Octet /\ 3 \in Octet
      /\ X86!Narrow(X86!At(d, q)) \in X86!Rel /\ X86!At32(d, q) \in X86!Rel
  BY X86Bytes, X86ByteRelatives, X86Doublewords DEF Octet
<1>3. /\ call \in Decoded /\ jmp \in Decoded /\ jump \in Decoded
      /\ ret \in Decoded /\ leave \in Decoded /\ cld \in Decoded /\ std \in Decoded
      /\ three \in Decoded /\ int \in Decoded /\ none \in Decoded
  BY <1>2, X86MakesOthers, X86Is
<1>4. op \in 224 .. 227 => loop \in Decoded
  <2> SUFFICES ASSUME op \in 224 .. 227 PROVE loop \in Decoded
    OBVIOUS
  <2>1. op - 224 \in 0 .. 3
    OBVIOUS
  <2>2. X86!LoopOps[op - 224 + 1] \in {"Loopne", "Loope", "Loop", "Jecxz"}
    BY <2>1, X86LoopNames
  <2> QED BY <1>2, <2>2, X86MakesOthers, X86Is
<1>5. op \in 112 .. 127 => jcc \in Decoded
  <2> SUFFICES ASSUME op \in 112 .. 127 PROVE jcc \in Decoded
    OBVIOUS
  <2>1. op - 112 \in 0 .. 15
    OBVIOUS
  <2>2. X86!Conditions[op - 112 + 1] \in X86!Condition
    BY <2>1, X86ConditionNames
  <2> QED BY <1>2, <2>2, X86MakesOthers, X86Is
<1> HIDE DEF far, plain, call, jmp, jump, ret, leave, cld, std, three, int, none, loop, jcc, f
<1>6. CASE op \in 224 .. 227
  <2>1. f = loop
    BY <1>1, <1>6
  <2> QED BY <1>4, <1>6, <2>1 DEF f
<1>7. CASE op \in 112 .. 127
  <2>1. f = jcc
    BY <1>1, <1>7
  <2> QED BY <1>5, <1>7, <2>1 DEF f
<1>8. CASE op \notin 224 .. 227 /\ op \notin 112 .. 127
  <2>1. f \in {call, ret, leave, three, int, cld, std, jump, jmp, none}
    BY <1>1, <1>8, SMTT(60)
  <2> QED BY <1>3, <2>1 DEF f
<1> QED BY <1>6, <1>7, <1>8

\* What the decoder makes of IN and OUT.
LEMMA X86DecodePort ==
  ASSUME NEW d \in Code, NEW q \in Int, NEW op \in Octet, NEW n \in {1, 2, 4}
  PROVE  X86!DecodePort(d, q, op, n) \in Decoded
<1> DEFINE name == IF op \in {228, 229, 236, 237} THEN "In" ELSE "Out"
           f1 == X86!Is([op |-> name, size |-> n, port |-> X86!Immediate(d, q, 1)], q + 1)
           f2 == X86!Is([op |-> name, size |-> n, port |-> X86!MapReg(2, 2)], q)
<1>1. X86!DecodePort(d, q, op, n) = IF op <= 231 THEN f1 ELSE f2
  BY DEF X86!DecodePort
<1>2. name \in {"In", "Out"} /\ q + 1 \in Int
  OBVIOUS
<1>3. X86!Immediate(d, q, 1) \in X86!Operand /\ X86!MapReg(2, 2) \in X86!Operand
  BY X86Immediate, X86MapReg, X86OperandKinds
<1> HIDE DEF name
<1>4. f1 \in Decoded /\ f2 \in Decoded
  BY <1>2, <1>3, X86MakesOthers, X86Is
<1> QED BY <1>1, <1>4

\* The opcodes of the string operations.
LEMMA X86StringNames ==
  /\ DOMAIN X86!StringOps = {108, 110, 164, 166, 170, 172, 174}
  /\ \A b \in DOMAIN X86!StringOps :
        X86!StringOps[b] \in {"Lods", "Stos", "Movs", "Scas", "Cmps", "Ins", "Outs"}
BY DEF X86!StringOps

\* What the decoder makes of a one byte opcode.
LEMMA X86DecodeOpcode ==
  ASSUME NEW d \in Code, NEW q \in Int, NEW op \in Octet, NEW wide \in {2, 4},
         NEW n \in {1, 2, 4}, op = 131 => n # 1, NEW rep \in X86!Option(X86!RepPrefix), NEW m \in ModRm
  PROVE  X86!DecodeOpcode(d, q, op, wide, n, rep, m) \in Decoded
<1> DEFINE even == op - (op % 2)
           reg == X86!MapReg(op, wide)
           nop == X86!Is([op |-> "Nop"], q)
           two == X86!DecodeTwoByte(d, q, wide)
           alu == X86!DecodeAlu(d, q, op, n, m)
           one(name) == X86!Is([op |-> name, dest |-> reg], q)
           inc == one("Inc")   dec == one("Dec")   push == one("Push")   pop == one("Pop")
           aluImm == X86!DecodeAluImmediate(d, op, n, m)
           move == X86!DecodeMove(d, q, op, n, wide, m)
           shift == X86!DecodeShift(d, op, m)
           unary == X86!DecodeUnary(d, op, n, m)
           string == X86!Is([op |-> X86!StringOps[even], size |-> n, rep |-> rep], q)
           cbw == X86!Is([op |-> "Cbw", size |-> wide], q)
           cwd == X86!Is([op |-> "Cwd", size |-> wide], q)
           port == X86!DecodePort(d, q, op, n)
           control == X86!DecodeControl(d, q, op)
           Strings == DOMAIN X86!StringOps
           Moves == {132, 133, 136, 137, 138, 139, 168, 169, 198, 199, 141} \cup (184 .. 191)
           f == X86!DecodeOpcode(d, q, op, wide, n, rep, m)
<1>1. f = CASE op = 144 -> nop
            [] op = 15 -> two
            [] op \in (0 .. 63) \ {15} -> alu
            [] op \in 64 .. 71 -> inc
            [] op \in 72 .. 79 -> dec
            [] op \in 80 .. 87 -> push
            [] op \in 88 .. 95 -> pop
            [] op \in 128 .. 131 -> aluImm
            [] op \in Moves -> move
            [] op \in {193, 211} -> shift
            [] op \in {246, 247} -> unary
            [] even \in Strings -> string
            [] op = 152 -> cbw
            [] op = 153 -> cwd
            [] op \in (228 .. 231) \cup (236 .. 239) -> port
            [] OTHER -> control
  BY DEF X86!DecodeOpcode
<1>2. op \in Int /\ op \in 0 .. 255
  BY DEF Octet
<1>3. reg \in X86!Operand
  BY <1>2, X86MapReg, X86OperandKinds
<1> HIDE DEF reg
<1>4. nop \in Decoded /\ cbw \in Decoded /\ cwd \in Decoded
  BY X86MakesOthers, X86Is
<1>5. inc \in Decoded /\ dec \in Decoded /\ push \in Decoded /\ pop \in Decoded
  BY <1>3, X86Makes, X86Is
<1>6. two \in Decoded /\ aluImm \in Decoded /\ shift \in Decoded /\ unary \in Decoded
      /\ port \in Decoded /\ control \in Decoded
  <2>1. two \in Decoded /\ aluImm \in Decoded
    BY X86DecodeTwoByte, X86DecodeAluImmediate
  <2>2. shift \in Decoded /\ unary \in Decoded
    BY X86DecodeShift, X86DecodeUnary
  <2>3. port \in Decoded /\ control \in Decoded
    BY X86DecodePort, X86DecodeControl
  <2> QED BY <2>1, <2>2, <2>3
<1>7. op \in (0 .. 63) \ {15} => alu \in Decoded
  BY X86DecodeAlu
<1>8. op \in Moves => move \in Decoded
  BY X86DecodeMove
<1>9. even \in Strings => string \in Decoded
  <2> SUFFICES ASSUME even \in Strings PROVE string \in Decoded
    OBVIOUS
  <2> HIDE DEF even
  <2>1. X86!StringOps[even] \in {"Lods", "Stos", "Movs", "Scas", "Cmps", "Ins", "Outs"}
    BY X86StringNames
  <2> QED BY <2>1, X86MakesOthers, X86Is
<1>10. even \in Strings => even \in {108, 110, 164, 166, 170, 172, 174}
  BY X86StringNames
<1>11. even = op \/ even = op - 1
  BY <1>2, SMT
<1> HIDE DEF one, nop, cbw, cwd, inc, dec, push, pop, two, alu, aluImm, move, shift, unary, string,
             port, control, Strings, even, f
<1>12. CASE op \in 0 .. 127
  <2>1. \/ f \in {two, inc, dec, push, pop, control}
        \/ op \in (0 .. 63) \ {15} /\ f = alu
        \/ even \in Strings /\ f = string
    BY <1>1, <1>2, <1>12, SMTT(90)
  <2> QED BY <1>5, <1>6, <1>7, <1>9, <2>1 DEF f
<1>13. CASE op \in 128 .. 255
  <2>1. \/ f \in {nop, aluImm, shift, unary, cbw, cwd, port, control}
        \/ op \in Moves /\ f = move
        \/ even \in Strings /\ f = string
    BY <1>1, <1>2, <1>10, <1>11, <1>13, SMTT(90)
  <2> QED BY <1>4, <1>6, <1>8, <1>9, <2>1 DEF f
<1> QED BY <1>2, <1>12, <1>13

\* What the decoder makes of an opcode after its prefixes.
LEMMA X86DecodeFrom ==
  ASSUME NEW d \in Code, NEW q \in Int, NEW op \in Octet, NEW wide \in {2, 4},
         NEW rep \in X86!Option(X86!RepPrefix)
  PROVE  X86!DecodeFrom(d, q, op, wide, rep) \in Decoded
<1> DEFINE n == X86!OperandSize(op, wide)
           k == IF op \in {141, 193, 211} THEN wide ELSE n
           m == X86!DecodeModRm(d, q, k)
<1>1. n \in {1, 2, 4} /\ (op = 131 => n # 1)
  BY DEF X86!OperandSize
<1> HIDE DEF n
<1>2. k \in {1, 2, 4}
  BY <1>1
<1>3. X86!DecodeFrom(d, q, op, wide, rep) = X86!DecodeOpcode(d, q, op, wide, n, rep, m)
  BY DEF X86!DecodeFrom, n
<1> HIDE DEF k
<1>4. m \in ModRm
  BY <1>2, X86ModRm
<1> HIDE DEF m
<1> QED BY <1>1, <1>3, <1>4, X86DecodeOpcode

\* How many prefixes the code begins with.
IsPrefixCount(d, k) ==
  (\A j \in 1 .. k : d[j] \in X86!Prefixes) /\ X86!At(d, k + 1) \notin X86!Prefixes

\* The prefixes end somewhere.
LEMMA X86PrefixCount ==
  ASSUME NEW d \in Code
  PROVE  \E k \in 0 .. Len(d) : IsPrefixCount(d, k)
<1> SUFFICES ASSUME \A k \in 0 .. Len(d) : ~IsPrefixCount(d, k) PROVE FALSE
  OBVIOUS
<1> DEFINE S == {k \in Nat : k <= Len(d) => \A j \in 1 .. k : d[j] \in X86!Prefixes}
<1>1. Len(d) \in Nat /\ DOMAIN d = 1 .. Len(d)
  BY DEF Code
<1>2. 0 \in S
  OBVIOUS
<1>3. ASSUME NEW k \in Nat, k \in S PROVE k + 1 \in S
  <2> SUFFICES ASSUME k + 1 <= Len(d) PROVE \A j \in 1 .. k + 1 : d[j] \in X86!Prefixes
    OBVIOUS
  <2>1. k \in 0 .. Len(d)
    BY <1>1
  <2>2. \A j \in 1 .. k : d[j] \in X86!Prefixes
    BY <1>1, <1>3
  <2>3. X86!At(d, k + 1) \in X86!Prefixes
    BY <2>1, <2>2 DEF IsPrefixCount
  <2>4. X86!At(d, k + 1) = d[k + 1]
    BY <1>1 DEF X86!At
  <2>5. \A j \in 1 .. k + 1 : j \in 1 .. k \/ j = k + 1
    OBVIOUS
  <2> QED BY <2>2, <2>3, <2>4, <2>5
<1> HIDE DEF S
<1>4. Nat \subseteq S
  BY <1>2, <1>3, SetInduction
<1>5. \A j \in 1 .. Len(d) : d[j] \in X86!Prefixes
  <2>1. Len(d) \in S
    BY <1>1, <1>4
  <2> QED BY <1>1, <2>1 DEF S
<1>6. X86!At(d, Len(d) + 1) = 0
  <2>1. Len(d) + 1 \notin DOMAIN d
    BY <1>1
  <2> QED BY <2>1 DEF X86!At
<1>7. 0 \notin X86!Prefixes
  BY DEF X86!Prefixes
<1>8. Len(d) \in 0 .. Len(d)
  BY <1>1
<1> QED BY <1>5, <1>6, <1>7, <1>8 DEF IsPrefixCount

\* The x86 decoder makes of any bytes, cut off anywhere and with any prefixes,
\* an instruction of the type that the executor expects.
THEOREM X86Decodes ==
  ASSUME NEW d \in Code
  PROVE  X86!DecodeX86(d) \in Decoded
<1> DEFINE p == CHOOSE k \in 0 .. Len(d) : /\ \A j \in 1 .. k : d[j] \in X86!Prefixes
                                           /\ X86!At(d, k + 1) \notin X86!Prefixes
           reps == {j \in 1 .. p : d[j] \in {242, 243}}
           last == X86!Max(reps)
           prefix(j) == IF d[j] = 243 THEN "Rep" ELSE "Repne"
           rep == {prefix(j) : j \in {k \in reps : k = last}}
           wide == IF \E j \in 1 .. p : d[j] = 102 THEN 2 ELSE 4
<1>1. X86!DecodeX86(d) = X86!DecodeFrom(d, p + 2, X86!At(d, p + 1), wide, rep)
  BY DEF X86!DecodeX86
<1>2. p \in 0 .. Len(d)
  BY X86PrefixCount DEF IsPrefixCount
<1>3. p + 2 \in Int
  <2> HIDE DEF p
  <2> QED BY <1>2
<1>4. wide \in {2, 4}
  OBVIOUS
<1>5. rep \in X86!Option(X86!RepPrefix)
  <2> HIDE DEF reps, last
  <2>1. rep = {} \/ rep = {prefix(last)}
    <3> DEFINE K == {k \in reps : k = last}
    <3>1. K = {} \/ K = {last}
      OBVIOUS
    <3>2. rep = {prefix(j) : j \in K}
      OBVIOUS
    <3> HIDE DEF K, rep, prefix
    <3> QED BY <3>1, <3>2
  <2>2. prefix(last) \in X86!RepPrefix
    BY DEF X86!RepPrefix
  <2> HIDE DEF rep, prefix
  <2> QED BY <2>1, <2>2 DEF X86!Option
<1>6. X86!At(d, p + 1) \in Octet
  BY X86Bytes
<1> HIDE DEF p, rep, wide
<1> QED BY <1>1, <1>3, <1>4, <1>5, <1>6, X86DecodeFrom

\* The two parts of what the decoder makes.
LEMMA X86Decoding ==
  ASSUME NEW d \in Code
  PROVE  X86!DecodeX86(d).instr \in X86!Instr /\ X86!DecodeX86(d).next \in Int
BY X86Decodes DEF Decoded

\* A step of x86 on any bytes leaves a machine of the same type, every register
\* and the PC a word, and if the instruction failed the PC is back on it.
THEOREM X86Steps ==
  ASSUME NEW s \in X86Machine, NEW d \in Code
  PROVE  /\ X86!X86Step(s, d) \in X86Machine
         /\ X86!X86Step(s, d).err # "ok" => X86!X86Step(s, d).pc = s.pc
<1> DEFINE i == X86!DecodeX86(d).instr
           n == X86!DecodeX86(d).next - 1
           v == (s.pc + n) % X86!M
           t == [s EXCEPT !.pc = v]
           e == X86!ExecuteX86(t, i)
           back == [e EXCEPT !.pc = s.pc]
           f == X86!X86Step(s, d)
           panic == X86!Fails(s, "panic")
<1>1. f = IF n > Len(d) THEN panic ELSE IF e.err = "ok" THEN e ELSE back
  BY DEF X86!X86Step, X86!X86Decoded, X86!Rewound
<1>2. i \in X86!Instr /\ n \in Int
  BY X86Decoding
<1>3. v \in Word
  <2> HIDE DEF n
  <2>1. s.pc \in Int
    BY X86Set, WordArithmetic
  <2>2. s.pc + n \in Int
    BY <1>2, <2>1
  <2> QED BY <2>2, X86Modulus, WordType
<1> HIDE DEF i, n, v
<1>4. t \in X86Machine
  BY <1>3, X86Updates
<1> HIDE DEF t
<1>5. e \in X86Machine
  BY <1>2, <1>4, X86Executes
<1> HIDE DEF e
<1>6. s.pc \in Word
  BY X86Set
<1>7. back \in X86Machine /\ back.pc = s.pc
  BY <1>5, <1>6 DEF X86Machine
<1>8. panic \in X86Machine /\ panic.pc = s.pc
  <2>1. panic = Fails(s, "panic")
    BY X86Memory
  <2> QED BY <2>1, X86Failures DEF Fails, X86Machine
<1> HIDE DEF f, back, panic
<1>9. f \in X86Machine /\ (f.err # "ok" => f.pc = s.pc)
  BY <1>1, <1>5, <1>7, <1>8
<1> QED BY <1>9 DEF f

-----------------------------------------------------------------------------
(* The inductive invariant                                                 *)

\* What WellFormed says of the part of a program that stays.
ProgramOK ==
  /\ Prog.vector \in Word
  /\ \/ /\ Prog.arch = "arm"
        /\ Prog.code \in Seq(SUBSET (0 .. 31))
        /\ 15 \notin Prog.statuses
        /\ \A k \in DOMAIN Prog.code : KeepsStatuses(Arm!DecodeArm(Prog.code[k]), Prog.statuses)
     \/ /\ Prog.arch = "riscv"
        /\ Prog.code \in Seq(SUBSET (0 .. 31))
        /\ Prog.statuses = {}
     \/ /\ Prog.arch = "x86"
        /\ Prog.code \in Code
        /\ Prog.statuses = {}

\* The machines of the program's processor.
Machines == CASE Prog.arch = "arm" -> ArmMachine(Prog.statuses)
              [] Prog.arch = "riscv" -> RvMachine
              [] Prog.arch = "x86" -> X86Machine

\* The PC of an instruction that failed is where it was: the fault can be
\* answered by trying it again.
GuestInv ==
  /\ ProgramOK
  /\ machine \in Machines
  /\ machine.err = "fault" => InCode(machine)

\* The word that the PC is on is one of the code's.
LEMMA WordIndex ==
  ASSUME NEW pc \in Word, NEW n \in Nat, pc < 4 * n
  PROVE  (pc \div 4) + 1 \in 1 .. n
<1>1. pc \in Nat
  BY WordArithmetic
<1>2. pc \div 4 \in Nat /\ pc \div 4 < n
  BY <1>1, SMT
<1> QED BY <1>2

\* An element of a sequence.
LEMMA ElementType ==
  ASSUME NEW S, NEW c \in Seq(S), NEW k \in DOMAIN c
  PROVE  c[k] \in S
OBVIOUS

\* The code from the PC on is code.
LEMMA WindowType ==
  ASSUME NEW c \in Code, NEW pc \in Word, pc < Len(c)
  PROVE  SubSeq(c, pc + 1, Len(c)) \in Code
<1>1. pc \in Nat
  BY WordArithmetic
<1>2. Len(c) \in Nat /\ \A k \in 1 .. Len(c) : c[k] \in Octet
  BY DEF Code
<1>3. \A k \in pc + 1 .. Len(c) : c[k] \in Octet
  BY <1>1, <1>2
<1> QED BY <1>1, <1>2, <1>3 DEF Code

\* A step keeps the machine one of its architecture, and one that fails
\* leaves the PC on its instruction.
LEMMA SteppedType ==
  ASSUME ProgramOK, NEW m \in Machines, InCode(m)
  PROVE  /\ Stepped(m) \in Machines
         /\ Stepped(m).err # "ok" => Pc(Stepped(m)) = Pc(m)
<1>1. CASE Prog.arch = "arm"
  <2> DEFINE T == Prog.statuses   k == (m.regs[15] \div 4) + 1   raw == Prog.code[k]
  <2>1. m \in ArmMachine(T) /\ 15 \notin T
    BY <1>1 DEF Machines, ProgramOK
  <2>2. m.regs[15] \in Word
    BY <2>1, ArmSet DEF Arm!Register
  <2>3. Prog.code \in Seq(SUBSET (0 .. 31)) /\ Len(Prog.code) \in Nat
        /\ DOMAIN Prog.code = 1 .. Len(Prog.code)
    BY <1>1 DEF ProgramOK
  <2>4. m.regs[15] < 4 * Len(Prog.code)
    BY <1>1 DEF InCode, Pc, Bytes
  <2>5. k \in DOMAIN Prog.code
    BY <2>2, <2>3, <2>4, WordIndex
  <2> HIDE DEF k
  <2>6. raw \in SUBSET (0 .. 31) /\ KeepsStatuses(Arm!DecodeArm(raw), T)
    <3>1. raw \in SUBSET (0 .. 31)
      BY <2>3, <2>5, ElementType
    <3> QED BY <1>1, <2>5, <3>1 DEF ProgramOK
  <2>7. Stepped(m) = Arm!ArmStep(m, raw)
    BY <1>1 DEF Stepped, Pc, k
  <2> HIDE DEF raw, T
  <2>8. /\ Stepped(m) \in ArmMachine(T)
        /\ Stepped(m).err # "ok" => Stepped(m).regs[15] = m.regs[15]
    BY <2>1, <2>6, <2>7, ArmSteps
  <2> QED BY <1>1, <2>8 DEF Machines, Pc, T
<1>2. CASE Prog.arch = "riscv"
  <2> DEFINE k == (m.pc \div 4) + 1   raw == Prog.code[k]
  <2>1. m \in RvMachine
    BY <1>2 DEF Machines
  <2>2. m.pc \in Word
    BY <2>1, RvSet
  <2>3. Prog.code \in Seq(SUBSET (0 .. 31)) /\ Len(Prog.code) \in Nat
        /\ DOMAIN Prog.code = 1 .. Len(Prog.code)
    BY <1>2 DEF ProgramOK
  <2>4. m.pc < 4 * Len(Prog.code)
    BY <1>2 DEF InCode, Pc, Bytes
  <2>5. k \in DOMAIN Prog.code
    BY <2>2, <2>3, <2>4, WordIndex
  <2> HIDE DEF k
  <2>6. raw \in SUBSET (0 .. 31)
    BY <2>3, <2>5, ElementType
  <2>7. Stepped(m) = Rv!RiscvStep(m, raw)
    BY <1>2 DEF Stepped, Pc, k
  <2> HIDE DEF raw
  <2>8. Stepped(m) \in RvMachine /\ (Stepped(m).err # "ok" => Stepped(m).pc = m.pc)
    BY <2>1, <2>6, <2>7, RvSteps
  <2> QED BY <1>2, <2>8 DEF Machines, Pc
<1>3. CASE Prog.arch = "x86"
  <2> DEFINE window == SubSeq(Prog.code, m.pc + 1, Len(Prog.code))
  <2>1. m \in X86Machine
    BY <1>3 DEF Machines
  <2>2. m.pc \in Word
    BY <2>1, X86Set
  <2>3. Prog.code \in Code /\ m.pc < Len(Prog.code)
    BY <1>3 DEF ProgramOK, InCode, Pc, Bytes
  <2>4. window \in Code
    BY <2>2, <2>3, WindowType
  <2>5. Stepped(m) = X86!X86Step(m, window)
    BY <1>3 DEF Stepped, Pc
  <2> HIDE DEF window
  <2>6. Stepped(m) \in X86Machine /\ (Stepped(m).err # "ok" => Stepped(m).pc = m.pc)
    BY <2>1, <2>4, <2>5, X86Steps
  <2> QED BY <1>3, <2>6 DEF Machines, Pc
<1> QED BY <1>1, <1>2, <1>3 DEF ProgramOK

\* What is decoded at the PC is an instruction of the processor's type.
LEMMA InstructionType ==
  ASSUME ProgramOK, NEW m \in Machines, InCode(m)
  PROVE  Instruction(m) \in
           CASE Prog.arch = "arm" -> Arm!Instr
             [] Prog.arch = "riscv" -> Rv!Instr
             [] Prog.arch = "x86" -> X86!Instr
<1>1. CASE Prog.arch = "arm"
  <2> DEFINE k == (m.regs[15] \div 4) + 1
  <2>1. m \in ArmMachine(Prog.statuses) /\ 15 \notin Prog.statuses
    BY <1>1 DEF Machines, ProgramOK
  <2>2. m.regs[15] \in Word
    BY <2>1, ArmSet DEF Arm!Register
  <2>3. Prog.code \in Seq(SUBSET (0 .. 31)) /\ Len(Prog.code) \in Nat
        /\ DOMAIN Prog.code = 1 .. Len(Prog.code)
    BY <1>1 DEF ProgramOK
  <2>4. m.regs[15] < 4 * Len(Prog.code)
    BY <1>1 DEF InCode, Pc, Bytes
  <2>5. k \in DOMAIN Prog.code
    BY <2>2, <2>3, <2>4, WordIndex
  <2>6. Instruction(m) = Arm!DecodeArm(Prog.code[k])
    BY <1>1 DEF Instruction, Pc
  <2> HIDE DEF k
  <2>7. Prog.code[k] \in SUBSET (0 .. 31)
    BY <2>3, <2>5, ElementType
  <2>8. Instruction(m) \in Arm!Instr
    BY <2>6, <2>7, ArmDecodes
  <2> QED BY <1>1, <2>8
<1>2. CASE Prog.arch = "riscv"
  <2> DEFINE k == (m.pc \div 4) + 1
  <2>1. m \in RvMachine
    BY <1>2 DEF Machines
  <2>2. m.pc \in Word
    BY <2>1, RvSet
  <2>3. Prog.code \in Seq(SUBSET (0 .. 31)) /\ Len(Prog.code) \in Nat
        /\ DOMAIN Prog.code = 1 .. Len(Prog.code)
    BY <1>2 DEF ProgramOK
  <2>4. m.pc < 4 * Len(Prog.code)
    BY <1>2 DEF InCode, Pc, Bytes
  <2>5. k \in DOMAIN Prog.code
    BY <2>2, <2>3, <2>4, WordIndex
  <2>6. Instruction(m) = Rv!DecodeRiscv(Prog.code[k])
    BY <1>2 DEF Instruction, Pc
  <2> HIDE DEF k
  <2>7. Prog.code[k] \in SUBSET (0 .. 31)
    BY <2>3, <2>5, ElementType
  <2>8. Instruction(m) \in Rv!Instr
    BY <2>6, <2>7, RvDecodes
  <2> QED BY <1>2, <2>8
<1>3. CASE Prog.arch = "x86"
  <2> DEFINE window == SubSeq(Prog.code, m.pc + 1, Len(Prog.code))
  <2>1. m.pc \in Word
    BY <1>3, X86Set DEF Machines
  <2>2. Prog.code \in Code /\ m.pc < Len(Prog.code)
    BY <1>3 DEF ProgramOK, InCode, Pc, Bytes
  <2>3. window \in Code
    BY <2>1, <2>2, WindowType
  <2>4. Instruction(m) = X86!DecodeX86(window).instr
    BY <1>3 DEF Instruction, Pc
  <2> HIDE DEF window
  <2>5. Instruction(m) \in X86!Instr
    BY <2>3, <2>4, X86Decoding
  <2> QED BY <1>3, <2>5
<1> QED BY <1>1, <1>2, <1>3 DEF ProgramOK

-----------------------------------------------------------------------------
(* It holds at the start and every step keeps it                           *)

\* The registers, with those that the host has set.
Given(all, regs) == [r \in DOMAIN all |-> IF r \in DOMAIN regs THEN regs[r] ELSE all[r]]

\* Registers that the host has set hold words.
LEMMA GivenType ==
  ASSUME NEW R, NEW all \in [R -> Word], NEW regs, \A r \in DOMAIN regs : regs[r] \in Word
  PROVE  Given(all, regs) \in [R -> Word]
BY DEF Given

\* An ARM program begins with a machine.
LEMMA ArmBooted ==
  ASSUME NEW p, WellFormed(p), p.arch = "arm", NEW regs \in p.regs, NEW flags \in p.flags,
         NEW mapped \in p.mapped
  PROVE  Booted(p, regs, flags, mapped) \in ArmMachine(p.statuses)
<1> DEFINE given == Given(Arm!ArmInit.regs, regs)
           cpsr == [Arm!ArmInit.cpsr EXCEPT !.flags = flags]
<1>1. Booted(p, regs, flags, mapped) =
        [mem |-> Image, mapped |-> mapped, handles |-> p.handles, err |-> "ok",
         regs |-> given, cpsr |-> cpsr, spsr |-> Arm!ArmInit.spsr, lr |-> Arm!ArmInit.lr]
  BY DEF Booted, Given
<1>2. 0 \in Word
  BY WordType
<1>3. Arm!ArmInit.regs \in [Arm!Register -> Word]
  BY <1>2 DEF Arm!ArmInit
<1>4. \A r \in DOMAIN regs : regs[r] \in Word
  BY DEF WellFormed
<1>5. given \in [Arm!Register -> Word]
  BY <1>3, <1>4, GivenType
<1> HIDE DEF given
<1>6. given \in ArmRegs(p.statuses)
  BY <1>5 DEF ArmRegs
<1>7. "Supervisor" \in Arm!Mode
  BY DEF Arm!Mode, Arm!ModeNo
<1>8. flags \in SUBSET Arm!CpsrBit
  BY DEF WellFormed
<1>9. cpsr \in Status
  BY <1>7, <1>8 DEF Status, Arm!ArmInit
<1>10. [flags |-> {}, mode |-> "Supervisor"] \in Status
  BY <1>7 DEF Status
<1>11. Arm!ArmInit.spsr \in [Arm!Banked -> Status] /\ Arm!ArmInit.lr \in [Arm!Banked -> Word]
  BY <1>2, <1>10 DEF Arm!ArmInit
<1> HIDE DEF cpsr
<1>12. Image \in [Cells -> Byte] /\ mapped \in SUBSET Regions /\ p.handles \in BOOLEAN /\ "ok" \in Errors
  BY GuestAssumption DEF WellFormed, Byte, Errors
<1> QED BY <1>1, <1>6, <1>9, <1>11, <1>12 DEF ArmMachine

\* An RV32I program begins with a machine.
LEMMA RvBooted ==
  ASSUME NEW p, WellFormed(p), p.arch = "riscv", NEW regs \in p.regs, NEW flags \in p.flags,
         NEW mapped \in p.mapped
  PROVE  Booted(p, regs, flags, mapped) \in RvMachine
<1> DEFINE given == Given(Rv!RiscvInit.regs, regs)
<1>1. Booted(p, regs, flags, mapped) =
        [mem |-> Image, mapped |-> mapped, handles |-> p.handles, err |-> "ok",
         regs |-> given, pc |-> Rv!RiscvInit.pc]
  BY DEF Booted, Given
<1>2. 0 \in Word
  BY WordType
<1>3. Rv!RiscvInit.regs \in [Rv!Register -> Word] /\ Rv!RiscvInit.pc \in Word
  BY <1>2 DEF Rv!RiscvInit
<1>4. \A r \in DOMAIN regs : regs[r] \in Word
  BY DEF WellFormed
<1>5. given \in [Rv!Register -> Word]
  BY <1>3, <1>4, GivenType
<1> HIDE DEF given
<1>6. Image \in [Cells -> Byte] /\ mapped \in SUBSET Regions /\ p.handles \in BOOLEAN /\ "ok" \in Errors
  BY GuestAssumption DEF WellFormed, Byte, Errors
<1> QED BY <1>1, <1>3, <1>5, <1>6 DEF RvMachine

\* An x86 program begins with a machine.
LEMMA X86Booted ==
  ASSUME NEW p, WellFormed(p), p.arch = "x86", NEW regs \in p.regs, NEW flags \in p.flags,
         NEW mapped \in p.mapped
  PROVE  Booted(p, regs, flags, mapped) \in X86Machine
<1> DEFINE given == Given(X86!X86Init.regs, regs)
           set == X86!X86Init.flags \cup flags
<1>1. Booted(p, regs, flags, mapped) =
        [mem |-> Image, mapped |-> mapped, handles |-> p.handles, err |-> "ok",
         regs |-> given, pc |-> X86!X86Init.pc, flags |-> set]
  BY DEF Booted, Given
<1>2. 0 \in Word
  BY WordType
<1>3. X86!X86Init.regs \in [X86!GpReg -> Word] /\ X86!X86Init.pc \in Word
  BY <1>2 DEF X86!X86Init
<1>4. \A r \in DOMAIN regs : regs[r] \in Word
  BY DEF WellFormed
<1>5. given \in [X86!GpReg -> Word]
  BY <1>3, <1>4, GivenType
<1>6. set \in SUBSET X86!EFlags
  BY DEF WellFormed, X86!X86Init, X86!EFlags
<1> HIDE DEF given, set
<1>7. Image \in [Cells -> Byte] /\ mapped \in SUBSET Regions /\ p.handles \in BOOLEAN /\ "ok" \in Errors
  BY GuestAssumption DEF WellFormed, Byte, Errors
<1> QED BY <1>1, <1>3, <1>5, <1>6, <1>7 DEF X86Machine

\* A program begins without an error.
LEMMA BootedOk ==
  ASSUME NEW p, WellFormed(p), NEW regs, NEW flags, NEW mapped
  PROVE  Booted(p, regs, flags, mapped).err = "ok"
<1>1. p.arch = "arm" \/ p.arch = "riscv" \/ p.arch = "x86"
  BY DEF WellFormed
<1> QED BY <1>1 DEF Booted

\* The invariant holds where a program begins.
LEMMA GuestInitial == Init => GuestInv
<1> SUFFICES ASSUME Init PROVE GuestInv
  OBVIOUS
<1>1. PICK k \in DOMAIN Programs : Begins(Programs[k])
  BY DEF Init
<1> DEFINE p == Programs[k]
<1>2. WellFormed(p)
  BY GuestAssumption
<1> HIDE DEF p
<1>3. program = [f \in Fields |-> p[f]]
  BY <1>1 DEF Begins, p
<1>4. PICK regs \in p.regs, flags \in p.flags, mapped \in p.mapped :
        machine = Booted(p, regs, flags, mapped)
  BY <1>1 DEF Begins, p
<1>5. Prog.arch = p.arch /\ Prog.code = p.code /\ Prog.vector = p.vector /\ Prog.statuses = p.statuses
  BY <1>3 DEF Fields, Prog
<1>6. ProgramOK
  BY <1>2, <1>5 DEF ProgramOK, WellFormed, Code, Octet
<1>7. machine \in Machines
  <2>1. CASE p.arch = "arm"
    BY <1>2, <1>4, <1>5, <2>1, ArmBooted DEF Machines
  <2>2. CASE p.arch = "riscv"
    BY <1>2, <1>4, <1>5, <2>2, RvBooted DEF Machines
  <2>3. CASE p.arch = "x86"
    BY <1>2, <1>4, <1>5, <2>3, X86Booted DEF Machines
  <2> QED BY <1>2, <2>1, <2>2, <2>3 DEF WellFormed
<1>8. machine.err = "ok"
  BY <1>2, <1>4, BootedOk
<1> QED BY <1>6, <1>7, <1>8 DEF GuestInv

\* Mapping a region and clearing the error keeps the machine.
LEMMA MappedMachine ==
  ASSUME ProgramOK, NEW m \in Machines, NEW R \in Regions
  PROVE  /\ [m EXCEPT !.mapped = @ \cup {R}, !.err = "ok"] \in Machines
         /\ Pc([m EXCEPT !.mapped = @ \cup {R}, !.err = "ok"]) = Pc(m)
<1> DEFINE n == [m EXCEPT !.mapped = @ \cup {R}, !.err = "ok"]
<1>1. CASE Prog.arch = "arm"
  <2>1. m \in ArmMachine(Prog.statuses)
    BY <1>1 DEF Machines
  <2>2. n \in ArmMachine(Prog.statuses) /\ n.regs = m.regs
    BY <2>1 DEF ArmMachine, Errors
  <2> QED BY <1>1, <2>2 DEF Machines, Pc
<1>2. CASE Prog.arch = "riscv"
  <2>1. m \in RvMachine
    BY <1>2 DEF Machines
  <2>2. n \in RvMachine /\ n.pc = m.pc
    BY <2>1 DEF RvMachine, Errors
  <2> QED BY <1>2, <2>2 DEF Machines, Pc
<1>3. CASE Prog.arch = "x86"
  <2>1. m \in X86Machine
    BY <1>3 DEF Machines
  <2>2. n \in X86Machine /\ n.pc = m.pc
    BY <2>1 DEF X86Machine, Errors
  <2> QED BY <1>3, <2>2 DEF Machines, Pc
<1> QED BY <1>1, <1>2, <1>3 DEF ProgramOK

\* A machine that a step on the same program leaves, and the PC in it.
LEMMA GuestAfter ==
  ASSUME ProgramOK, program' = program, machine' \in Machines,
         machine'.err = "fault" => InCode(machine')
  PROVE  GuestInv'
<1>1. ProgramOK' /\ Machines' = Machines
  BY DEF ProgramOK, Machines, Prog
<1>2. InCode(machine)' <=> InCode(machine')
  BY DEF InCode, Pc, Bytes, Prog
<1> QED BY <1>1, <1>2 DEF GuestInv

\* A step keeps it.
LEMMA GuestStep == GuestInv /\ Step => GuestInv'
<1> SUFFICES ASSUME GuestInv, Step PROVE GuestInv'
  OBVIOUS
<1>1. ProgramOK /\ machine \in Machines /\ InCode(machine) /\ program' = program
      /\ machine' = Stepped(machine)
  BY DEF GuestInv, Step
<1>2. machine' \in Machines /\ (machine'.err # "ok" => Pc(machine') = Pc(machine))
  BY <1>1, SteppedType
<1>3. machine'.err = "fault" => InCode(machine')
  BY <1>1, <1>2 DEF InCode
<1> QED BY <1>1, <1>2, <1>3, GuestAfter

\* Trying an instruction again keeps it: the PC is still in the code.
LEMMA GuestRetry == \A R \in Regions : GuestInv /\ Retry(R) => GuestInv'
<1> SUFFICES ASSUME NEW R \in Regions, GuestInv, Retry(R) PROVE GuestInv'
  OBVIOUS
<1> DEFINE n == [machine EXCEPT !.mapped = @ \cup {R}, !.err = "ok"]
<1>1. ProgramOK /\ machine \in Machines /\ InCode(machine) /\ program' = program
      /\ machine' = Stepped(n)
  BY DEF GuestInv, Retry
<1>2. n \in Machines /\ Pc(n) = Pc(machine)
  BY <1>1, MappedMachine
<1> HIDE DEF n
<1>3. InCode(n)
  BY <1>1, <1>2 DEF InCode
<1>4. machine' \in Machines /\ (machine'.err # "ok" => Pc(machine') = Pc(n))
  BY <1>1, <1>2, <1>3, SteppedType
<1>5. machine'.err = "fault" => InCode(machine')
  BY <1>3, <1>4 DEF InCode
<1> QED BY <1>1, <1>4, <1>5, GuestAfter

\* An interrupt keeps it.
LEMMA GuestInterrupt == GuestInv /\ Interrupt => GuestInv'
<1> SUFFICES ASSUME GuestInv, Interrupt PROVE GuestInv'
  OBVIOUS
<1> DEFINE T == Prog.statuses
<1>1. ProgramOK /\ Prog.arch = "arm" /\ program' = program /\ machine.err = "ok"
      /\ machine \in ArmMachine(T) /\ machine' = Arm!TriggerException(machine, "Irq", Prog.vector)
  BY DEF GuestInv, Interrupt, Machines
<1>2. 15 \notin T /\ Prog.vector \in Word
  BY <1>1 DEF ProgramOK
<1>3. machine' \in ArmMachine(T)
  BY <1>1, <1>2, ArmException
<1>4. machine'.err = "ok"
  BY <1>1 DEF Arm!TriggerException, ArmMachine
<1> HIDE DEF T
<1>5. machine' \in Machines
  BY <1>1, <1>3 DEF Machines, T
<1> QED BY <1>1, <1>4, <1>5, GuestAfter

\* The host's return from an interrupt keeps it.
LEMMA GuestReturn == GuestInv /\ Return => GuestInv'
<1> SUFFICES ASSUME GuestInv, Return PROVE GuestInv'
  OBVIOUS
<1> DEFINE T == Prog.statuses   pc == machine.lr["Irq"]   n == [machine EXCEPT !.regs[15] = pc]
<1>1. ProgramOK /\ Prog.arch = "arm" /\ program' = program
      /\ machine \in ArmMachine(T) /\ machine' = [machine EXCEPT !.regs[15] = pc, !.err = "ok"]
  BY DEF GuestInv, Return, Machines
<1>2. pc \in Word
  BY <1>1, ArmSet DEF Arm!Banked
<1> HIDE DEF T, pc
<1>3. n \in ArmMachine(T)
  BY <1>1, <1>2, ArmJump DEF Arm!Put
<1>4. machine' = [n EXCEPT !.err = "ok"]
  BY <1>1
<1> HIDE DEF n
<1>5. machine' \in ArmMachine(T) /\ machine'.err = "ok"
  BY <1>3, <1>4 DEF ArmMachine, Errors
<1>6. machine' \in Machines
  BY <1>1, <1>5 DEF Machines, T
<1> QED BY <1>1, <1>5, <1>6, GuestAfter

\* Every action keeps it.
LEMMA GuestNext == GuestInv /\ [Next]_vars => GuestInv'
<1>1. GuestInv /\ UNCHANGED vars => GuestInv'
  BY DEF vars, GuestInv, ProgramOK, Machines, InCode, Pc, Bytes, Prog
<1> QED BY <1>1, GuestStep, GuestRetry, GuestInterrupt, GuestReturn DEF Next

-----------------------------------------------------------------------------
(* What it says                                                            *)

\* It implies the type invariant.
LEMMA GuestTyped == GuestInv => TypeOK
<1> SUFFICES ASSUME GuestInv PROVE TypeOK
  OBVIOUS
<1>1. ProgramOK /\ machine \in Machines
  BY DEF GuestInv
<1>2. InCode(machine) => Instruction(machine) \in
        (CASE Prog.arch = "arm" -> Arm!Instr
           [] Prog.arch = "riscv" -> Rv!Instr
           [] Prog.arch = "x86" -> X86!Instr)
  BY <1>1, InstructionType
<1>3. CASE Prog.arch = "arm"
  <2>1. machine \in ArmMachine(Prog.statuses)
    BY <1>1, <1>3 DEF Machines
  <2>2. /\ machine.err \in Errors /\ machine.mem \in [Cells -> Byte]
        /\ machine.mapped \in SUBSET Regions /\ machine.cpsr \in Status
    BY <2>1 DEF ArmMachine
  <2>3. DOMAIN machine.regs = Arm!Register
        /\ \A r \in Arm!Register \ Prog.statuses : machine.regs[r] \in Word
    BY <2>1, ArmSet DEF ArmRegs
  <2> QED BY <1>2, <1>3, <2>2, <2>3 DEF TypeOK, Byte
<1>4. CASE Prog.arch = "riscv"
  <2>1. machine \in RvMachine
    BY <1>1, <1>4 DEF Machines
  <2> QED BY <1>2, <1>4, <2>1 DEF TypeOK, Byte, RvMachine
<1>5. CASE Prog.arch = "x86"
  <2>1. machine \in X86Machine
    BY <1>1, <1>5 DEF Machines
  <2> QED BY <1>2, <1>5, <2>1 DEF TypeOK, Byte, X86Machine
<1> QED BY <1>1, <1>3, <1>4, <1>5 DEF ProgramOK

\* Whatever the programs, the memory and the host's choices are: the machine stays
\* a machine of its processor, and one that faulted has its PC in the code, so
\* that the host can call step again.
THEOREM GuestInvariant == Spec => []GuestInv
<1>1. Init => GuestInv
  BY GuestInitial
<1>2. GuestInv /\ [Next]_vars => GuestInv'
  BY GuestNext
<1> QED BY <1>1, <1>2, PTL DEF Spec

\* For every program, memory and number of interrupts: registers hold words,
\* memory holds bytes, and whatever the PC reaches in the code decodes to an
\* instruction of the type that the executor expects.
THEOREM GuestTypeOK == Spec => []TypeOK
BY GuestInvariant, GuestTyped, PTL
=============================================================================
