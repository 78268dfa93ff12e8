--------------------------- MODULE InboundProofs ---------------------------
(***************************************************************************)
(* What a message goes through between the socket and its handler:         *)
(* frames of any length, paths of any length over any alphabet, and any    *)
(* number of threads that register events during a lookup.                 *)
(***************************************************************************)
EXTENDS Inbound, FiniteSetTheorems, TLAPS

-----------------------------------------------------------------------------
(* evs_clean_path                                                          *)

Slash(i) == buf[i] = SLASH

(* What was written so far is already a clean path, but for its end.       *)
WrittenClean ==
  /\ \A i \in 1 .. writing - 1 : buf[i] \in Allowed
  /\ \A i \in 1 .. writing - 2 : ~(Slash(i) /\ Slash(i + 1))

(* The inner loop only ends on a character that may follow a slash.        *)
AfterSlash ==
  /\ pc = "skip" => writing > 1 /\ Slash(writing - 1)
  /\ pc = "char" /\ writing > 1 /\ Slash(writing - 1) /\ curr <= Len(buf)
       => buf[curr] \in Allowed /\ ~Slash(curr)
  /\ pc = "done" /\ writing > 1 => ~Slash(writing - 1)

PathInv == PathOK /\ UnreadUntouched /\ WrittenClean /\ AfterSlash

LEMMA ShorterRange ==
  ASSUME NEW m \in Int, NEW n \in Int, m <= n
  PROVE  /\ \A i \in 1 .. m - 1 : i \in 1 .. n - 1
         /\ \A i \in 1 .. m - 2 : i \in 1 .. n - 2
  OBVIOUS

LEMMA PathInitInv == PathInit => PathInv
  BY InputsAssumption DEF PathInit, PathInv, PathOK, UnreadUntouched, WrittenClean, AfterSlash

LEMMA CharInv == PathInv /\ Char => PathInv'
<1> SUFFICES ASSUME PathInv, Char PROVE PathInv'
  OBVIOUS
<1> USE DEF PathInv, PathEnds
<1>1. /\ writing \in 1 .. curr /\ curr \in 1 .. Len(buf) /\ curr' = curr + 1
      /\ buf \in Seq(Chars) /\ Len(buf) \in Nat /\ input' = input
  BY DEF Char, PathOK, UnreadUntouched
<1>2. CASE buf[curr] \in Allowed
  <2>1. /\ buf' = [buf EXCEPT ![writing] = buf[curr]] /\ writing' = writing + 1
    BY <1>2 DEF Char
  <2>2. /\ buf' \in Seq(Chars) /\ Len(buf') = Len(buf)
        /\ buf'[writing] = buf[curr]
        /\ \A i \in 1 .. Len(buf) : i # writing => buf'[i] = buf[i]
    BY <1>1, <2>1
  <2>3. PathOK'
    BY <1>1, <2>1, <2>2 DEF PathOK, Char
  <2>4. UnreadUntouched'
    BY <1>1, <2>1, <2>2 DEF UnreadUntouched
  <2>5. WrittenClean'
    <3>1. \A i \in 1 .. writing' - 1 : buf'[i] \in Allowed
      BY <1>1, <1>2, <2>1, <2>2 DEF WrittenClean
    <3>2. ASSUME NEW i \in 1 .. writing' - 2 PROVE ~(Slash(i) /\ Slash(i + 1))'
      <4>1. CASE i < writing - 1
        BY <4>1, <1>1, <2>1, <2>2 DEF WrittenClean, Slash
      <4>2. CASE i = writing - 1
        BY <4>2, <1>1, <2>1, <2>2 DEF AfterSlash, Char, Slash
      <4> QED BY <4>1, <4>2, <1>1, <2>1
    <3> QED BY <3>1, <3>2 DEF WrittenClean
  <2>6. AfterSlash'
    BY <1>1, <2>1, <2>2 DEF AfterSlash, Char, Slash
  <2> QED BY <2>3, <2>4, <2>5, <2>6
<1>3. CASE buf[curr] \notin Allowed
  <2>1. /\ buf' = buf /\ writing' = writing /\ pc' = "char"
    BY <1>3 DEF Char, Allowed
  <2>2. writing > 1 => ~Slash(writing - 1)
    BY <1>1, <1>3 DEF AfterSlash, Char
  <2>3. PathOK' /\ UnreadUntouched' /\ WrittenClean'
    BY <1>1, <2>1 DEF PathOK, UnreadUntouched, WrittenClean, Slash
  <2>4. AfterSlash'
    BY <1>1, <2>1, <2>2 DEF AfterSlash, Slash
  <2> QED BY <2>3, <2>4
<1> QED BY <1>2, <1>3

LEMMA SkipInv == PathInv /\ Skip => PathInv'
  BY DEF PathInv, Skip, PathEnds, PathOK, UnreadUntouched, WrittenClean, AfterSlash, Slash

LEMMA SkipEndInv == PathInv /\ SkipEnd => PathInv'
<1> SUFFICES ASSUME PathInv, SkipEnd PROVE PathInv'
  OBVIOUS
<1>1. PathOK' /\ UnreadUntouched' /\ WrittenClean'
  BY DEF PathInv, SkipEnd, PathOK, UnreadUntouched, WrittenClean, Slash
<1>2. AfterSlash'
  BY DEF PathInv, SkipEnd, PathEnds, Skipped, PathOK, AfterSlash, Slash
<1> QED BY <1>1, <1>2 DEF PathInv

LEMMA FinishInv == PathInv /\ Finish => PathInv'
<1> SUFFICES ASSUME PathInv, Finish PROVE PathInv'
  OBVIOUS
<1>1. /\ writing \in 1 .. curr /\ curr \in 1 .. Len(buf) + 1 /\ Len(buf) \in Nat
      /\ buf' = buf /\ curr' = curr /\ input' = input /\ pc' = "done"
  BY DEF PathInv, Finish, PathOK, UnreadUntouched
<1>2. writing' \in 1 .. writing
  BY <1>1 DEF Finish, Trailing
<1>3. PathOK' /\ UnreadUntouched' /\ WrittenClean'
  <2>1. PathOK'
    BY <1>1, <1>2 DEF PathInv, PathOK
  <2>2. UnreadUntouched'
    BY <1>1, <1>2 DEF PathInv, UnreadUntouched
  <2>3. WrittenClean'
    <3>1. writing \in Int /\ writing' \in Int /\ writing' <= writing
      BY <1>1, <1>2
    <3>2. /\ \A i \in 1 .. writing' - 1 : i \in 1 .. writing - 1
          /\ \A i \in 1 .. writing' - 2 : i \in 1 .. writing - 2
      BY <3>1, ShorterRange
    <3> QED BY <1>1, <3>2, Zenon DEF PathInv, WrittenClean, Slash
  <2> QED BY <2>1, <2>2, <2>3
<1>4. AfterSlash'
  <2>1. CASE writing > 1 /\ Slash(writing - 1)
    <3>1. writing' = writing - 1
      BY <2>1 DEF Finish, Trailing, Slash
    <3>2. writing > 2 => ~Slash(writing - 2)
      <4> SUFFICES ASSUME writing > 2 PROVE ~Slash(writing - 2)
        OBVIOUS
      <4>1. writing - 2 \in 1 .. writing - 2 /\ (writing - 2) + 1 = writing - 1
        BY <1>1
      <4> QED BY <4>1, <2>1 DEF PathInv, WrittenClean
    <3>3. writing' > 1 => buf'[writing' - 1] # SLASH
      BY <1>1, <3>1, <3>2 DEF Slash
    <3> QED BY <1>1, <3>3 DEF AfterSlash, Slash
  <2>2. CASE ~(writing > 1 /\ Slash(writing - 1))
    BY <1>1, <2>2 DEF Finish, Trailing, AfterSlash, Slash
  <2> QED BY <2>1, <2>2
<1> QED BY <1>3, <1>4 DEF PathInv

LEMMA PathStepInv == PathInv /\ [PathNext]_pathVars => PathInv'
<1> SUFFICES ASSUME PathInv, [PathNext]_pathVars PROVE PathInv'
  OBVIOUS
<1>1. CASE UNCHANGED pathVars
  BY <1>1 DEF pathVars, PathInv, PathOK, UnreadUntouched, WrittenClean, AfterSlash, Slash
<1> QED BY <1>1, CharInv, SkipInv, SkipEndInv, FinishInv DEF PathNext

(* The written part of the path is clean after every turn of               *)
(* evs_clean_path's loops, and the unread part is still the input.         *)
THEOREM PathInvariance == PathSpec => []PathInv
  BY PathInitInv, PathStepInv, PTL DEF PathSpec

(* evs_clean_path leaves a path that evs_query may index with: allowed     *)
(* characters only, no empty segment, no slash at the end.                 *)
THEOREM CleanedWellFormed == PathSpec => []WellFormed
<1>1. PathInv => WellFormed
  BY DEF PathInv, WrittenClean, AfterSlash, WellFormed, Slash
<1> QED BY <1>1, PathInvariance, PTL

(* Cleaning in place never overwrites a character before it is read.       *)
THEOREM InPlace == PathSpec => []UnreadUntouched
<1>1. PathInv => UnreadUntouched
  BY DEF PathInv
<1> QED BY <1>1, PathInvariance, PTL

(* What the loops keep: the good characters, and the slashes that begin a  *)
(* gap, also the gap that the path ends with.                              *)
First(p) == {i \in DOMAIN p : p[i] \in Good \/ (p[i] = SLASH /\ ~InGap(p, i))}
Taken == {i \in First(input) : i < curr}
UpTo(S, i) == {j \in S : j <= i}

(* They were written in their order, and the last one written says whether *)
(* the loops are in a gap.                                                 *)
Written ==
  /\ writing - 1 = Cardinality(Taken)
  /\ \A i \in Taken : /\ Cardinality(UpTo(Taken, i)) \in 1 .. writing - 1
                      /\ buf[Cardinality(UpTo(Taken, i))] = input[i]
  /\ writing > 1 => \E l \in Taken : (\A j \in Taken : j <= l) /\ buf[writing - 1] = input[l]
  /\ InGap(input, curr) <=> writing > 1 /\ Slash(writing - 1)

WrittenInv ==
  /\ PathInv
  /\ pc # "done" => Written
  /\ pc = "done" => CleansTo(input, Path)

LEMMA FirstFinite ==
  ASSUME PathOK
  PROVE  /\ First(input) \subseteq 1 .. Len(input) /\ Stays(input) \subseteq First(input)
         /\ Taken \subseteq 1 .. Len(input)
         /\ \A S : S \subseteq 1 .. Len(input) => IsFiniteSet(S) /\ Cardinality(S) \in Nat
<1>1. First(input) \subseteq 1 .. Len(input) /\ Taken \subseteq First(input)
  BY DEF First, PathOK, Taken
<1>2. Stays(input) \subseteq First(input)
  BY DEF First, Stays
<1>3. IsFiniteSet(1 .. Len(input))
  BY FS_Interval DEF PathOK
<1>4. ASSUME NEW S, S \subseteq 1 .. Len(input) PROVE IsFiniteSet(S) /\ Cardinality(S) \in Nat
  BY <1>3, <1>4, FS_Subset, FS_CardinalityType
<1> QED BY <1>1, <1>2, <1>4

LEMMA WrittenInit == PathInit => WrittenInv
<1> SUFFICES ASSUME PathInit PROVE WrittenInv
  OBVIOUS
<1>1. PathInv
  BY PathInitInv
<1>2. Taken = {} /\ writing = 1 /\ curr = 1 /\ pc = "char"
  <2>1. First(input) \subseteq 1 .. Len(input)
    BY <1>1, FirstFinite DEF PathInv
  <2> QED BY <2>1 DEF PathInit, Taken
<1>3. Cardinality(Taken) = 0
  BY <1>2, FS_EmptySet
<1>4. ~InGap(input, curr)
  BY <1>2 DEF InGap
<1> QED BY <1>1, <1>2, <1>3, <1>4 DEF WrittenInv, Written

(* A step that writes nothing.                                             *)
LEMMA PassedOver ==
  ASSUME PathInv, Written, curr \in 1 .. Len(buf), curr' = curr + 1,
         UNCHANGED <<input, buf, writing>>, curr \notin First(input),
         InGap(input, curr) <=> InGap(input, curr + 1)
  PROVE  Written'
<1>1. Taken' = Taken
  <2>1. First(input) \subseteq 1 .. Len(input)
    BY FirstFinite DEF PathInv
  <2>2. First(input)' = First(input)
    BY DEF First, InGap
  <2>3. curr \in Int
    OBVIOUS
  <2> QED BY <2>1, <2>2, <2>3 DEF Taken
<1>2. InGap(input, curr)' <=> InGap(input, curr + 1)
  BY DEF InGap
<1> QED BY <1>1, <1>2 DEF Written, UpTo, Slash

(* A step that writes the character it reads.                              *)
LEMMA TakenOver ==
  ASSUME PathInv, Written, curr \in 1 .. Len(buf), curr' = curr + 1, input' = input,
         buf' = [buf EXCEPT ![writing] = buf[curr]], writing' = writing + 1,
         curr \in First(input), InGap(input, curr + 1) <=> buf[curr] = SLASH
  PROVE  Written'
<1>1. /\ writing \in 1 .. curr /\ Len(buf) \in Nat /\ buf \in Seq(Chars) /\ buf[curr] = input[curr]
      /\ PathOK /\ Len(buf) = Len(input)
  BY DEF PathInv, PathOK, UnreadUntouched
<1>2. /\ buf'[writing] = input[curr]
      /\ \A i \in 1 .. Len(buf) : i # writing => buf'[i] = buf[i]
  BY <1>1
<1>3. PICK T : T = Taken /\ T \subseteq 1 .. Len(input) /\ IsFiniteSet(T) /\ Cardinality(T) = writing - 1
  BY <1>1, FirstFinite DEF Written
<1>4. \A i \in T : i < curr
  BY <1>3 DEF Taken
<1>5. Taken' = T \cup {curr}
  <2>1. First(input) \subseteq 1 .. Len(input)
    BY <1>1, FirstFinite
  <2>2. First(input)' = First(input)
    BY DEF First, InGap
  <2>3. \A i \in 1 .. Len(input) : i < curr + 1 <=> i < curr \/ i = curr
    BY <1>1
  <2> QED BY <1>3, <2>1, <2>2, <2>3 DEF Taken
<1>6. curr \notin T
  BY <1>4, <1>1
<1>7. Cardinality(T \cup {curr}) = writing
  <2>1. Cardinality(T \cup {curr}) = Cardinality(T) + 1
    BY <1>3, <1>6, FS_AddElement, Zenon
  <2> QED BY <1>1, <1>3, <2>1
<1>8. ASSUME NEW i \in T
      PROVE  UpTo(T \cup {curr}, i) = UpTo(T, i)
  BY <1>1, <1>3, <1>4 DEF UpTo
<1>9. UpTo(T \cup {curr}, curr) = T \cup {curr}
  BY <1>1, <1>3, <1>4 DEF UpTo
<1>10. ASSUME NEW i \in T \cup {curr}
       PROVE  /\ Cardinality(UpTo(T \cup {curr}, i)) \in 1 .. writing' - 1
              /\ buf'[Cardinality(UpTo(T \cup {curr}, i))] = input[i]
  <2>1. CASE i \in T
    <3>1. PICK r : r = Cardinality(UpTo(T, i)) /\ r \in 1 .. writing - 1 /\ buf[r] = input[i]
      BY <1>3, <2>1 DEF Written
    <3>2. r # writing /\ r \in 1 .. Len(buf) /\ r \in 1 .. writing' - 1
      BY <1>1, <3>1
    <3> QED BY <1>2, <1>8, <2>1, <3>1, <3>2
  <2>2. CASE i = curr
    <3>1. Cardinality(UpTo(T \cup {curr}, i)) = writing
      BY <1>7, <1>9, <2>2, Zenon
    <3>2. writing \in 1 .. writing' - 1
      BY <1>1
    <3> QED BY <1>2, <2>2, <3>1, <3>2
  <2> QED BY <2>1, <2>2
<1>11. \A j \in T \cup {curr} : j <= curr
  BY <1>1, <1>3, <1>4
<1>12. /\ writing' - 1 = Cardinality(T \cup {curr}) /\ writing' > 1
       /\ buf'[writing' - 1] = input[curr]
  BY <1>1, <1>2, <1>7
<1>13. UpTo(Taken, 0)' = UpTo(Taken', 0) /\ \A i : UpTo(Taken, i)' = UpTo(Taken', i)
  BY DEF UpTo
<1>14. InGap(input, curr)' <=> InGap(input, curr + 1)
  BY DEF InGap
<1>15. \A i \in Taken' : /\ Cardinality(UpTo(Taken', i)) \in 1 .. writing' - 1
                         /\ buf'[Cardinality(UpTo(Taken', i))] = input'[i]
  BY <1>5, <1>10
<1>16. \E l \in Taken' : (\A j \in Taken' : j <= l) /\ buf'[writing' - 1] = input'[l]
  BY <1>5, <1>11, <1>12
<1>17. InGap(input, curr)' <=> writing' > 1 /\ Slash(writing - 1)'
  BY <1>1, <1>12, <1>14 DEF Slash
<1> QED BY <1>5, <1>12, <1>15, <1>16, <1>17 DEF Written, UpTo

LEMMA GapStep ==
  ASSUME NEW p, NEW n \in Nat \ {0}
  PROVE  InGap(p, n + 1) <=> p[n] = SLASH \/ (p[n] \notin Good /\ InGap(p, n))
<1>1. ASSUME InGap(p, n + 1), p[n] # SLASH PROVE p[n] \notin Good /\ InGap(p, n)
  <2>1. PICK j \in 1 .. n : p[j] = SLASH /\ \A k \in j + 1 .. n : p[k] \notin Good
    BY <1>1 DEF InGap
  <2>2. j \in 1 .. n - 1 /\ n \in j + 1 .. n /\ \A k \in j + 1 .. n - 1 : k \in j + 1 .. n
    BY <1>1, <2>1
  <2> QED BY <2>1, <2>2 DEF InGap
<1>2. ASSUME p[n] = SLASH PROVE InGap(p, n + 1)
  <2>1. n \in 1 .. (n + 1) - 1 /\ \A k \in n + 1 .. (n + 1) - 1 : FALSE
    OBVIOUS
  <2> QED BY <1>2, <2>1 DEF InGap
<1>3. ASSUME p[n] \notin Good, InGap(p, n) PROVE InGap(p, n + 1)
  <2>1. PICK j \in 1 .. n - 1 : p[j] = SLASH /\ \A k \in j + 1 .. n - 1 : p[k] \notin Good
    BY <1>3 DEF InGap
  <2>2. j \in 1 .. (n + 1) - 1 /\ \A k \in j + 1 .. (n + 1) - 1 : k \in j + 1 .. n - 1 \/ k = n
    BY <2>1
  <2>3. \A k \in j + 1 .. (n + 1) - 1 : p[k] \notin Good
    BY <1>3, <2>1, <2>2
  <2> QED BY <2>1, <2>2, <2>3 DEF InGap
<1> QED BY <1>1, <1>2, <1>3

LEMMA CharWritten ==
  ASSUME PathInv, Written, Char
  PROVE  Written'
<1>1. /\ curr \in 1 .. Len(buf) /\ curr' = curr + 1 /\ input' = input /\ buf[curr] = input[curr]
      /\ DOMAIN input = 1 .. Len(buf) /\ curr \in Nat \ {0}
  BY DEF Char, PathEnds, PathInv, PathOK, UnreadUntouched
<1>2. InGap(input, curr + 1) <=> input[curr] = SLASH \/ (input[curr] \notin Good /\ InGap(input, curr))
  BY <1>1, GapStep
<1>3. CASE buf[curr] \in Allowed
  <2>1. buf[curr] = SLASH => ~InGap(input, curr)
    <3>1. InGap(input, curr) => writing > 1 /\ Slash(writing - 1)
      BY DEF Written
    <3>2. curr <= Len(buf) /\ pc = "char"
      BY <1>1 DEF Char
    <3>3. writing > 1 /\ Slash(writing - 1) => ~Slash(curr)
      BY <3>2 DEF PathInv, AfterSlash
    <3> QED BY <3>1, <3>3 DEF Slash
  <2>2. curr \in First(input)
    BY <1>1, <1>3, <2>1 DEF First, Allowed
  <2>3. InGap(input, curr + 1) <=> buf[curr] = SLASH
    BY <1>1, <1>2, <1>3, CharsAssumption DEF Allowed
  <2> QED BY <1>1, <1>3, <2>2, <2>3, TakenOver DEF Char
<1>4. CASE buf[curr] \notin Allowed
  <2>1. curr \notin First(input) /\ (InGap(input, curr + 1) <=> InGap(input, curr))
    BY <1>1, <1>2, <1>4 DEF First, Allowed
  <2> QED BY <1>1, <1>4, <2>1, PassedOver DEF Char
<1> QED BY <1>3, <1>4

LEMMA SkipWritten ==
  ASSUME PathInv, Written, Skip
  PROVE  Written'
<1>1. /\ curr \in 1 .. Len(buf) /\ curr' = curr + 1 /\ buf[curr] = input[curr]
      /\ UNCHANGED <<input, buf, writing>> /\ curr \in Nat \ {0}
  BY DEF Skip, PathEnds, PathInv, PathOK, UnreadUntouched
<1>2. InGap(input, curr)
  BY DEF Written, PathInv, AfterSlash, Skip
<1>3. input[curr] = SLASH \/ input[curr] \notin Good
  BY <1>1 DEF Skip, Skipped, Allowed
<1>4. curr \notin First(input) /\ InGap(input, curr + 1)
  BY <1>1, <1>2, <1>3, GapStep, CharsAssumption DEF First
<1> QED BY <1>1, <1>2, <1>4, PassedOver

(* Of what the loops kept, Finish drops the slash that nothing follows.    *)
LEMMA FinishStays ==
  ASSUME PathInv, Written, Finish
  PROVE  Stays(input) = IF writing > 1 /\ Slash(writing - 1)
                          THEN {i \in Taken : \E j \in Taken : i < j} ELSE Taken
<1>1. /\ PathOK /\ Len(input) \in Nat /\ DOMAIN input = 1 .. Len(input) /\ curr > Len(input)
  BY DEF PathInv, PathOK, Finish, PathEnds
<1>2. /\ First(input) \subseteq 1 .. Len(input) /\ Stays(input) \subseteq First(input)
  BY <1>1, FirstFinite
<1>3. Taken = First(input)
  <2>1. \A i \in 1 .. Len(input) : i < curr
    BY <1>1 DEF PathOK
  <2> QED BY <1>2, <2>1 DEF Taken
<1>4. ASSUME NEW i \in First(input), NEW k \in First(input), i < k
      PROVE  i \in Stays(input)
  <2>0. i \in 1 .. Len(input) /\ k \in 1 .. Len(input)
    BY <1>2
  <2>1. CASE input[i] \in Good
    BY <1>1, <2>0, <2>1 DEF Stays
  <2>2. CASE input[i] = SLASH /\ ~InGap(input, i) /\ input[k] \in Good
    <3>1. k \in i + 1 .. Len(input)
      BY <1>4, <2>0
    <3> QED BY <1>1, <2>0, <2>2, <3>1 DEF Stays
  <2>3. CASE input[i] = SLASH /\ ~InGap(input, i) /\ ~InGap(input, k)
    <3>1. i \in 1 .. k - 1
      BY <1>4, <2>0
    <3>2. PICK g \in i + 1 .. k - 1 : input[g] \in Good
      BY <2>3, <3>1 DEF InGap
    <3>3. g \in i + 1 .. Len(input)
      BY <2>0, <3>2
    <3> QED BY <1>1, <2>0, <2>3, <3>2, <3>3 DEF Stays
  <2> QED BY <2>1, <2>2, <2>3 DEF First
<1>5. CASE Taken = {}
  BY <1>2, <1>3, <1>5
<1>6. CASE Taken # {}
  <2>1. writing > 1
    <3>1. IsFiniteSet(Taken) /\ Cardinality(Taken) \in Nat
      BY <1>1, FirstFinite
    <3>2. Cardinality(Taken) # 0
      BY <1>6, <3>1, FS_EmptySet
    <3> QED BY <1>1, <3>1, <3>2 DEF Written, PathOK
  <2>2. PICK l \in Taken : (\A j \in Taken : j <= l) /\ buf[writing - 1] = input[l]
    BY <2>1 DEF Written
  <2>3. l \in 1 .. Len(input) /\ Taken \subseteq 1 .. Len(input)
    BY <1>2, <1>3
  <2>4. ASSUME NEW i \in Taken, i # l PROVE i \in Stays(input) /\ i < l
    <3>1. i < l
      BY <2>2, <2>3, <2>4
    <3> QED BY <1>3, <1>4, <3>1
  <2>5. CASE Slash(writing - 1)
    <3>1. l \notin Stays(input)
      <4> SUFFICES ASSUME l \in Stays(input) PROVE FALSE
        OBVIOUS
      <4>1. input[l] = SLASH /\ SLASH \notin Good
        BY <2>2, <2>5, CharsAssumption DEF Slash
      <4>2. PICK k \in l + 1 .. Len(input) : input[k] \in Good
        BY <4>1 DEF Stays
      <4>3. k \in 1 .. Len(input) /\ ~(k <= l)
        BY <2>3, <4>2
      <4>4. k \in First(input)
        BY <1>1, <4>2, <4>3 DEF First
      <4> QED BY <1>3, <2>2, <4>3, <4>4
    <3>2. \A i \in Taken : (\E j \in Taken : i < j) <=> i # l
      BY <2>2, <2>3, <2>4
    <3> QED BY <1>2, <1>3, <2>1, <2>4, <2>5, <3>1, <3>2
  <2>6. CASE ~Slash(writing - 1)
    <3>1. input[l] \in Good
      BY <1>3, <2>2, <2>6 DEF First, Slash
    <3>2. l \in Stays(input)
      BY <1>1, <2>3, <3>1 DEF Stays
    <3>3. \A i \in Taken : i \in Stays(input)
      BY <2>4, <3>2
    <3>4. Stays(input) = Taken
      BY <1>2, <1>3, <3>3
    <3> QED BY <2>6, <3>4
  <2> QED BY <2>5, <2>6
<1> QED BY <1>5, <1>6

(* What is then written is what stays, each at its place.                  *)
LEMMA FinishCleans ==
  ASSUME PathInv, Written, Finish
  PROVE  CleansTo(input, Path)'
<1>1. /\ PathOK /\ writing \in 1 .. Len(buf) + 1 /\ buf \in Seq(Chars) /\ Len(buf) \in Nat
      /\ input' = input /\ buf' = buf
  BY DEF PathInv, PathOK, Finish
<1>2. PICK T : T = Taken /\ T \subseteq 1 .. Len(input) /\ IsFiniteSet(T) /\ Cardinality(T) = writing - 1
  BY <1>1, FirstFinite DEF Written
<1>3. PICK S : S = Stays(input)
  OBVIOUS
<1>4. /\ Cardinality(S) = writing' - 1 /\ S \subseteq T
      /\ \A i \in S : UpTo(S, i) = UpTo(T, i)
  <2>1. CASE writing > 1 /\ Slash(writing - 1)
    <3>1. PICK l \in T : \A j \in T : j <= l
      BY <1>2, <2>1 DEF Written
    <3>2. S = T \ {l}
      <4>1. S = {i \in T : \E j \in T : i < j}
        BY <1>2, <1>3, <2>1, FinishStays
      <4>2. \A i \in T : (\E j \in T : i < j) <=> i # l
        BY <1>2, <3>1
      <4> QED BY <4>1, <4>2
    <3>3. writing' = writing - 1
      BY <2>1 DEF Finish, Trailing, Slash
    <3>4. Cardinality(S) = Cardinality(T) - 1
      BY <1>2, <3>1, <3>2, FS_RemoveElement, Zenon
    <3>5. Cardinality(S) = writing' - 1
      BY <1>1, <1>2, <3>3, <3>4
    <3>6. \A i \in S : ~(l <= i)
      BY <1>2, <3>1, <3>2
    <3>7. \A i \in S : UpTo(S, i) = UpTo(T, i)
      BY <3>2, <3>6 DEF UpTo
    <3> QED BY <3>2, <3>5, <3>7
  <2>2. CASE ~(writing > 1 /\ Slash(writing - 1))
    <3>1. S = T
      BY <1>2, <1>3, <2>2, FinishStays
    <3>2. writing' = writing
      BY <2>2 DEF Finish, Trailing, Slash
    <3> QED BY <1>2, <3>1, <3>2
  <2> QED BY <2>1, <2>2
<1>5. writing' \in 1 .. writing /\ writing' - 1 \in Nat /\ writing' - 1 <= Len(buf)
  BY <1>1 DEF Finish, Trailing
<1>6. /\ Path' = SubSeq(buf, 1, writing' - 1) /\ Len(Path') = writing' - 1
      /\ \A k \in 1 .. writing' - 1 : Path'[k] = buf[k]
  <2>1. Path' = SubSeq(buf, 1, writing' - 1)
    BY <1>1 DEF Path
  <2>2. PICK m \in Nat : m = writing' - 1 /\ m <= Len(buf)
    BY <1>5
  <2>3. Len(SubSeq(buf, 1, m)) = m /\ \A k \in 1 .. m : SubSeq(buf, 1, m)[k] = buf[k]
    BY <1>1, <2>2
  <2> QED BY <2>1, <2>2, <2>3
<1>7. ASSUME NEW i \in S
      PROVE  Path'[Cardinality(UpTo(S, i))] = input[i]
  <2>1. PICK r : r = Cardinality(UpTo(S, i)) /\ r \in 1 .. writing - 1 /\ buf[r] = input[i]
    BY <1>2, <1>4, <1>7 DEF Written
  <2>2. r <= Cardinality(S)
    <3>1. IsFiniteSet(S) /\ UpTo(S, i) \in SUBSET S
      BY <1>2, <1>4, FS_Subset DEF UpTo
    <3> QED BY <2>1, <3>1, FS_Subset, Zenon
  <2>3. r \in 1 .. writing' - 1
    BY <1>4, <1>5, <2>1, <2>2
  <2> QED BY <1>6, <2>1, <2>3
<1>8. Stays(input)' = S
  BY <1>1, <1>3 DEF Stays, InGap
<1>9. Len(Path') = Cardinality(S)
  BY <1>4, <1>6
<1>10. \A i \in S : Path'[Cardinality({j \in S : j <= i})] = input'[i]
  BY <1>1, <1>7 DEF UpTo
<1> QED BY <1>8, <1>9, <1>10, Zenon DEF CleansTo

(* In a clean path every slash stands alone before a good character.       *)
LEMMA CleanStays ==
  ASSUME PathInv, pc = "done"
  PROVE  Stays(Path) = DOMAIN Path
<1>1. PICK m \in Nat : m = writing - 1 /\ m <= Len(buf)
  BY DEF PathInv, PathOK
<1>2. PICK p : p = Path
  OBVIOUS
<1>3. DOMAIN p = 1 .. m /\ Len(p) = m /\ \A k \in 1 .. m : p[k] = buf[k]
  BY <1>1, <1>2 DEF Path, PathInv, PathOK
<1>4. /\ \A k \in 1 .. m : p[k] \in Good \/ p[k] = SLASH
      /\ \A k \in 1 .. m - 1 : p[k] = SLASH => p[k + 1] # SLASH
      /\ m > 0 => p[m] # SLASH
  <2>1. \A k \in 1 .. m : p[k] \in Good \/ p[k] = SLASH
    BY <1>1, <1>3 DEF PathInv, WrittenClean, Allowed
  <2>2. ASSUME NEW k \in 1 .. m - 1, p[k] = SLASH PROVE p[k + 1] # SLASH
    <3>1. k \in 1 .. writing - 2 /\ k \in 1 .. m /\ k + 1 \in 1 .. m
      BY <1>1 DEF PathInv, PathOK
    <3>2. ~(Slash(k) /\ Slash(k + 1))
      BY <3>1 DEF PathInv, WrittenClean
    <3> QED BY <1>3, <2>2, <3>1, <3>2 DEF Slash
  <2>3. m > 0 => p[m] # SLASH
    <3>1. m > 0 => m \in 1 .. m /\ writing > 1
      BY <1>1 DEF PathInv, PathOK
    <3> QED BY <1>1, <1>3, <3>1 DEF PathInv, AfterSlash, Slash
  <2> QED BY <2>1, <2>2, <2>3
<1>5. ASSUME NEW i \in 1 .. m, p[i] \notin Good
      PROVE  p[i] = SLASH /\ ~InGap(p, i) /\ \E k \in i + 1 .. Len(p) : p[k] \in Good
  <2>1. p[i] = SLASH /\ i # m
    BY <1>4, <1>5
  <2>2. i \in 1 .. m - 1 /\ i + 1 \in 1 .. m /\ i + 1 \in i + 1 .. Len(p)
    BY <1>3, <2>1
  <2>3. p[i + 1] \in Good
    BY <1>4, <2>1, <2>2
  <2>4. ~InGap(p, i)
    <3> SUFFICES ASSUME NEW j \in 1 .. i - 1, p[j] = SLASH,
                        \A k \in j + 1 .. i - 1 : p[k] \notin Good
                 PROVE  FALSE
      BY DEF InGap
    <3>1. j \in 1 .. m - 1 /\ j + 1 \in 1 .. m /\ (j + 1 = i \/ j + 1 \in j + 1 .. i - 1)
      OBVIOUS
    <3>2. p[j + 1] \in Good
      BY <1>4, <3>1
    <3> QED BY <1>5, <3>1, <3>2
  <2> QED BY <2>1, <2>2, <2>3, <2>4
<1>6. Stays(p) = DOMAIN p
  BY <1>3, <1>5 DEF Stays
<1> QED BY <1>2, <1>6

LEMMA WrittenStep == WrittenInv /\ [PathNext]_pathVars => WrittenInv'
<1> SUFFICES ASSUME WrittenInv, [PathNext]_pathVars PROVE WrittenInv'
  OBVIOUS
<1>0. PathInv /\ PathInv'
  BY PathStepInv DEF WrittenInv
<1>1. CASE Char \/ Skip
  <2>1. pc # "done" /\ pc' # "done"
    BY <1>1 DEF Char, Skip
  <2> QED BY <1>1, <1>0, <2>1, CharWritten, SkipWritten DEF WrittenInv
<1>2. CASE SkipEnd
  <2>1. pc # "done" /\ pc' # "done" /\ UNCHANGED <<input, buf, curr, writing>>
    BY <1>2 DEF SkipEnd
  <2>2. Written'
    BY <2>1 DEF WrittenInv, Written, Taken, First, InGap, UpTo, Slash
  <2> QED BY <1>0, <2>1, <2>2 DEF WrittenInv
<1>3. CASE Finish
  <2>1. pc # "done" /\ pc' = "done"
    BY <1>3 DEF Finish
  <2>2. CleansTo(input, Path)'
    BY <1>0, <1>3, <2>1, FinishCleans DEF WrittenInv
  <2> QED BY <1>0, <2>1, <2>2 DEF WrittenInv
<1>4. CASE UNCHANGED pathVars
  <2>1. /\ UNCHANGED <<input, buf, curr, writing, pc>> /\ Path' = Path
        /\ Stays(input)' = Stays(input) /\ Taken' = Taken
    BY <1>4 DEF pathVars, Path, Stays, InGap, Taken, First
  <2>2. CleansTo(input, Path) => CleansTo(input, Path)'
    BY <2>1 DEF CleansTo
  <2>3. Written => Written'
    BY <2>1 DEF Written, InGap, UpTo, Slash
  <2> QED BY <1>0, <2>1, <2>2, <2>3 DEF WrittenInv
<1> QED BY <1>1, <1>2, <1>3, <1>4 DEF PathNext

LEMMA WrittenCleans == WrittenInv => CleansAsDefined
  BY CleanStays DEF WrittenInv, CleansAsDefined

(* The loops keep what the reference keeps, in its order, and no more than *)
(* a slash that nothing follows: the inductive invariant of                *)
(* evs_clean_path, for every path.                                         *)
THEOREM WrittenInvariance == PathSpec => []WrittenInv
  BY WrittenInit, WrittenStep, PTL DEF PathSpec

(* evs_clean_path loses nothing that it should keep: in place, in one      *)
(* pass, it gives the path that the reference gives, and cleaning that     *)
(* path again would leave it as it is.                                     *)
THEOREM CleanedAsDefined == PathSpec => []CleansAsDefined
  BY WrittenCleans, WrittenInvariance, PTL

-----------------------------------------------------------------------------
(* _decode of protocols_rfc6455.c                                          *)

(* Each loop starts and ends on a multiple of its step, so that the mask   *)
(* starts over with each step, and no step reaches past the payload.       *)
Aligned ==
  /\ pass = 16 => at % 16 = 0
  /\ pass = 8 => at % 8 = 0
  /\ pass = 0 => at = len
  /\ status # "decoding" => pass = 0

FrameInv == FrameOK /\ DecodedInPlace /\ Aligned

(* A step of w bytes from a multiple of w, below the last one, fits.       *)
LEMMA StepFits ==
  ASSUME NEW w \in {16, 8, 1}, NEW a \in Nat, NEW n \in Nat,
         a % w = 0, a < n - (n % w)
  PROVE  a + w <= n /\ (a + w) % w = 0
<1>1. CASE w = 16
  BY <1>1
<1>2. CASE w = 8
  BY <1>2
<1>3. CASE w = 1
  BY <1>3
<1> QED BY <1>1, <1>2, <1>3

(* The mask of a step is the mask of the payload.                          *)
LEMMA MaskOfStep ==
  ASSUME NEW w \in {16, 8, 1}, at \in Nat, at % w = 0,
         NEW p \in at .. at + w - 1
  PROVE  MaskByte(w, p) = p % 4
<1>1. CASE w = 16
  BY <1>1 DEF MaskByte
<1>2. CASE w = 8
  BY <1>2 DEF MaskByte
<1>3. CASE w = 1
  BY <1>3 DEF MaskByte
<1> QED BY <1>1, <1>2, <1>3

LEMMA XorWire ==
  ASSUME NEW p, NEW m
  PROVE  Xor(Wire(p), m) = [from |-> p, by |-> {m}]
<1>1. ({} \cup {m}) \ ({} \cap {m}) = {m}
  OBVIOUS
<1> QED BY <1>1 DEF Xor, Wire

LEMMA FrameInitInv == FrameInit => FrameInv
<1> SUFFICES ASSUME FrameInit PROVE FrameInv
  OBVIOUS
<1>1. FrameOK
  BY LensAssumption DEF FrameInit, FrameOK
<1>2. DecodedInPlace
  BY <1>1 DEF FrameInit, DecodedInPlace, FrameOK
<1>3. Aligned
  BY DEF FrameInit, Aligned
<1> QED BY <1>1, <1>2, <1>3 DEF FrameInv

LEMMA UnmaskInv ==
  ASSUME NEW w \in {16, 8, 1}, FrameInv, Unmask(w)
  PROVE  FrameInv'
<1>1. /\ at \in Nat /\ len \in Nat /\ header_len \in {6, 8, 14} /\ Behind \in Nat
      /\ DOMAIN rbuff = 0 .. header_len + len + Behind
      /\ at % w = 0 /\ at < len - (len % w) /\ pass = w
  BY BehindAssumption DEF FrameInv, FrameOK, Aligned, Unmask, Whole
<1>2. at + w <= len /\ (at + w) % w = 0
  BY <1>1, StepFits
<1>3. /\ at' = at + w /\ len' = len /\ header_len' = header_len
      /\ pass' = pass /\ status' = status
      /\ DOMAIN rbuff' = DOMAIN rbuff
      /\ \A p \in DOMAIN rbuff :
           rbuff'[p] = IF p \in at .. at + w - 1
                         THEN Xor(rbuff[header_len + p], MaskByte(w, p)) ELSE rbuff[p]
  BY DEF Unmask
<1>4. FrameOK'
  BY <1>1, <1>2, <1>3 DEF FrameInv, FrameOK
<1>5. DecodedInPlace'
  <2>1. ASSUME NEW p \in 0 .. at' - 1
        PROVE  rbuff'[p] = [from |-> header_len + p, by |-> {p % 4}]
    <3>1. p \in DOMAIN rbuff
      BY <1>1, <1>2, <1>3, SMTT(30)
    <3>2. CASE p \in 0 .. at - 1
      <4>1. rbuff'[p] = rbuff[p]
        BY <1>1, <1>3, <3>1, <3>2
      <4> QED BY <4>1, <3>2 DEF FrameInv, DecodedInPlace
    <3>3. CASE p \in at .. at + w - 1
      <4>1. header_len + p \in DOMAIN rbuff /\ header_len + p >= header_len + at
        BY <1>1, <1>2, <3>3
      <4>2. rbuff[header_len + p] = Wire(header_len + p)
        BY <4>1 DEF FrameInv, DecodedInPlace
      <4>3. rbuff'[p] = Xor(Wire(header_len + p), p % 4)
        BY <1>1, <1>3, <3>1, <3>3, <4>2, MaskOfStep
      <4> QED BY <4>3, XorWire
    <3> QED BY <1>1, <1>3, <3>2, <3>3
  <2>2. ASSUME NEW p \in DOMAIN rbuff,
               p >= header_len + at' \/ p >= header_len + len
        PROVE  rbuff'[p] = Wire(p)
    <3>0. p \in Nat /\ header_len \in Nat /\ header_len > 0 /\ w \in Nat /\ at \in Nat
          /\ len \in Nat /\ at' = at + w /\ at + w <= len
      BY <1>1, <1>2, <1>3
    <3>1. p >= header_len + at /\ p \notin at .. at + w - 1
      <4>1. CASE p >= header_len + at'
        BY <4>1, <3>0
      <4>2. CASE p >= header_len + len
        BY <4>2, <3>0
      <4> QED BY <4>1, <4>2, <2>2
    <3>2. rbuff[p] = Wire(p)
      BY <3>1 DEF FrameInv, DecodedInPlace
    <3> QED BY <1>3, <3>0, <3>1, <3>2
  <2>3. status' = "decoding"
    BY <1>1, <1>3 DEF FrameInv, FrameOK, Aligned
  <2> QED BY <1>3, <2>1, <2>2, <2>3 DEF DecodedInPlace
<1>6. Aligned'
  BY <1>1, <1>2, <1>3 DEF FrameInv, Aligned
<1> QED BY <1>4, <1>5, <1>6 DEF FrameInv

LEMMA NextPassInv ==
  ASSUME NEW w \in {16, 8, 1}, NEW n \in {8, 1, 0},
         <<w, n>> \in {<<16, 8>>, <<8, 1>>, <<1, 0>>},
         FrameInv, NextPass(w, n)
  PROVE  FrameInv'
<1>1. at' = at /\ len' = len /\ header_len' = header_len /\ rbuff' = rbuff
      /\ status' = status /\ pass = w /\ pass' = n
  BY DEF NextPass
<1>2. FrameOK' /\ DecodedInPlace'
  BY <1>1 DEF FrameInv, FrameOK, DecodedInPlace, Wire
<1>3. Aligned'
  BY <1>1 DEF FrameInv, Aligned, FrameOK, NextPass, Whole
<1> QED BY <1>2, <1>3 DEF FrameInv

LEMMA TerminateInv == FrameInv /\ Terminate => FrameInv'
<1> SUFFICES ASSUME FrameInv, Terminate PROVE FrameInv'
  OBVIOUS
<1>1. /\ at = len /\ len \in Nat /\ header_len \in {6, 8, 14} /\ Behind \in Nat
      /\ DOMAIN rbuff = 0 .. header_len + len + Behind
      /\ at' = at /\ len' = len /\ header_len' = header_len /\ pass' = 0 /\ pass = 0
      /\ status' \in {"OK", "FATAL"}
      /\ rbuff' = [rbuff EXCEPT ![len] = NUL]
  BY BehindAssumption DEF FrameInv, FrameOK, Aligned, Terminate
<1>2. /\ DOMAIN rbuff' = DOMAIN rbuff /\ rbuff'[len] = NUL
      /\ \A p \in DOMAIN rbuff : p # len => rbuff'[p] = rbuff[p]
  BY <1>1
<1>3. FrameOK'
  BY <1>1, <1>2 DEF FrameInv, FrameOK
<1>4. DecodedInPlace'
  <2>1. ASSUME NEW p \in 0 .. at - 1
        PROVE  rbuff'[p] = [from |-> header_len + p, by |-> {p % 4}]
    <3>1. p \in DOMAIN rbuff /\ p # len
      BY <1>1
    <3> QED BY <3>1, <1>2 DEF FrameInv, DecodedInPlace
  <2>2. ASSUME NEW p \in DOMAIN rbuff, p >= header_len + len
        PROVE  rbuff'[p] = Wire(p)
    <3>1. p # len
      BY <1>1, <2>2
    <3> QED BY <3>1, <2>2, <1>2 DEF FrameInv, DecodedInPlace
  <2> QED BY <1>1, <1>2, <2>1, <2>2 DEF DecodedInPlace
<1>5. Aligned'
  BY <1>1 DEF Aligned
<1> QED BY <1>3, <1>4, <1>5 DEF FrameInv

LEMMA WriteInv == ASSUME NEW frame, FrameInv, Write(frame) PROVE FrameInv'
  BY DEF FrameInv, FrameOK, DecodedInPlace, Aligned, Write, Wire

LEMMA FrameStepInv == FrameInv /\ [FrameNext]_frameVars => FrameInv'
<1> SUFFICES ASSUME FrameInv, [FrameNext]_frameVars PROVE FrameInv'
  OBVIOUS
<1>1. CASE Unmask(16) \/ Unmask(8) \/ Unmask(1)
  BY <1>1, UnmaskInv
<1>2. CASE NextPass(16, 8) \/ NextPass(8, 1) \/ NextPass(1, 0)
  BY <1>2, NextPassInv
<1>3. CASE Terminate
  BY <1>3, TerminateInv
<1>4. CASE \/ \E n \in OutLens : WriteEvent(n)
           \/ \E r \in DOMAIN CloseFrame : WriteClose(r)
           \/ \E r \in DOMAIN TextFrame : WriteText(r)
  <2>1. PICK frame : Write(frame)
    BY <1>4, Zenon DEF WriteEvent, WriteClose, WriteText
  <2> QED BY <2>1, WriteInv
<1>5. CASE UNCHANGED frameVars
  BY <1>5 DEF frameVars, FrameInv, FrameOK, DecodedInPlace, Aligned, Wire
<1> QED BY <1>1, <1>2, <1>3, <1>4, <1>5 DEF FrameNext

(* Where _decode's loops stand when they take up: the inductive invariant. *)
THEOREM FrameInvariance == FrameSpec => []FrameInv
  BY FrameInitInv, FrameStepInv, PTL DEF FrameSpec

(* Whatever its length, a payload that _decode moves over its own header   *)
(* is unmasked byte by byte with the right bytes of the mask, and neither  *)
(* what is still to be read nor the next frame is overwritten.             *)
THEOREM DecodesInPlace == FrameSpec => []DecodedInPlace
<1>1. FrameInv => DecodedInPlace
  BY DEF FrameInv
<1> QED BY <1>1, FrameInvariance, PTL

-----------------------------------------------------------------------------
(* protocol_rfc6455_frame and protocol_rfc6455_close                       *)

LEMMA DivMod ==
  ASSUME NEW n \in Nat
  PROVE  /\ n \div 256 \in Nat /\ n = (n \div 256) * 256 + (n % 256)
         /\ n % 256 \in Nat /\ n % 256 < 256
         /\ n \div 65536 \in Nat /\ n = (n \div 65536) * 65536 + (n % 65536)
         /\ n % 65536 \in Nat /\ n % 65536 < 65536
  OBVIOUS

LEMMA WordIsRead ==
  ASSUME NEW n \in Nat
  PROVE  /\ Hi(n) \in Nat /\ Lo(n) \in Nat /\ Word(Hi(n), Lo(n)) = n % 65536
         /\ n = (n \div 65536) * 65536 + Word(Hi(n), Lo(n)) /\ n \div 65536 \in Nat
<1>1. PICK a \in Nat, b \in Nat, c \in Nat : b < 256 /\ c < 256 /\ n = (a * 256 + b) * 256 + c
  <2>1. n \div 256 = (((n \div 256) \div 256) * 256) + ((n \div 256) % 256)
    BY DivMod
  <2>2. n = ((((n \div 256) \div 256) * 256) + ((n \div 256) % 256)) * 256 + (n % 256)
    BY <2>1, DivMod
  <2>3. /\ (n \div 256) \div 256 \in Nat /\ (n \div 256) % 256 \in Nat /\ n % 256 \in Nat
        /\ (n \div 256) % 256 < 256 /\ n % 256 < 256
    BY DivMod
  <2> QED BY <2>2, <2>3
<1>2. n % 256 = c /\ n \div 256 = a * 256 + b
  BY <1>1
<1>3. (n \div 256) % 256 = b
  BY <1>1, <1>2
<1>4. n % 65536 = b * 256 + c
  BY <1>1
<1>5. Hi(n) = b /\ Lo(n) = c
  BY <1>2, <1>3 DEF Hi, Lo
<1>6. Word(Hi(n), Lo(n)) = n % 65536
  BY <1>4, <1>5 DEF Word
<1> QED BY <1>1, <1>5, <1>6, DivMod

LEMMA LongIsRead ==
  ASSUME NEW n \in Nat, (((n \div 65536) \div 65536) \div 65536) \div 65536 = 0
  PROVE  Len(Long(n)) = 9 /\ Long(n)[1] = 127 /\ ReadLength(Long(n)) = n
<1>1. PICK m \in Nat : m = n \div 65536 /\ n = m * 65536 + Word(Hi(n), Lo(n))
  BY WordIsRead
<1>2. PICK k \in Nat : k = m \div 65536 /\ m = k * 65536 + Word(Hi(m), Lo(m))
  BY WordIsRead
<1>3. PICK j \in Nat : j = k \div 65536 /\ k = j * 65536 + Word(Hi(k), Lo(k))
  BY WordIsRead
<1>4. j = Word(Hi(j), Lo(j))
  <2>1. j \div 65536 = 0
    BY <1>1, <1>2, <1>3
  <2> QED BY <2>1, WordIsRead
<1>5. Long(n) = <<127, Hi(j), Lo(j), Hi(k), Lo(k), Hi(m), Lo(m), Hi(n), Lo(n)>>
  BY <1>1, <1>2, <1>3 DEF Long
<1>6. ReadLength(Long(n)) =
        ((Word(Hi(j), Lo(j)) * 65536 + Word(Hi(k), Lo(k))) * 65536 + Word(Hi(m), Lo(m))) * 65536
          + Word(Hi(n), Lo(n))
  BY <1>5 DEF ReadLength
<1> QED BY <1>1, <1>2, <1>3, <1>4, <1>5, <1>6

(* The length that protocol_rfc6455_frame writes is the one it was given.  *)
LEMMA LengthIsRead ==
  ASSUME NEW n \in OutLens
  PROVE  /\ LengthSize(LengthBytes(n)[1]) = Len(LengthBytes(n))
         /\ ReadLength(LengthBytes(n)) = n
<1>1. n \in Nat /\ (((n \div 65536) \div 65536) \div 65536) \div 65536 = 0
  BY OutLensAssumption
<1>2. CASE n <= 125
  BY <1>1, <1>2 DEF LengthBytes, LengthSize, ReadLength
<1>3. CASE ~(n <= 125) /\ n <= 65535
  <2>1. LengthBytes(n) = <<126, Hi(n), Lo(n)>>
    BY <1>3 DEF LengthBytes, Medium
  <2>2. Word(Hi(n), Lo(n)) = n
    <3>1. n % 65536 = n
      BY <1>1, <1>3
    <3> QED BY <1>1, <3>1, WordIsRead
  <2> QED BY <2>1, <2>2 DEF LengthSize, ReadLength
<1>4. CASE ~(n <= 125) /\ ~(n <= 65535)
  <2>1. LengthBytes(n) = Long(n)
    BY <1>4 DEF LengthBytes
  <2>2. LengthSize(127) = 9
    BY DEF LengthSize
  <2>3. Len(Long(n)) = 9 /\ Long(n)[1] = 127 /\ ReadLength(Long(n)) = n
    BY <1>1, LongIsRead
  <2> QED BY <2>1, <2>2, <2>3
<1> QED BY <1>2, <1>3, <1>4

CountsClose(f) ==
  /\ f.len \in Nat /\ f.len <= 125
  /\ f.len = (IF f.code = 0 THEN 0 ELSE 2) + Len(f.text)
  /\ f.wrote = f.len + 2
CountsText(f) == f.len \in Nat /\ f.len <= 125 /\ f.len = Len(f.text)

LEMMA CloseAgrees ==
  ASSUME NEW r \in DOMAIN CloseFrame
  PROVE  CountsClose(CloseFrame[r])
<1>1. r \in {"exiting", "handshake", "format", "mask", "opcode", "utf8", "timeout", "memory", "other"}
  BY DEF CloseFrame
<1>2. CASE r = "exiting"
  <2>1. CloseFrame[r] = [len |-> 2, code |-> 1001, text |-> "", wrote |-> 4]
    BY <1>2 DEF CloseFrame
  <2>2. PICK f : f = CloseFrame[r]
    OBVIOUS
  <2>3. f = [len |-> 2, code |-> 1001, text |-> "", wrote |-> 4]
    BY <2>1, <2>2
  <2>4. f.len = 2 /\ f.code = 1001 /\ f.wrote = 4
    BY <2>3
  <2>5. f.text = ""
    BY <2>3
  <2>6. Len(f.text) = 0
    BY <2>5, TextsAssumption, Zenon
  <2>7. CountsClose(f)
    BY <2>4, <2>6 DEF CountsClose
  <2> QED BY <2>2, <2>7
<1>3. CASE r = "handshake"
  <2>1. CloseFrame[r] = [len |-> 19, code |-> 1002, text |-> "invalid handshake", wrote |-> 21]
    BY <1>3 DEF CloseFrame
  <2>2. PICK f : f = CloseFrame[r]
    OBVIOUS
  <2>3. f = [len |-> 19, code |-> 1002, text |-> "invalid handshake", wrote |-> 21]
    BY <2>1, <2>2
  <2>4. f.len = 19 /\ f.code = 1002 /\ f.wrote = 21
    BY <2>3
  <2>5. f.text = "invalid handshake"
    BY <2>3
  <2>6. Len(f.text) = 17
    BY <2>5, TextsAssumption, Zenon
  <2>7. CountsClose(f)
    BY <2>4, <2>6 DEF CountsClose
  <2> QED BY <2>2, <2>7
<1>4. CASE r = "format"
  <2>1. CloseFrame[r] = [len |-> 22, code |-> 1002, text |-> "invalid event format", wrote |-> 24]
    BY <1>4 DEF CloseFrame
  <2>2. PICK f : f = CloseFrame[r]
    OBVIOUS
  <2>3. f = [len |-> 22, code |-> 1002, text |-> "invalid event format", wrote |-> 24]
    BY <2>1, <2>2
  <2>4. f.len = 22 /\ f.code = 1002 /\ f.wrote = 24
    BY <2>3
  <2>5. f.text = "invalid event format"
    BY <2>3
  <2>6. Len(f.text) = 20
    BY <2>5, TextsAssumption, Zenon
  <2>7. CountsClose(f)
    BY <2>4, <2>6 DEF CountsClose
  <2> QED BY <2>2, <2>7
<1>5. CASE r = "mask"
  <2>1. CloseFrame[r] = [len |-> 23, code |-> 1002, text |-> "client must mask data", wrote |-> 25]
    BY <1>5 DEF CloseFrame
  <2>2. PICK f : f = CloseFrame[r]
    OBVIOUS
  <2>3. f = [len |-> 23, code |-> 1002, text |-> "client must mask data", wrote |-> 25]
    BY <2>1, <2>2
  <2>4. f.len = 23 /\ f.code = 1002 /\ f.wrote = 25
    BY <2>3
  <2>5. f.text = "client must mask data"
    BY <2>3
  <2>6. Len(f.text) = 21
    BY <2>5, TextsAssumption, Zenon
  <2>7. CountsClose(f)
    BY <2>4, <2>6 DEF CountsClose
  <2> QED BY <2>2, <2>7
<1>6. CASE r = "opcode"
  <2>1. CloseFrame[r] = [len |-> 2, code |-> 1003, text |-> "", wrote |-> 4]
    BY <1>6 DEF CloseFrame
  <2>2. PICK f : f = CloseFrame[r]
    OBVIOUS
  <2>3. f = [len |-> 2, code |-> 1003, text |-> "", wrote |-> 4]
    BY <2>1, <2>2
  <2>4. f.len = 2 /\ f.code = 1003 /\ f.wrote = 4
    BY <2>3
  <2>5. f.text = ""
    BY <2>3
  <2>6. Len(f.text) = 0
    BY <2>5, TextsAssumption, Zenon
  <2>7. CountsClose(f)
    BY <2>4, <2>6 DEF CountsClose
  <2> QED BY <2>2, <2>7
<1>7. CASE r = "utf8"
  <2>1. CloseFrame[r] = [len |-> 2, code |-> 1007, text |-> "", wrote |-> 4]
    BY <1>7 DEF CloseFrame
  <2>2. PICK f : f = CloseFrame[r]
    OBVIOUS
  <2>3. f = [len |-> 2, code |-> 1007, text |-> "", wrote |-> 4]
    BY <2>1, <2>2
  <2>4. f.len = 2 /\ f.code = 1007 /\ f.wrote = 4
    BY <2>3
  <2>5. f.text = ""
    BY <2>3
  <2>6. Len(f.text) = 0
    BY <2>5, TextsAssumption, Zenon
  <2>7. CountsClose(f)
    BY <2>4, <2>6 DEF CountsClose
  <2> QED BY <2>2, <2>7
<1>8. CASE r = "timeout"
  <2>1. CloseFrame[r] = [len |-> 16, code |-> 1008, text |-> "client timeout", wrote |-> 18]
    BY <1>8 DEF CloseFrame
  <2>2. PICK f : f = CloseFrame[r]
    OBVIOUS
  <2>3. f = [len |-> 16, code |-> 1008, text |-> "client timeout", wrote |-> 18]
    BY <2>1, <2>2
  <2>4. f.len = 16 /\ f.code = 1008 /\ f.wrote = 18
    BY <2>3
  <2>5. f.text = "client timeout"
    BY <2>3
  <2>6. Len(f.text) = 14
    BY <2>5, TextsAssumption, Zenon
  <2>7. CountsClose(f)
    BY <2>4, <2>6 DEF CountsClose
  <2> QED BY <2>2, <2>7
<1>9. CASE r = "memory"
  <2>1. CloseFrame[r] = [len |-> 2, code |-> 1009, text |-> "", wrote |-> 4]
    BY <1>9 DEF CloseFrame
  <2>2. PICK f : f = CloseFrame[r]
    OBVIOUS
  <2>3. f = [len |-> 2, code |-> 1009, text |-> "", wrote |-> 4]
    BY <2>1, <2>2
  <2>4. f.len = 2 /\ f.code = 1009 /\ f.wrote = 4
    BY <2>3
  <2>5. f.text = ""
    BY <2>3
  <2>6. Len(f.text) = 0
    BY <2>5, TextsAssumption, Zenon
  <2>7. CountsClose(f)
    BY <2>4, <2>6 DEF CountsClose
  <2> QED BY <2>2, <2>7
<1>10. CASE r = "other"
  <2>1. CloseFrame[r] = [len |-> 0, code |-> 0, text |-> "", wrote |-> 2]
    BY <1>10 DEF CloseFrame
  <2>2. PICK f : f = CloseFrame[r]
    OBVIOUS
  <2>3. f = [len |-> 0, code |-> 0, text |-> "", wrote |-> 2]
    BY <2>1, <2>2
  <2>4. f.len = 0 /\ f.code = 0 /\ f.wrote = 2
    BY <2>3
  <2>5. f.text = ""
    BY <2>3
  <2>6. Len(f.text) = 0
    BY <2>5, TextsAssumption, Zenon
  <2>7. CountsClose(f)
    BY <2>4, <2>6 DEF CountsClose
  <2> QED BY <2>2, <2>7
<1> QED BY <1>1, <1>2, <1>3, <1>4, <1>5, <1>6, <1>7, <1>8, <1>9, <1>10

LEMMA TextAgrees ==
  ASSUME NEW r \in DOMAIN TextFrame
  PROVE  CountsText(TextFrame[r])
<1>1. r \in {"ohai", "heartbeat"}
  BY DEF TextFrame
<1>2. CASE r = "ohai"
  <2>1. PICK f : f = TextFrame[r]
    OBVIOUS
  <2>2. f.len = 9 /\ f.text = "/qio/ohai"
    BY <1>2, <2>1 DEF TextFrame
  <2>3. Len(f.text) = 9
    BY <2>2, TextsAssumption, Zenon
  <2> QED BY <2>1, <2>2, <2>3 DEF CountsText
<1>3. CASE r = "heartbeat"
  <2>1. PICK f : f = TextFrame[r]
    OBVIOUS
  <2>2. f.len = 21 /\ f.text = "/qio/heartbeat:0=null"
    BY <1>3, <2>1 DEF TextFrame
  <2>3. Len(f.text) = 21
    BY <2>2, TextsAssumption, Zenon
  <2> QED BY <2>1, <2>2, <2>3 DEF CountsText
<1> QED BY <1>1, <1>2, <1>3

LEMMA NothingWritten == out = NoOut => FramesAgree
  BY DEF FramesAgree, NoOut, LengthSize, ReadLength

LEMMA FramesInit == FrameInit => FramesAgree
  BY NothingWritten DEF FrameInit

LEMMA ShortAgrees ==
  ASSUME NEW n \in Nat, n <= 125, NEW w, w = n + 2, out' = [length |-> <<n>>, payload |-> n, wrote |-> w]
  PROVE  FramesAgree'
  BY DEF FramesAgree, LengthSize, ReadLength

LEMMA FramesStep == FramesAgree /\ [FrameNext]_frameVars => FramesAgree'
<1> SUFFICES ASSUME FramesAgree, [FrameNext]_frameVars PROVE FramesAgree'
  OBVIOUS
<1>1. CASE UNCHANGED out
  BY <1>1 DEF FramesAgree
<1>2. CASE \E n \in OutLens : WriteEvent(n)
  <2>1. PICK n \in OutLens : WriteEvent(n)
    BY <1>2
  <2>2. /\ out'.length = LengthBytes(n) /\ out'.payload = n
        /\ out'.wrote = 1 + Len(LengthBytes(n)) + n
    BY <2>1 DEF WriteEvent, Write
  <2> QED BY <2>2, LengthIsRead DEF FramesAgree
<1>3. CASE \E r \in DOMAIN CloseFrame : WriteClose(r)
  <2>1. PICK r \in DOMAIN CloseFrame : WriteClose(r)
    BY <1>3
  <2>2. PICK f : f = CloseFrame[r]
    OBVIOUS
  <2>3. /\ f.len \in Nat /\ f.len <= 125 /\ f.wrote = f.len + 2
        /\ f.len = (IF f.code = 0 THEN 0 ELSE 2) + Len(f.text)
    BY <2>2, CloseAgrees DEF CountsClose
  <2>4. out' = [length |-> <<f.len>>, payload |-> f.len, wrote |-> f.wrote]
    BY <2>1, <2>2, <2>3 DEF WriteClose, Write
  <2> QED BY <2>3, <2>4, ShortAgrees
<1>4. CASE \E r \in DOMAIN TextFrame : WriteText(r)
  <2>1. PICK r \in DOMAIN TextFrame : WriteText(r)
    BY <1>4
  <2>2. PICK f : f = TextFrame[r]
    OBVIOUS
  <2>3. f.len \in Nat /\ f.len <= 125 /\ f.len = Len(f.text)
    BY <2>2, TextAgrees DEF CountsText
  <2>4. out' = [length |-> <<f.len>>, payload |-> f.len, wrote |-> 2 + f.len]
    BY <2>1, <2>2, <2>3 DEF WriteText, Write
  <2>5. 2 + f.len = f.len + 2
    BY <2>3
  <2> QED BY <2>3, <2>4, <2>5, ShortAgrees
<1> QED BY <1>1, <1>2, <1>3, <1>4 DEF FrameNext, Unmask, NextPass, Terminate, frameVars

(* Every frame the server writes says how long it is, for every length     *)
(* that a guint64 holds: _decode would read the length that                *)
(* protocol_rfc6455_frame wrote, and qev_write is given as many bytes.     *)
THEOREM FramesSayLength == FrameSpec => []FramesAgree
  BY FramesInit, FramesStep, PTL DEF FrameSpec

-----------------------------------------------------------------------------
(* evs_query and evs_query_insert                                          *)

(* The characters of n are the first ones of p.                            *)
Below(n, p) == Len(n) <= Len(p) /\ \A i \in 1 .. Len(n) : n[i] = p[i]

(* A call that has left the lock has built all the nodes of its path.      *)
CallOK(call) ==
  /\ call.pc # "idle" => call.path \in Handlers /\ Below(call.at, call.path)
  /\ call.pc \in {"check", "path", "children"} => call.at = call.path

CallsOK == \A t \in Threads : CallOK(th[t])

(* Some call asked for the children that a node handles, or did when a     *)
(* lookup came by.                                                         *)
Asked(p) == \E t \in Threads : <<t, TRUE>> \in won[p]

HandlersOK ==
  /\ \A p \in childs : Asked(p)
  /\ q.handler # None => Below(q.handler, q.path) /\ q.handler # q.path /\ Asked(q.handler)
  /\ q.pc = "found" /\ q.result # None /\ q.result # q.path => q.result = q.handler

(* A node belongs to an event or to one that is being registered.          *)
NodesUsed ==
  \A n \in nodes \ {<<>>} :
    \/ \E p \in named : Below(n, p)
    \/ \E t \in Threads : th[t].pc # "idle" /\ Below(n, th[t].path)

(* An undisturbed lookup has remembered the nearest handler it passed.     *)
NearestOK ==
  q.calm /\ q.pc # "idle" =>
    /\ \A t \in Threads : th[t].pc = "idle"
    /\ q.pc = "walk" =>
         /\ q.handler # None => q.handler \in childs /\ Below(q.handler, q.at) /\ q.handler # q.at
         /\ \A h \in childs : Below(h, q.at) /\ h # q.at =>
              q.handler # None /\ Len(h) <= Len(q.handler)

KnownOK == q.known => q.path \in named

(* A remembered handler is only taken at a segment's end.                  *)
SegmentOK ==
  q.pc = "found" /\ q.result # None /\ q.result # q.path => q.path[Len(q.result) + 1] = SEP

QueryInv ==
  /\ QueryOK /\ CallsOK /\ HandlersOK /\ NodesUsed /\ NearestOK /\ KnownOK
  /\ SegmentOK /\ KnownIsFound /\ AnswersExpected

LEMMA SameSequence ==
  ASSUME NEW T, NEW n \in Seq(T), NEW p \in Seq(T), Len(n) = Len(p),
         \A i \in 1 .. Len(n) : n[i] = p[i]
  PROVE  n = p
  OBVIOUS

LEMMA FirstPart ==
  ASSUME NEW T, NEW p \in Seq(T), NEW l \in 0 .. Len(p)
  PROVE  /\ SubSeq(p, 1, l) \in Seq(T) /\ Len(SubSeq(p, 1, l)) = l
         /\ \A i \in 1 .. l : SubSeq(p, 1, l)[i] = p[i]
  OBVIOUS

LEMMA PrefixIff ==
  ASSUME NEW T, NEW p \in Seq(T), NEW n
  PROVE  /\ n \in Prefixes(p) <=> n \in Seq(T) /\ Below(n, p)
         /\ n \in Seq(T) => (IsPrefix(n, p) <=> Below(n, p))
         /\ n \in Seq(T) => (IsStrictPrefix(n, p) <=> Below(n, p) /\ n # p)
<1>1. ASSUME n \in Prefixes(p) PROVE n \in Seq(T) /\ Below(n, p)
  <2>1. PICK l \in 0 .. Len(p) : n = SubSeq(p, 1, l)
    BY <1>1 DEF Prefixes
  <2> QED BY <2>1, FirstPart DEF Below
<1>2. ASSUME n \in Seq(T), Below(n, p) PROVE n = SubSeq(p, 1, Len(n)) /\ Len(n) \in 0 .. Len(p)
  <2>1. Len(n) \in 0 .. Len(p)
    BY <1>2 DEF Below
  <2>2. PICK m : m = SubSeq(p, 1, Len(n))
    OBVIOUS
  <2>3. m \in Seq(T) /\ Len(m) = Len(n) /\ \A i \in 1 .. Len(n) : m[i] = n[i]
    BY <1>2, <2>1, <2>2, FirstPart DEF Below
  <2> QED BY <1>2, <2>1, <2>2, <2>3, SameSequence
<1>3. ASSUME n \in Seq(T) PROVE n = SubSeq(n, 1, Len(n))
  <2>1. Below(n, n) /\ Len(n) \in Nat
    BY <1>3 DEF Below
  <2>2. PICK m : m = SubSeq(n, 1, Len(n))
    OBVIOUS
  <2>3. m \in Seq(T) /\ Len(m) = Len(n) /\ \A i \in 1 .. Len(n) : m[i] = n[i]
    BY <1>3, <2>1, <2>2, FirstPart
  <2> QED BY <1>3, <2>2, <2>3, SameSequence
<1>4. ASSUME n \in Seq(T) PROVE IsPrefix(n, p) <=> Below(n, p)
  <2>1. ASSUME IsPrefix(n, p) PROVE Below(n, p)
    <3>1. n = SubSeq(p, 1, Len(n)) /\ Len(n) \in 0 .. Len(p)
      BY <1>3, <1>4, <2>1 DEF IsPrefix
    <3>2. n \in Prefixes(p)
      BY <3>1 DEF Prefixes
    <3> QED BY <1>1, <3>2
  <2>2. ASSUME Below(n, p) PROVE IsPrefix(n, p)
    BY <1>2, <1>3, <1>4, <2>2 DEF IsPrefix
  <2> QED BY <2>1, <2>2
<1>5. n \in Seq(T) /\ Below(n, p) => n \in Prefixes(p)
  BY <1>2 DEF Prefixes
<1> QED BY <1>1, <1>4, <1>5 DEF IsStrictPrefix

LEMMA BelowOrder ==
  ASSUME NEW T, NEW m \in Seq(T), NEW n \in Seq(T), NEW p \in Seq(T)
  PROVE  /\ Below(n, n) /\ Below(<<>>, n)
         /\ Below(m, n) /\ Below(n, p) => Below(m, p)
         /\ Below(m, p) /\ Below(n, p) /\ Len(m) <= Len(n) => Below(m, n)
         /\ Below(n, p) /\ Len(n) = Len(p) => n = p
         /\ Below(n, p) /\ Below(p, n) => n = p
<1>1. Len(m) \in Nat /\ Len(n) \in Nat /\ Len(p) \in Nat
  OBVIOUS
<1>2. Below(n, n) /\ Below(<<>>, n)
  BY <1>1 DEF Below
<1>3. Below(m, n) /\ Below(n, p) => Below(m, p)
  BY <1>1 DEF Below
<1>4. Below(m, p) /\ Below(n, p) /\ Len(m) <= Len(n) => Below(m, n)
  BY <1>1 DEF Below
<1>5. Below(n, p) /\ Len(n) = Len(p) => n = p
  BY SameSequence DEF Below
<1>6. Below(n, p) /\ Below(p, n) => n = p
  BY <1>1, <1>5 DEF Below
<1> QED BY <1>2, <1>3, <1>4, <1>5, <1>6

(* One step down the tree.                                                 *)
LEMMA ChildBelow ==
  ASSUME NEW T, NEW n \in Seq(T), NEW p \in Seq(T), Below(n, p), n # p
  PROVE  LET c == Child(n, p)
         IN  /\ c \in Seq(T) /\ Len(c) = Len(n) + 1 /\ Below(c, p) /\ Below(n, c)
             /\ \A m \in Seq(T) : Below(m, c) <=> m = c \/ Below(m, n)
             /\ \A m \in Seq(T) : Below(m, c) /\ m # c <=> Below(m, n)
             /\ \A m \in Seq(T) : Below(m, p) /\ ~Below(m, n) => Below(c, m)
<1>1. Len(n) \in Nat /\ Len(p) \in Nat /\ Len(n) < Len(p)
  BY BelowOrder DEF Below
<1>2. PICK c : c = Child(n, p)
  OBVIOUS
<1>3. c \in Seq(T) /\ Len(c) = Len(n) + 1 /\ \A i \in 1 .. Len(n) + 1 : c[i] = p[i]
  BY <1>1, <1>2, FirstPart DEF Child
<1>4. Below(c, p) /\ Below(n, c)
  BY <1>1, <1>3 DEF Below
<1>5. ASSUME NEW m \in Seq(T)
      PROVE  /\ Below(m, c) => m = c \/ Below(m, n)
             /\ Below(m, n) => Below(m, c) /\ m # c
             /\ Below(m, p) /\ ~Below(m, n) => Below(c, m)
  <2>1. Len(m) \in Nat
    OBVIOUS
  <2>2. ASSUME Below(m, c) PROVE m = c \/ Below(m, n)
    <3>1. CASE Len(m) = Len(c)
      BY <1>3, <2>2, <3>1, SameSequence DEF Below
    <3>2. CASE Len(m) # Len(c)
      <4>1. Len(m) <= Len(n)
        BY <1>1, <1>3, <2>1, <2>2, <3>2 DEF Below
      <4> QED BY <1>3, <1>4, <2>2, <4>1, BelowOrder
    <3> QED BY <3>1, <3>2
  <2>3. ASSUME Below(m, n) PROVE Below(m, c) /\ m # c
    <3>1. Len(m) <= Len(n)
      BY <2>3 DEF Below
    <3>2. Below(m, c)
      BY <1>3, <1>4, <2>3, BelowOrder
    <3> QED BY <1>1, <1>3, <2>1, <3>1, <3>2
  <2>4. ASSUME Below(m, p), ~Below(m, n) PROVE Below(c, m)
    <3>1. ~(Len(m) <= Len(n))
      BY <2>4, BelowOrder
    <3>2. Len(c) <= Len(m)
      BY <1>1, <1>3, <2>1, <3>1
    <3> QED BY <1>3, <1>4, <2>4, <3>2, BelowOrder
  <2> QED BY <2>2, <2>3, <2>4
<1>6. /\ c \in Seq(T) /\ Len(c) = Len(n) + 1 /\ Below(c, p) /\ Below(n, c)
      /\ \A m \in Seq(T) : Below(m, c) <=> m = c \/ Below(m, n)
      /\ \A m \in Seq(T) : Below(m, c) /\ m # c <=> Below(m, n)
      /\ \A m \in Seq(T) : Below(m, p) /\ ~Below(m, n) => Below(c, m)
  <2>1. Below(c, c)
    BY <1>3, BelowOrder
  <2> QED BY <1>3, <1>4, <1>5, <2>1
<1> QED BY <1>2, <1>6

-----------------------------------------------------------------------------
(* Steps of evs_query_insert                                               *)

CallType(N) == [pc : {"idle", "walk", "check", "path", "children"},
                path : Handlers \cup {<<>>}, at : N, hc : BOOLEAN]

QueryType(N, E) == [pc : {"idle", "walk", "found"}, path : Queries \cup {<<>>}, at : N,
                    handler : E \cup {None}, result : E \cup {None},
                    known : BOOLEAN, calm : BOOLEAN]

(* Paths and nodes are sequences, and a node's parents are there.          *)
LEMMA Sequences ==
  ASSUME QueryOK
  PROVE  /\ Nodes \subseteq Seq(Symbols) /\ nodes \subseteq Seq(Symbols)
         /\ Handlers \subseteq Seq(Symbols) /\ named \subseteq Seq(Symbols)
         /\ childs \subseteq Seq(Symbols) /\ childs \subseteq Handlers
         /\ q.path \in Seq(Symbols) /\ q.at \in Seq(Symbols) /\ Below(q.at, q.path)
         /\ \A n \in nodes : \A m \in Seq(Symbols) : Below(m, n) => m \in nodes
         /\ \A h \in Handlers : \A m \in Seq(Symbols) : Below(m, h) => m \in Nodes
<1>0. <<>> \in Seq(Symbols)
  OBVIOUS
<1>1. Handlers \subseteq Seq(Symbols) /\ Queries \cup {<<>>} \subseteq Seq(Symbols)
  BY <1>0, PathsAssumption
<1>2. Nodes \subseteq Seq(Symbols)
  BY <1>1, PrefixIff DEF Nodes
<1>3. nodes \subseteq Seq(Symbols) /\ named \subseteq Seq(Symbols) /\ childs \subseteq Seq(Symbols)
      /\ childs \subseteq Handlers
  BY <1>1, <1>2 DEF QueryOK
<1>4. q.path \in Seq(Symbols) /\ q.at \in Seq(Symbols)
  BY <1>1, <1>3 DEF QueryOK
<1>5. Below(q.at, q.path)
  BY <1>4, PrefixIff DEF QueryOK
<1>6. \A n \in nodes : \A m \in Seq(Symbols) : Below(m, n) => m \in nodes
  BY <1>3, PrefixIff DEF QueryOK
<1>7. \A h \in Handlers : \A m \in Seq(Symbols) : Below(m, h) => m \in Nodes
  BY <1>1, PrefixIff DEF Nodes
<1> QED BY <1>1, <1>2, <1>3, <1>4, <1>5, <1>6, <1>7

(* What a registration does to the call and to a lookup.                   *)
LEMMA GoesFacts ==
  ASSUME QueryOK, NEW t \in Threads, NEW call, Goes(t, call)
  PROVE  /\ th'[t] = call /\ \A u \in Threads : u # t => th'[u] = th[u]
         /\ q'.pc = q.pc /\ q'.path = q.path /\ q'.at = q.at /\ q'.handler = q.handler
         /\ q'.result = q.result /\ q'.known = q.known /\ q'.calm = FALSE
         /\ \A N, E : nodes \subseteq N /\ named \subseteq E => q' \in QueryType(N, E)
         /\ \A N : nodes \subseteq N /\ call \in CallType(N) => th' \in [Threads -> CallType(N)]
<1>1. q \in QueryType(nodes, named) /\ th \in [Threads -> CallType(nodes)]
  BY DEF QueryOK, QueryType, CallType
<1>2. q' = [q EXCEPT !.calm = FALSE] /\ th' = [th EXCEPT ![t] = call]
  BY DEF Goes
<1>3. /\ q'.pc = q.pc /\ q'.path = q.path /\ q'.at = q.at /\ q'.handler = q.handler
      /\ q'.result = q.result /\ q'.known = q.known /\ q'.calm = FALSE
      /\ q' \in QueryType(nodes, named)
  BY <1>1, <1>2 DEF QueryType
<1>4. \A N, E : nodes \subseteq N /\ named \subseteq E => q' \in QueryType(N, E)
  BY <1>3 DEF QueryType
<1>5. th'[t] = call /\ \A u \in Threads : u # t => th'[u] = th[u]
  BY <1>1, <1>2
<1>6. ASSUME NEW N, nodes \subseteq N, call \in CallType(N) PROVE th' \in [Threads -> CallType(N)]
  <2>1. CallType(nodes) \subseteq CallType(N)
    BY <1>6 DEF CallType
  <2> QED BY <1>1, <1>2, <1>6, <2>1
<1> QED BY <1>3, <1>4, <1>5, <1>6

(* A registration only adds to the tree, and holds the lock while it adds  *)
(* nodes.                                                                  *)
Registers(t, call) ==
  /\ Goes(t, call) /\ call \in CallType(nodes') /\ CallOK(call)
  /\ nodes \subseteq nodes' /\ nodes' \subseteq Nodes
  /\ \A n \in nodes' : n \in nodes \/ (Below(n, call.path) /\ call.pc # "idle")
  /\ \A n \in nodes' : \A m \in Seq(Symbols) : Below(m, n) => m \in nodes'
  /\ named \subseteq named' /\ named' \subseteq nodes' \cap Handlers /\ childs' \subseteq named'
  /\ lock' \in Threads \cup {None}
  /\ \A u \in Threads : u # t => (lock' = u <=> lock = u)
  /\ call.pc = "walk" <=> lock' = t
  /\ call.pc = "children" => call.path \in named'
  /\ call.pc # "idle" => th[t].pc = "idle" \/ call.path = th[t].path
  /\ call.pc = "idle" => th[t].path \in named'
  /\ won' \in [Handlers -> SUBSET (Threads \X BOOLEAN)]
  /\ \A p \in Handlers : won[p] \subseteq won'[p]
  /\ \A p \in childs' : Asked(p)'

LEMMA RegisterStep ==
  ASSUME QueryInv, NEW t \in Threads, NEW call, Registers(t, call)
  PROVE  QueryInv'
<1>0. QueryOK
  BY DEF QueryInv
<1>1. /\ th'[t] = call /\ \A u \in Threads : u # t => th'[u] = th[u]
      /\ q'.pc = q.pc /\ q'.path = q.path /\ q'.at = q.at /\ q'.handler = q.handler
      /\ q'.result = q.result /\ q'.known = q.known /\ q'.calm = FALSE
      /\ q' \in QueryType(nodes', named')
      /\ th' \in [Threads -> CallType(nodes')]
  BY <1>0, GoesFacts DEF Registers
<1>2. QueryOK'
  <2>1. \A n \in nodes' : Prefixes(n) \subseteq nodes'
    <3> SUFFICES ASSUME NEW n \in nodes', NEW m \in Prefixes(n) PROVE m \in nodes'
      OBVIOUS
    <3>1. n \in Seq(Symbols)
      BY <1>0, Sequences DEF Registers
    <3>2. m \in Seq(Symbols) /\ Below(m, n)
      BY <3>1, PrefixIff
    <3> QED BY <3>2 DEF Registers
  <2>2. \A u \in Threads : /\ th'[u].pc = "walk" <=> lock' = u
                           /\ th'[u].pc = "children" => th'[u].path \in named'
    BY <1>0, <1>1 DEF QueryOK, Registers
  <2>3. q'.at \in Prefixes(q'.path)
    BY <1>0, <1>1 DEF QueryOK
  <2>4. th' \in [Threads -> [pc : {"idle", "walk", "check", "path", "children"},
                             path : Handlers \cup {<<>>}, at : nodes', hc : BOOLEAN]]
    BY <1>1 DEF CallType
  <2>5. q' \in [pc : {"idle", "walk", "found"}, path : Queries \cup {<<>>}, at : nodes',
                handler : named' \cup {None}, result : named' \cup {None},
                known : BOOLEAN, calm : BOOLEAN]
    BY <1>1 DEF QueryType
  <2>6. /\ nodes' \subseteq Nodes /\ childs' \subseteq named' /\ named' \subseteq nodes' \cap Handlers
        /\ lock' \in Threads \cup {None} /\ won' \in [Handlers -> SUBSET (Threads \X BOOLEAN)]
    BY DEF Registers
  <2> QED BY <2>1, <2>2, <2>3, <2>4, <2>5, <2>6 DEF QueryOK
<1>3. CallsOK'
  BY <1>1 DEF QueryInv, CallsOK, CallOK, Registers
<1>4. HandlersOK'
  <2>1. ASSUME NEW p \in Handlers, Asked(p) PROVE Asked(p)'
    BY <2>1 DEF Asked, Registers
  <2>2. q.handler # None => q.handler \in Handlers
    BY <1>0 DEF QueryOK
  <2>3. q.handler # None => Asked(q.handler)'
    <3> SUFFICES ASSUME q.handler # None PROVE Asked(q.handler)'
      OBVIOUS
    <3>1. PICK p \in Handlers : p = q.handler
      BY <2>2
    <3>2. Asked(p)
      BY <3>1 DEF QueryInv, HandlersOK
    <3>3. Asked(p)'
      BY <2>1, <3>2
    <3> QED BY <1>1, <3>1, <3>3 DEF Asked
  <2> QED BY <1>1, <2>3 DEF QueryInv, HandlersOK, Registers, Asked
<1>5. NodesUsed'
  <2> SUFFICES ASSUME NEW n \in nodes', n # <<>>
               PROVE  \/ \E p \in named' : Below(n, p)
                      \/ \E u \in Threads : th'[u].pc # "idle" /\ Below(n, th'[u].path)
    BY DEF NodesUsed
  <2>1. CASE n \notin nodes
    BY <1>1, <2>1 DEF Registers
  <2>2. CASE n \in nodes
    <3>1. \/ \E p \in named : Below(n, p)
          \/ \E u \in Threads : th[u].pc # "idle" /\ Below(n, th[u].path)
      BY <2>2 DEF QueryInv, NodesUsed
    <3>2. ASSUME th[t].pc # "idle", Below(n, th[t].path)
          PROVE  \/ \E p \in named' : Below(n, p)
                 \/ th'[t].pc # "idle" /\ Below(n, th'[t].path)
      BY <1>1, <3>2 DEF Registers
    <3> QED BY <1>1, <3>1, <3>2 DEF Registers
  <2> QED BY <2>1, <2>2
<1>6. NearestOK' /\ AnswersExpected'
  BY <1>1 DEF NearestOK, AnswersExpected
<1>7. KnownOK' /\ SegmentOK' /\ KnownIsFound'
  BY <1>1 DEF QueryInv, KnownOK, SegmentOK, KnownIsFound, Registers
<1> QED BY <1>2, <1>3, <1>4, <1>5, <1>6, <1>7 DEF QueryInv

(* What the invariant says of one call and of the tree.                    *)
LEMMA StepFacts ==
  ASSUME QueryInv, NEW t \in Threads
  PROVE  /\ th[t] \in CallType(nodes) /\ CallOK(th[t])
         /\ nodes \subseteq Nodes /\ named \subseteq nodes \cap Handlers /\ childs \subseteq named
         /\ \A n \in nodes : \A m \in Seq(Symbols) : Below(m, n) => m \in nodes
         /\ <<>> \in nodes
         /\ lock \in Threads \cup {None} /\ None \notin Threads
         /\ \A u \in Threads : th[u].pc = "walk" <=> lock = u
         /\ th[t].pc = "children" => th[t].path \in named
         /\ won \in [Handlers -> SUBSET (Threads \X BOOLEAN)]
         /\ \A p \in childs : Asked(p)
<1>1. QueryOK /\ CallsOK /\ HandlersOK
  BY DEF QueryInv
<1>2. \A n \in nodes : \A m \in Seq(Symbols) : Below(m, n) => m \in nodes
  BY <1>1, Sequences
<1>3. <<>> \in nodes
  <2>1. q.at \in nodes /\ q.at \in Seq(Symbols) /\ <<>> \in Seq(Symbols)
    BY <1>1, Sequences DEF QueryOK
  <2>2. Below(<<>>, q.at)
    BY <2>1, BelowOrder
  <2> QED BY <1>2, <2>1, <2>2
<1>4. th[t] \in CallType(nodes)
  BY <1>1 DEF QueryOK, CallType
<1> QED BY <1>1, <1>2, <1>3, <1>4, NoneAssumption DEF QueryOK, CallsOK, HandlersOK

LEMMA AddHandlerStep ==
  ASSUME QueryInv, NEW t \in Threads, NEW p \in Handlers, NEW hc \in BOOLEAN, AddHandler(t, p, hc)
  PROVE  QueryInv'
<1>1. PICK call : call = [pc |-> "walk", path |-> p, at |-> <<>>, hc |-> hc]
  OBVIOUS
<1>2. Goes(t, call) /\ UNCHANGED <<nodes, named, childs, won>> /\ lock = None /\ lock' = t
      /\ th[t].pc = "idle"
  BY <1>1 DEF AddHandler, tree
<1>3. call \in CallType(nodes)
  BY <1>1, StepFacts DEF CallType
<1>4. CallOK(call)
  <2>1. p \in Seq(Symbols) /\ <<>> \in Seq(Symbols)
    BY PathsAssumption
  <2>2. Below(<<>>, p)
    BY <2>1, BelowOrder
  <2> QED BY <1>1, <2>2 DEF CallOK
<1>5. Registers(t, call)
  BY <1>1, <1>2, <1>3, <1>4, StepFacts DEF Registers, Asked
<1> QED BY <1>5, RegisterStep

LEMMA WalkStep ==
  ASSUME QueryInv, NEW t \in Threads, Walk(t)
  PROVE  QueryInv'
<1>1. PICK c \in CallType(nodes) : c = th[t]
  BY StepFacts
<1>2. PICK n : n = Child(c.at, c.path)
  OBVIOUS
<1>3. PICK call : call = [c EXCEPT !.at = n]
  OBVIOUS
<1>4. Goes(t, call) /\ nodes' = nodes \cup {n} /\ UNCHANGED <<named, childs, lock, won>>
      /\ c.pc = "walk" /\ c.at # c.path
  BY <1>1, <1>2, <1>3 DEF Walk
<1>5. call.pc = "walk" /\ call.path = c.path /\ call.at = n /\ call \in CallType(nodes')
  BY <1>1, <1>3, <1>4 DEF CallType
<1>6. c.path \in Handlers /\ c.path \in Seq(Symbols) /\ c.at \in Seq(Symbols) /\ Below(c.at, c.path)
  <2>1. c.path \in Handlers /\ Below(c.at, c.path) /\ c.at \in nodes
    BY <1>1, <1>4, StepFacts DEF CallOK, CallType
  <2> QED BY <2>1, Sequences DEF QueryInv
<1>7. /\ n \in Seq(Symbols) /\ Below(n, c.path)
      /\ \A m \in Seq(Symbols) : Below(m, n) => m = n \/ Below(m, c.at)
  BY <1>2, <1>4, <1>6, ChildBelow
<1>8. n \in Nodes
  BY <1>6, <1>7, Sequences DEF QueryInv
<1>9. \A k \in nodes' : \A m \in Seq(Symbols) : Below(m, k) => m \in nodes'
  <2>1. c.at \in nodes
    BY <1>1 DEF CallType
  <2> QED BY <1>4, <1>7, <2>1, StepFacts
<1>10. CallOK(call)
  BY <1>5, <1>6, <1>7 DEF CallOK
<1>11. \A k \in nodes' : k \in nodes \/ (Below(k, call.path) /\ call.pc # "idle")
  BY <1>4, <1>5, <1>7
<1>12. Registers(t, call)
  BY <1>1, <1>4, <1>5, <1>8, <1>9, <1>10, <1>11, StepFacts DEF Registers, Asked
<1> QED BY <1>12, RegisterStep

LEMMA UnlockStep ==
  ASSUME QueryInv, NEW t \in Threads, Unlock(t)
  PROVE  QueryInv'
<1>1. PICK c \in CallType(nodes) : c = th[t]
  BY StepFacts
<1>2. PICK call : call = [c EXCEPT !.pc = "check"]
  OBVIOUS
<1>3. Goes(t, call) /\ UNCHANGED <<nodes, named, childs, won>> /\ lock' = None
      /\ c.pc = "walk" /\ c.at = c.path
  BY <1>1, <1>2 DEF Unlock, tree
<1>4. call.pc = "check" /\ call.path = c.path /\ call.at = c.at /\ call \in CallType(nodes)
  BY <1>1, <1>2 DEF CallType
<1>5. CallOK(call)
  BY <1>1, <1>3, <1>4, StepFacts DEF CallOK
<1>6. Registers(t, call)
  BY <1>1, <1>3, <1>4, <1>5, StepFacts DEF Registers, Asked
<1> QED BY <1>6, RegisterStep

LEMMA ExistsStep ==
  ASSUME QueryInv, NEW t \in Threads, Exists(t)
  PROVE  QueryInv'
<1>1. PICK call : call = NoCall
  OBVIOUS
<1>2. Goes(t, call) /\ UNCHANGED <<nodes, named, childs, won, lock>>
      /\ th[t].pc = "check" /\ th[t].path \in named
  BY <1>1 DEF Exists, tree
<1>3. call.pc = "idle" /\ call \in CallType(nodes) /\ CallOK(call)
  BY <1>1, StepFacts DEF CallType, NoCall, CallOK
<1>4. Registers(t, call)
  BY <1>2, <1>3, StepFacts DEF Registers, Asked
<1> QED BY <1>4, RegisterStep

LEMMA IsFreeStep ==
  ASSUME QueryInv, NEW t \in Threads, IsFree(t)
  PROVE  QueryInv'
<1>1. PICK c \in CallType(nodes) : c = th[t]
  BY StepFacts
<1>2. PICK call : call = [c EXCEPT !.pc = "path"]
  OBVIOUS
<1>3. Goes(t, call) /\ UNCHANGED <<nodes, named, childs, won, lock>> /\ c.pc = "check"
  BY <1>1, <1>2 DEF IsFree, tree
<1>4. call.pc = "path" /\ call.path = c.path /\ call.at = c.at /\ call \in CallType(nodes)
  BY <1>1, <1>2 DEF CallType
<1>5. CallOK(call)
  BY <1>1, <1>3, <1>4, StepFacts DEF CallOK
<1>6. Registers(t, call)
  BY <1>1, <1>3, <1>4, <1>5, StepFacts DEF Registers, Asked
<1> QED BY <1>6, RegisterStep

LEMMA InitPathStep ==
  ASSUME QueryInv, NEW t \in Threads, InitPath(t)
  PROVE  QueryInv'
<1>1. PICK c \in CallType(nodes) : c = th[t]
  BY StepFacts
<1>2. PICK call : call = [c EXCEPT !.pc = "children"]
  OBVIOUS
<1>3. Goes(t, call) /\ UNCHANGED <<nodes, childs, won, lock>> /\ c.pc = "path"
      /\ named' = named \cup {c.path}
  BY <1>1, <1>2 DEF InitPath
<1>4. call.pc = "children" /\ call.path = c.path /\ call.at = c.at /\ call \in CallType(nodes)
  BY <1>1, <1>2 DEF CallType
<1>5. CallOK(call)
  BY <1>1, <1>3, <1>4, StepFacts DEF CallOK
<1>6. c.path \in nodes \cap Handlers
  BY <1>1, <1>3, StepFacts DEF CallOK, CallType
<1>7. Registers(t, call)
  BY <1>1, <1>3, <1>4, <1>5, <1>6, StepFacts DEF Registers, Asked
<1> QED BY <1>7, RegisterStep

LEMMA InitChildrenStep ==
  ASSUME QueryInv, NEW t \in Threads, InitChildren(t)
  PROVE  QueryInv'
<1>1. PICK c \in CallType(nodes) : c = th[t]
  BY StepFacts
<1>2. PICK call : call = NoCall
  OBVIOUS
<1>3. /\ Goes(t, call) /\ UNCHANGED <<nodes, named, lock>> /\ c.pc = "children"
      /\ childs' = IF c.hc THEN childs \cup {c.path} ELSE childs \ {c.path}
      /\ won' = [won EXCEPT ![c.path] = @ \cup {<<t, c.hc>>}]
  BY <1>1, <1>2 DEF InitChildren
<1>4. call.pc = "idle" /\ call \in CallType(nodes) /\ CallOK(call)
  BY <1>2, StepFacts DEF CallType, NoCall, CallOK
<1>5. c.path \in named /\ c.path \in Handlers /\ c.hc \in BOOLEAN
  BY <1>1, <1>3, StepFacts DEF CallType
<1>6. /\ won' \in [Handlers -> SUBSET (Threads \X BOOLEAN)]
      /\ \A p \in Handlers : won[p] \subseteq won'[p]
      /\ <<t, c.hc>> \in won'[c.path]
  <2>1. PICK W : W = SUBSET (Threads \X BOOLEAN)
    OBVIOUS
  <2>2. won[c.path] \cup {<<t, c.hc>>} \in W /\ won \in [Handlers -> W]
    BY <1>5, <2>1, StepFacts
  <2>3. won' \in [Handlers -> W]
    BY <1>3, <1>5, <2>2
  <2> QED BY <1>3, <1>5, <2>1, <2>2, <2>3
<1>7. childs' \subseteq named /\ \A p \in childs' : p \in childs \/ (p = c.path /\ c.hc)
  BY <1>3, <1>5, StepFacts
<1>8. ASSUME NEW p \in childs' PROVE Asked(p)'
  <2>1. p \in Handlers
    BY <1>7, StepFacts
  <2>2. CASE p \in childs
    BY <1>6, <2>1, <2>2, StepFacts DEF Asked
  <2>3. CASE p = c.path /\ c.hc
    <3>1. c.hc = TRUE
      BY <1>5, <2>3
    <3> QED BY <1>6, <2>3, <3>1 DEF Asked
  <2> QED BY <1>7, <2>2, <2>3
<1>9. Registers(t, call)
  BY <1>1, <1>3, <1>4, <1>5, <1>6, <1>7, <1>8, StepFacts DEF Registers
<1> QED BY <1>9, RegisterStep

-----------------------------------------------------------------------------
(* Steps of evs_query                                                      *)

(* A lookup leaves the tree and the registrations alone.                   *)
LookupOnly == UNCHANGED <<nodes, named, childs, lock, th, won>>

LEMMA LookupStep ==
  ASSUME QueryInv, LookupOnly,
         q' \in QueryType(nodes, named), q'.path \in Seq(Symbols), Below(q'.at, q'.path),
         HandlersOK', NearestOK', KnownOK', SegmentOK', KnownIsFound', AnswersExpected'
  PROVE  QueryInv'
<1>0. QueryOK
  BY DEF QueryInv
<1>1. QueryOK'
  <2>1. q'.at \in Seq(Symbols)
    BY <1>0, Sequences DEF QueryType
  <2>2. q'.at \in Prefixes(q'.path)
    BY <2>1, PrefixIff
  <2>3. q' \in [pc : {"idle", "walk", "found"}, path : Queries \cup {<<>>}, at : nodes,
                handler : named \cup {None}, result : named \cup {None},
                known : BOOLEAN, calm : BOOLEAN]
    BY DEF QueryType
  <2> QED BY <1>0, <2>2, <2>3 DEF QueryOK, LookupOnly
<1>2. CallsOK' /\ NodesUsed'
  BY DEF QueryInv, LookupOnly, CallsOK, NodesUsed
<1> QED BY <1>1, <1>2 DEF QueryInv

(* What the invariant says of a lookup that is under way.                  *)
LEMMA LookupFacts ==
  ASSUME QueryInv
  PROVE  /\ q \in QueryType(nodes, named) /\ <<>> \in nodes /\ <<>> \in Seq(Symbols)
         /\ q.path \in Seq(Symbols) /\ q.at \in Seq(Symbols) /\ Below(q.at, q.path)
         /\ q.handler # None => /\ q.handler \in Seq(Symbols) /\ Below(q.handler, q.path)
                                /\ q.handler # q.path /\ Asked(q.handler)
         /\ nodes \subseteq Seq(Symbols) /\ childs \subseteq named /\ named \subseteq nodes
         /\ \A n \in nodes : \A m \in Seq(Symbols) : Below(m, n) => m \in nodes
         /\ None \notin nodes
<1>1. QueryOK /\ HandlersOK
  BY DEF QueryInv
<1>2. q \in QueryType(nodes, named)
  BY <1>1 DEF QueryOK, QueryType
<1>3. <<>> \in Seq(Symbols)
  OBVIOUS
<1>4. <<>> \in nodes
  <2>1. q.at \in nodes /\ q.at \in Seq(Symbols)
    BY <1>1, <1>2, Sequences DEF QueryType
  <2>2. Below(<<>>, q.at)
    BY <1>3, <2>1, BelowOrder
  <2> QED BY <1>1, <1>3, <2>1, <2>2, Sequences
<1>5. q.handler # None => q.handler \in named
  BY <1>2 DEF QueryType
<1> QED BY <1>1, <1>2, <1>3, <1>4, <1>5, Sequences, NoneAssumption DEF QueryOK, HandlersOK

LEMMA BeginStep ==
  ASSUME QueryInv, NEW p \in Queries, Query(p)
  PROVE  QueryInv'
<1>1. LookupOnly
  BY DEF Query, LookupOnly, tree
<1>2. PICK k \in BOOLEAN : k = (p \in named)
  <2>1. (p \in named) \in BOOLEAN
    OBVIOUS
  <2> QED BY <2>1, Zenon
<1>3. PICK c \in BOOLEAN : c = ~Registering
  <2>1. (~Registering) \in BOOLEAN
    OBVIOUS
  <2> QED BY <2>1, Zenon
<1>4. q' = [pc |-> "walk", path |-> p, at |-> <<>>, handler |-> None,
            result |-> None, known |-> k, calm |-> c]
  BY <1>2, <1>3 DEF Query, NoQuery
<1>5. /\ q'.pc = "walk" /\ q'.path = p /\ q'.at = <<>> /\ q'.handler = None
      /\ q'.result = None /\ q'.known = k /\ q'.calm = c /\ q' \in QueryType(nodes, named)
  BY <1>4, LookupFacts DEF QueryType
<1>6. p \in Seq(Symbols) /\ Below(<<>>, p)
  <2>1. p \in Seq(Symbols) /\ <<>> \in Seq(Symbols)
    BY PathsAssumption, LookupFacts
  <2> QED BY <2>1, BelowOrder
<1>7. HandlersOK'
  BY <1>1, <1>5 DEF QueryInv, HandlersOK, LookupOnly, Asked
<1>8. NearestOK'
  <2>1. ASSUME NEW h \in childs, Below(h, <<>>) PROVE h = <<>>
    <3>1. h \in Seq(Symbols) /\ <<>> \in Seq(Symbols)
      BY LookupFacts
    <3>2. Below(<<>>, h)
      BY <3>1, BelowOrder
    <3> QED BY <2>1, <3>1, <3>2, BelowOrder
  <2>2. c => \A t \in Threads : th[t].pc = "idle"
    BY <1>3 DEF Registering
  <2> QED BY <1>1, <1>5, <2>1, <2>2 DEF NearestOK, LookupOnly
<1>9. KnownOK'
  BY <1>1, <1>2, <1>5 DEF KnownOK, LookupOnly
<1>10. SegmentOK' /\ KnownIsFound' /\ AnswersExpected'
  BY <1>5 DEF SegmentOK, KnownIsFound, AnswersExpected
<1> QED BY <1>1, <1>5, <1>6, <1>7, <1>8, <1>9, <1>10, LookupStep

(* The handler that is remembered when a node is left.                     *)
LEMMA RememberFacts ==
  ASSUME QueryInv, q.pc = "walk", q.at # q.path, NEW h, h = Remember(q.at, q.handler)
  PROVE  /\ h \in named \cup {None}
         /\ h # None => h \in Seq(Symbols) /\ Below(h, q.path) /\ h # q.path /\ Asked(h)
         /\ q.calm => /\ h # None => h \in childs /\ Below(h, q.at)
                      /\ \A g \in childs : Below(g, q.at) => h # None /\ Len(g) <= Len(h)
<1>1. q.handler \in named \cup {None}
  BY LookupFacts DEF QueryType
<1>2. CASE q.at \in childs
  <2>1. h = q.at /\ h \in named /\ h # None
    BY <1>2, LookupFacts DEF Remember
  <2>2. Asked(h)
    BY <1>2, <2>1 DEF QueryInv, HandlersOK
  <2>3. Below(h, q.at)
    BY <2>1, LookupFacts, BelowOrder
  <2>4. \A g \in childs : Below(g, q.at) => Len(g) <= Len(h)
    BY <2>1 DEF Below
  <2> QED BY <1>2, <2>1, <2>2, <2>3, <2>4, LookupFacts
<1>3. CASE q.at \notin childs
  <2>1. h = q.handler
    BY <1>3 DEF Remember
  <2>2. ASSUME q.calm
        PROVE  /\ h # None => h \in childs /\ Below(h, q.at)
               /\ \A g \in childs : Below(g, q.at) => h # None /\ Len(g) <= Len(h)
    BY <1>3, <2>1, <2>2 DEF QueryInv, NearestOK
  <2> QED BY <1>1, <2>1, <2>2, LookupFacts
<1> QED BY <1>2, <1>3

LEMMA DescendStep ==
  ASSUME QueryInv, Descend
  PROVE  QueryInv'
<1>1. LookupOnly /\ q.pc = "walk" /\ q.at # q.path
  BY DEF Descend, LookupOnly, tree
<1>2. PICK r \in QueryType(nodes, named) : r = q
  BY LookupFacts
<1>3. PICK c : c = Child(r.at, r.path)
  OBVIOUS
<1>4. PICK h : h = Remember(q.at, q.handler)
  OBVIOUS
<1>5. q' = [r EXCEPT !.at = c, !.handler = h] /\ c \in nodes
  BY <1>2, <1>3, <1>4 DEF Descend
<1>6. /\ h \in named \cup {None}
      /\ h # None => h \in Seq(Symbols) /\ Below(h, r.path) /\ h # r.path /\ Asked(h)
      /\ r.calm => /\ h # None => h \in childs /\ Below(h, r.at)
                   /\ \A g \in childs : Below(g, r.at) => h # None /\ Len(g) <= Len(h)
  BY <1>1, <1>2, <1>4, RememberFacts
<1>7. /\ q'.pc = "walk" /\ q'.path = r.path /\ q'.at = c /\ q'.handler = h
      /\ q'.result = r.result /\ q'.known = r.known /\ q'.calm = r.calm
      /\ q' \in QueryType(nodes, named)
  BY <1>1, <1>2, <1>5, <1>6 DEF QueryType
<1>8. r.path \in Seq(Symbols) /\ r.at \in Seq(Symbols) /\ Below(r.at, r.path) /\ r.at # r.path
  BY <1>1, <1>2, LookupFacts
<1>9. /\ Below(c, r.path)
      /\ \A m \in Seq(Symbols) : Below(m, c) /\ m # c <=> Below(m, r.at)
  BY <1>3, <1>8, ChildBelow
<1>10. HandlersOK'
  BY <1>1, <1>6, <1>7 DEF QueryInv, HandlersOK, LookupOnly, Asked
<1>11. NearestOK'
  <2>1. r.calm => \A t \in Threads : th[t].pc = "idle"
    BY <1>1, <1>2 DEF QueryInv, NearestOK
  <2>2. childs \subseteq Seq(Symbols)
    BY LookupFacts
  <2>3. ASSUME r.calm
        PROVE  /\ h # None => h \in childs /\ Below(h, c) /\ h # c
               /\ \A g \in childs : Below(g, c) /\ g # c => h # None /\ Len(g) <= Len(h)
    BY <1>6, <1>9, <2>2, <2>3
  <2> QED BY <1>1, <1>7, <2>1, <2>3 DEF NearestOK, LookupOnly
<1>12. KnownOK'
  BY <1>1, <1>2, <1>7 DEF QueryInv, KnownOK, LookupOnly
<1>13. SegmentOK' /\ KnownIsFound' /\ AnswersExpected'
  BY <1>7 DEF SegmentOK, KnownIsFound, AnswersExpected
<1> QED BY <1>1, <1>7, <1>8, <1>9, <1>10, <1>11, <1>12, <1>13, LookupStep

(* Of the events above a path, the nearest one is unique.                  *)
LEMMA NearestFacts ==
  ASSUME QueryInv, NEW p \in Seq(Symbols), NEW h, p \notin named,
         ~\E g \in named : Below(p, g),
         h # None => h \in childs /\ Below(h, p) /\ h # p,
         \A g \in childs : Below(g, p) /\ g # p => h # None /\ Len(g) <= Len(h)
  PROVE  (IF Matches(h, p) THEN h ELSE None) \in Expected(p)
<1>1. named \subseteq Seq(Symbols) /\ childs \subseteq Seq(Symbols)
  BY LookupFacts
<1>2. \A g : g \in Above(p) <=> g \in childs /\ Below(g, p) /\ g # p
  BY <1>1, PrefixIff DEF Above
<1>3. ~\E g \in named : IsPrefix(p, g)
  BY <1>1, PrefixIff
<1>4. PICK nearest : nearest = {k \in Above(p) : \A g \in Above(p) : Len(g) <= Len(k)}
  OBVIOUS
<1>5. Expected(p) = IF \E k \in nearest : InSegment(k, p) THEN nearest ELSE {None}
  BY <1>3, <1>4 DEF Expected
<1>6. h # None => h \in nearest
  BY <1>2, <1>4
<1>7. ASSUME NEW k \in nearest PROVE k = h /\ h # None
  <2>1. k \in childs /\ Below(k, p) /\ k # p /\ h # None /\ Len(k) <= Len(h)
    BY <1>2, <1>4, <1>7
  <2>2. h \in Above(p) /\ Len(h) <= Len(k)
    BY <1>2, <1>4, <1>7, <2>1
  <2>3. h \in Seq(Symbols) /\ k \in Seq(Symbols) /\ Below(h, p)
    BY <1>1, <1>2, <2>1, <2>2
  <2>4. Below(k, h) /\ Below(h, k)
    BY <2>1, <2>2, <2>3, BelowOrder
  <2> QED BY <2>1, <2>3, <2>4, BelowOrder
<1>8. CASE Matches(h, p)
  <2>1. h # None /\ InSegment(h, p)
    BY <1>1, <1>8, PrefixIff DEF Matches, InSegment
  <2> QED BY <1>5, <1>6, <1>8, <2>1
<1>9. CASE ~Matches(h, p)
  <2>1. ~\E k \in nearest : InSegment(k, p)
    BY <1>7, <1>9 DEF Matches, InSegment
  <2> QED BY <1>5, <1>9, <2>1
<1> QED BY <1>8, <1>9

(* What is expected depends on the tree only.                              *)
LEMMA ExpectedKept ==
  ASSUME NEW p, LookupOnly
  PROVE  Expected(p)' = Expected(p)
  BY DEF LookupOnly, Expected, Above

LEMMA NoChildStep ==
  ASSUME QueryInv, NoChild
  PROVE  QueryInv'
<1>1. LookupOnly /\ q.pc = "walk" /\ q.at # q.path
  BY DEF NoChild, LookupOnly, tree
<1>2. PICK r \in QueryType(nodes, named) : r = q
  BY LookupFacts
<1>3. PICK c : c = Child(r.at, r.path)
  OBVIOUS
<1>4. PICK h : h = Remember(q.at, q.handler)
  OBVIOUS
<1>5. PICK x : x = IF Matches(h, r.path) THEN h ELSE None
  OBVIOUS
<1>6. q' = [r EXCEPT !.pc = "found", !.handler = h, !.result = x] /\ c \notin nodes
  BY <1>2, <1>3, <1>4, <1>5 DEF NoChild
<1>7. /\ h \in named \cup {None}
      /\ h # None => h \in Seq(Symbols) /\ Below(h, r.path) /\ h # r.path /\ Asked(h)
      /\ r.calm => /\ h # None => h \in childs /\ Below(h, r.at)
                   /\ \A g \in childs : Below(g, r.at) => h # None /\ Len(g) <= Len(h)
  BY <1>1, <1>2, <1>4, RememberFacts
<1>8. x \in {h, None} /\ (x # None => x = h /\ r.path[Len(h) + 1] = SEP)
  BY <1>5 DEF Matches
<1>9. /\ q'.pc = "found" /\ q'.path = r.path /\ q'.at = r.at /\ q'.handler = h
      /\ q'.result = x /\ q'.known = r.known /\ q'.calm = r.calm
      /\ q' \in QueryType(nodes, named)
  BY <1>1, <1>2, <1>6, <1>7, <1>8 DEF QueryType
<1>10. r.path \in Seq(Symbols) /\ r.at \in Seq(Symbols) /\ Below(r.at, r.path) /\ r.at # r.path
  BY <1>1, <1>2, LookupFacts
<1>11. /\ c \in Seq(Symbols) /\ Below(c, r.path)
       /\ \A m \in Seq(Symbols) : Below(m, r.path) /\ ~Below(m, r.at) => Below(c, m)
  BY <1>3, <1>10, ChildBelow
<1>12. r.path \notin nodes
  BY <1>6, <1>11, LookupFacts
<1>13. r.path \notin named /\ ~\E g \in named : Below(r.path, g)
  BY <1>10, <1>12, LookupFacts
<1>14. \A g \in childs : Below(g, r.path) => Below(g, r.at)
  BY <1>6, <1>11, LookupFacts
<1>15. r.calm => x \in Expected(r.path)
  <2> SUFFICES ASSUME r.calm PROVE x \in Expected(r.path)
    OBVIOUS
  <2>1. /\ h # None => h \in childs /\ Below(h, r.path) /\ h # r.path
        /\ \A g \in childs : Below(g, r.path) /\ g # r.path => h # None /\ Len(g) <= Len(h)
    BY <1>7, <1>14
  <2> QED BY <1>5, <1>10, <1>13, <2>1, NearestFacts
<1>16. HandlersOK'
  BY <1>1, <1>7, <1>8, <1>9 DEF QueryInv, HandlersOK, LookupOnly, Asked
<1>17. NearestOK'
  BY <1>1, <1>2, <1>9 DEF QueryInv, NearestOK, LookupOnly
<1>18. ~r.known
  BY <1>2, <1>13 DEF QueryInv, KnownOK
<1>19. KnownOK' /\ SegmentOK' /\ KnownIsFound'
  BY <1>8, <1>9, <1>18 DEF KnownOK, SegmentOK, KnownIsFound
<1>20. AnswersExpected'
  <2>1. Expected(r.path)' = Expected(r.path)
    BY <1>1, ExpectedKept
  <2> QED BY <1>9, <1>15, <2>1 DEF AnswersExpected
<1> QED BY <1>1, <1>9, <1>10, <1>16, <1>17, <1>19, <1>20, LookupStep

LEMMA AtEndStep ==
  ASSUME QueryInv, AtEnd
  PROVE  QueryInv'
<1>1. LookupOnly /\ q.pc = "walk" /\ q.at = q.path
  BY DEF AtEnd, LookupOnly, tree
<1>2. PICK r \in QueryType(nodes, named) : r = q
  BY LookupFacts
<1>3. PICK x : x = IF r.path \in named THEN r.path ELSE None
  OBVIOUS
<1>4. q' = [r EXCEPT !.pc = "found", !.result = x]
  BY <1>1, <1>2, <1>3 DEF AtEnd, Reached
<1>5. /\ q'.pc = "found" /\ q'.path = r.path /\ q'.at = r.at /\ q'.handler = r.handler
      /\ q'.result = x /\ q'.known = r.known /\ q'.calm = r.calm
      /\ q' \in QueryType(nodes, named)
  BY <1>2, <1>3, <1>4 DEF QueryType
<1>6. r.path \in Seq(Symbols) /\ Below(r.at, r.path) /\ r.path \in nodes
  BY <1>1, <1>2, LookupFacts DEF QueryType
<1>7. HandlersOK'
  BY <1>1, <1>2, <1>3, <1>5 DEF QueryInv, HandlersOK, LookupOnly, Asked
<1>8. NearestOK'
  BY <1>1, <1>2, <1>5 DEF QueryInv, NearestOK, LookupOnly
<1>9. KnownOK' /\ SegmentOK' /\ KnownIsFound'
  BY <1>1, <1>2, <1>3, <1>5 DEF QueryInv, KnownOK, SegmentOK, KnownIsFound, LookupOnly
<1>10. r.calm => x \in Expected(r.path)
  <2> SUFFICES ASSUME r.calm PROVE x \in Expected(r.path)
    OBVIOUS
  <2>1. CASE r.path \in named
    BY <1>3, <2>1 DEF Expected
  <2>2. CASE r.path \notin named /\ \E h \in named : Below(r.path, h)
    <3>1. \E h \in named : IsPrefix(r.path, h)
      BY <1>6, <2>2, LookupFacts, PrefixIff
    <3> QED BY <1>3, <2>2, <3>1 DEF Expected
  <2>3. CASE r.path \notin named /\ ~\E h \in named : Below(r.path, h)
    <3>1. r.path = <<>>
      <4>1. \A t \in Threads : th[t].pc = "idle"
        BY <1>1, <1>2 DEF QueryInv, NearestOK
      <4> QED BY <1>6, <2>3, <4>1 DEF QueryInv, NodesUsed
    <3>2. \A g \in childs : Below(g, r.path) => g = r.path
      <4> SUFFICES ASSUME NEW g \in childs, Below(g, r.path) PROVE g = r.path
        OBVIOUS
      <4>1. g \in Seq(Symbols)
        BY LookupFacts
      <4>2. Below(r.path, g)
        BY <3>1, <4>1, BelowOrder
      <4> QED BY <1>6, <4>1, <4>2, BelowOrder
    <3>3. PICK h : h = None
      OBVIOUS
    <3>4. (IF Matches(h, r.path) THEN h ELSE None) \in Expected(r.path)
      BY <1>6, <2>3, <3>2, <3>3, NearestFacts
    <3> QED BY <1>3, <2>3, <3>3, <3>4
  <2> QED BY <2>1, <2>2, <2>3
<1>11. AnswersExpected'
  <2>1. Expected(r.path)' = Expected(r.path)
    BY <1>1, ExpectedKept
  <2> QED BY <1>5, <1>10, <2>1 DEF AnswersExpected
<1> QED BY <1>1, <1>5, <1>6, <1>7, <1>8, <1>9, <1>11, LookupStep

LEMMA ReturnStep ==
  ASSUME QueryInv, Return
  PROVE  QueryInv'
<1>1. LookupOnly
  BY DEF Return, LookupOnly, tree
<1>2. /\ q'.pc = "idle" /\ q'.path = <<>> /\ q'.at = <<>> /\ q'.handler = None
      /\ q'.result = None /\ q'.known = FALSE /\ q' \in QueryType(nodes, named)
  BY LookupFacts DEF Return, NoQuery, QueryType
<1>3. <<>> \in Seq(Symbols) /\ Below(<<>>, <<>>)
  <2>1. <<>> \in Seq(Symbols)
    OBVIOUS
  <2> QED BY <2>1, BelowOrder
<1>4. HandlersOK'
  BY <1>1, <1>2 DEF QueryInv, HandlersOK, LookupOnly, Asked
<1>5. NearestOK' /\ KnownOK' /\ SegmentOK' /\ KnownIsFound' /\ AnswersExpected'
  BY <1>2 DEF NearestOK, KnownOK, SegmentOK, KnownIsFound, AnswersExpected
<1> QED BY <1>1, <1>2, <1>3, <1>4, <1>5, LookupStep

LEMMA QueryInitInv == QueryInit => QueryInv
<1> SUFFICES ASSUME QueryInit PROVE QueryInv
  OBVIOUS
<1>1. /\ nodes = {<<>>} /\ named = {} /\ childs = {} /\ lock = None
      /\ th = [t \in Threads |-> NoCall] /\ won = [p \in Handlers |-> {}] /\ q = NoQuery
  BY DEF QueryInit
<1>2. /\ q.pc = "idle" /\ q.path = <<>> /\ q.at = <<>> /\ q.handler = None
      /\ q.result = None /\ q.known = FALSE
      /\ q \in [pc : {"idle", "walk", "found"}, path : Queries \cup {<<>>}, at : nodes,
                handler : named \cup {None}, result : named \cup {None},
                known : BOOLEAN, calm : BOOLEAN]
  BY <1>1 DEF NoQuery
<1>3. \A n : n \in Prefixes(<<>>) <=> n = <<>>
  <2>1. <<>> \in Seq(Symbols)
    OBVIOUS
  <2>2. \A n \in Seq(Symbols) : Below(<<>>, n)
    BY <2>1, BelowOrder
  <2> QED BY <2>1, <2>2, PrefixIff, BelowOrder, ZenonT(40)
<1>4. nodes \subseteq Nodes
  BY <1>1 DEF Nodes
<1>5. th \in [Threads -> [pc : {"idle", "walk", "check", "path", "children"},
                          path : Handlers \cup {<<>>}, at : nodes, hc : BOOLEAN]]
      /\ \A t \in Threads : th[t].pc = "idle"
  BY <1>1 DEF NoCall
<1>6. won \in [Handlers -> SUBSET (Threads \X BOOLEAN)]
  BY <1>1
<1>7. QueryOK
  BY <1>1, <1>2, <1>3, <1>4, <1>5, <1>6, NoneAssumption DEF QueryOK
<1>8. CallsOK
  BY <1>5 DEF CallsOK, CallOK
<1>9. HandlersOK /\ NodesUsed /\ NearestOK /\ KnownOK /\ SegmentOK /\ KnownIsFound /\ AnswersExpected
  BY <1>1, <1>2 DEF HandlersOK, NodesUsed, NearestOK, KnownOK, SegmentOK, KnownIsFound, AnswersExpected
<1> QED BY <1>7, <1>8, <1>9 DEF QueryInv

LEMMA QueryStepInv == QueryInv /\ [QueryNext]_queryVars => QueryInv'
<1> SUFFICES ASSUME QueryInv, [QueryNext]_queryVars PROVE QueryInv'
  OBVIOUS
<1>1. CASE \E t \in Threads : \E p \in Handlers, hc \in BOOLEAN : AddHandler(t, p, hc)
  BY <1>1, AddHandlerStep
<1>2. CASE \E t \in Threads : Walk(t)
  BY <1>2, WalkStep
<1>3. CASE \E t \in Threads : Unlock(t)
  BY <1>3, UnlockStep
<1>4. CASE \E t \in Threads : Exists(t)
  BY <1>4, ExistsStep
<1>5. CASE \E t \in Threads : IsFree(t)
  BY <1>5, IsFreeStep
<1>6. CASE \E t \in Threads : InitPath(t)
  BY <1>6, InitPathStep
<1>7. CASE \E t \in Threads : InitChildren(t)
  BY <1>7, InitChildrenStep
<1>8. CASE \E p \in Queries : Query(p)
  BY <1>8, BeginStep
<1>9. CASE Descend
  BY <1>9, DescendStep
<1>10. CASE NoChild
  BY <1>10, NoChildStep
<1>11. CASE AtEnd
  BY <1>11, AtEndStep
<1>12. CASE Return
  BY <1>12, ReturnStep
<1>13. CASE UNCHANGED queryVars
  <2>1. LookupOnly /\ q' = q
    BY <1>13 DEF queryVars, tree, LookupOnly
  <2>2. Expected(q.path)' = Expected(q.path)
    BY <2>1 DEF LookupOnly, Expected, Above
  <2>3. HandlersOK' /\ NearestOK' /\ KnownOK' /\ SegmentOK' /\ KnownIsFound'
    BY <2>1 DEF QueryInv, LookupOnly, HandlersOK, Asked, NearestOK, KnownOK, SegmentOK, KnownIsFound
  <2>4. AnswersExpected'
    BY <2>1, <2>2 DEF QueryInv, AnswersExpected
  <2> QED BY <2>1, <2>3, <2>4, LookupFacts, LookupStep
<1> QED BY <1>1, <1>2, <1>3, <1>4, <1>5, <1>6, <1>7, <1>8, <1>9, <1>10, <1>11, <1>12, <1>13, Zenon
        DEF QueryNext

(* The tree is complete below every node, its nodes lead to events, and a  *)
(* lookup stands on a node above the path it looks for: the inductive      *)
(* invariant of evs_query and evs_query_insert, for any number of threads, *)
(* events and paths.                                                       *)
THEOREM QueryInvariance == QuerySpec => []QueryInv
  BY QueryInitInv, QueryStepInv, PTL DEF QuerySpec

LEMMA FoundFromInv == QueryInv => FoundHandles
<1> SUFFICES ASSUME QueryInv, q.pc = "found", q.result # None, q.result # q.path
             PROVE  InSegment(q.result, q.path) /\ \E t \in Threads : <<t, TRUE>> \in won[q.result]
  BY DEF FoundHandles
<1>1. q.result = q.handler /\ q.path[Len(q.result) + 1] = SEP
  BY DEF QueryInv, HandlersOK, SegmentOK
<1>2. /\ q.result \in Seq(Symbols) /\ q.path \in Seq(Symbols)
      /\ Below(q.result, q.path) /\ Asked(q.result)
  BY <1>1, LookupFacts
<1> QED BY <1>1, <1>2, PrefixIff DEF InSegment, Asked

(* Whatever is registered meanwhile, evs_query only answers with an event  *)
(* of that very path, or with one that was registered for its children and *)
(* that the path continues with a new segment.                             *)
THEOREM AnswersHandle == QuerySpec => []FoundHandles
  BY FoundFromInv, QueryInvariance, PTL

(* An event that was there before the lookup is found, although evs_query  *)
(* reads the tree without evs_query_insert's lock.                         *)
THEOREM KnownFound == QuerySpec => []KnownIsFound
<1>1. QueryInv => KnownIsFound
  BY DEF QueryInv
<1> QED BY <1>1, QueryInvariance, PTL

(* A lookup that no registration overlaps gives the event itself, nothing  *)
(* inside another event's path, else the nearest event above that handles  *)
(* its children.                                                           *)
THEOREM CalmAnswers == QuerySpec => []AnswersExpected
<1>1. QueryInv => AnswersExpected
  BY DEF QueryInv
<1> QED BY <1>1, QueryInvariance, PTL

-----------------------------------------------------------------------------
(* The three stages together                                               *)

InboundInv ==
  /\ QueryInv
  /\ stage = "frame" => FrameInv /\ FramesAgree
  /\ stage # "frame" => at = 0 /\ rbuff = <<>> /\ status = "decoding" /\ out = NoOut
  /\ stage = "path" => WrittenInv
  /\ stage # "path" => pc = "none"

LEMMA InboundInitInv == Init => InboundInv
  BY QueryInitInv, FrameInitInv, FramesInit, WrittenInit DEF Init, InboundInv, NoFrame, NoPath

LEMMA InboundStepInv == InboundInv /\ [Next]_vars => InboundInv'
<1> SUFFICES ASSUME InboundInv, [Next]_vars PROVE InboundInv'
  OBVIOUS
<1>1. CASE stage = "frame" /\ FrameNext /\ UNCHANGED <<stage, pathVars, queryVars>>
  <2>1. QueryInv' /\ FrameInv' /\ FramesAgree'
    BY <1>1, QueryStepInv, FrameStepInv, FramesStep DEF InboundInv
  <2> QED BY <1>1, <2>1 DEF InboundInv, pathVars
<1>2. CASE stage = "path" /\ PathNext /\ UNCHANGED <<stage, frameVars, queryVars>>
  <2>1. QueryInv' /\ WrittenInv'
    BY <1>2, QueryStepInv, WrittenStep DEF InboundInv
  <2> QED BY <1>2, <2>1 DEF InboundInv, frameVars
<1>3. CASE stage = "lookup" /\ QueryNext /\ UNCHANGED <<stage, frameVars, pathVars>>
  <2>1. QueryInv'
    BY <1>3, QueryStepInv DEF InboundInv
  <2> QED BY <1>3, <2>1 DEF InboundInv, frameVars, pathVars
<1>4. CASE UNCHANGED vars
  <2>1. /\ QueryInv' /\ (stage = "frame" => FrameInv' /\ FramesAgree')
        /\ stage = "path" => WrittenInv'
    BY <1>4, QueryStepInv, FrameStepInv, FramesStep, WrittenStep DEF InboundInv, vars
  <2> QED BY <1>4, <2>1 DEF InboundInv, vars, frameVars, pathVars
<1> QED BY <1>1, <1>2, <1>3, <1>4 DEF Next

(* Each stage of a message keeps its invariant.                            *)
THEOREM InboundInvariance == Spec => []InboundInv
  BY InboundInitInv, InboundStepInv, PTL DEF Spec

(* The specification that the run explores: the stages have their types.   *)
THEOREM TypeCorrect == Spec => []TypeOK
<1>1. InboundInv => TypeOK
  BY DEF InboundInv, TypeOK, QueryInv, FrameInv, WrittenInv, PathInv
<1> QED BY <1>1, InboundInvariance, PTL

(* On the whole way from the socket to the handler, frames are decoded in  *)
(* place, paths cleaned and events looked up as they should be, and what   *)
(* is written back says how long it is.                                    *)
THEOREM StagesRight ==
  Spec => [](/\ DecodedInPlace /\ FramesAgree /\ WellFormed /\ CleansAsDefined
             /\ FoundHandles /\ KnownIsFound /\ AnswersExpected)
<1>1. InboundInv => FoundHandles /\ KnownIsFound /\ AnswersExpected
  BY FoundFromInv DEF InboundInv, QueryInv
<1>2. InboundInv => DecodedInPlace
  <2> SUFFICES ASSUME InboundInv, stage # "frame" PROVE DecodedInPlace
    BY DEF InboundInv, FrameInv
  <2>1. at = 0 /\ rbuff = <<>> /\ status = "decoding"
    BY DEF InboundInv
  <2>2. DOMAIN rbuff = {}
    BY <2>1
  <2> QED BY <2>1, <2>2 DEF DecodedInPlace
<1>3. InboundInv => WellFormed
  <2>1. PathInv => WellFormed
    BY DEF PathInv, WrittenClean, AfterSlash, WellFormed, Slash
  <2> QED BY <2>1 DEF InboundInv, WrittenInv, WellFormed
<1>4. InboundInv => CleansAsDefined
  <2>1. stage # "path" /\ InboundInv => CleansAsDefined
    BY DEF InboundInv, CleansAsDefined
  <2> QED BY <2>1, WrittenCleans DEF InboundInv
<1>5. InboundInv => FramesAgree
  <2>1. stage # "frame" /\ InboundInv => FramesAgree
    BY NothingWritten DEF InboundInv
  <2> QED BY <2>1 DEF InboundInv
<1> QED BY <1>1, <1>2, <1>3, <1>4, <1>5, InboundInvariance, PTL
=============================================================================
