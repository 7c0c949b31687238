-------------------------- MODULE MultiStartProofs --------------------------
(***************************************************************************)
(* Safety of the multi-start for every grid, every number of processes and *)
(* every budget, and that it implements BestOfGrid.                        *)
(***************************************************************************)
EXTENDS MultiStart, TLAPS, FiniteSetTheorems, WellFoundedInduction

-----------------------------------------------------------------------------
(* Arithmetic of the grid.                                                 *)

(* Quotient and remainder.                                                 *)
LEMMA Division ==
  ASSUME NEW n \in Nat, NEW m \in Nat \ {0}
  PROVE  /\ n \div m \in Nat /\ n % m \in 0 .. m - 1
         /\ n = m * (n \div m) + (n % m)
OBVIOUS

(* A product of naturals grows with either factor.                         *)
LEMMA TimesMonotone ==
  ASSUME NEW a \in Nat, NEW b \in Nat, NEW c \in Nat, a <= b
  PROVE  a * c <= b * c
<1>1. PICK d \in Nat : b = a + d
  <2> b - a \in Nat /\ b = a + (b - a)
    OBVIOUS
  <2> QED OBVIOUS
<1>2. d * c \in Nat
  OBVIOUS
<1>3. b * c = a * c + d * c
  BY <1>1
<1> QED BY <1>2, <1>3

(* Seeds of different rounds lie in different blocks.                      *)
LEMMA BlocksApart ==
  ASSUME NEW r \in Nat, NEW s \in Nat, NEW c \in Nat, r < s,
         NEW p \in 0 .. c - 1, NEW q \in Nat
  PROVE  r * c + p < s * c + q
<1>1. (r + 1) * c <= s * c
  BY TimesMonotone
<1>2. (r + 1) * c = r * c + c
  OBVIOUS
<1>3. r * c \in Nat /\ s * c \in Nat
  OBVIOUS
<1> QED BY <1>1, <1>2, <1>3

(* The seeds of a round fit the block it is given.                         *)
LEMMA SeedInBlock ==
  ASSUME NEW n \in Nat \ {0}, NEW m \in Nat \ {0}, NEW k \in 1 .. n
  PROVE  /\ CeilDiv(n, m) \in Nat
         /\ (k - 1) \div m \in 0 .. CeilDiv(n, m) - 1
<1> DEFINE q == (k - 1) \div m
           b == (n + m - 1) \div m
<1>1. q \in Nat /\ m * q <= k - 1
  <2>1. k - 1 \in Nat
    OBVIOUS
  <2>2. q \in Nat /\ (k - 1) % m \in 0 .. m - 1 /\ k - 1 = m * q + ((k - 1) % m)
    BY <2>1, Division
  <2>3. m * q \in Nat
    BY <2>2
  <2> QED BY <2>2, <2>3
<1>2. /\ b \in Nat /\ (n + m - 1) % m \in 0 .. m - 1
      /\ n + m - 1 = m * b + ((n + m - 1) % m)
  <2> n + m - 1 \in Nat
    OBVIOUS
  <2> QED BY Division
<1>3. n <= m * b
  <2> m * b \in Nat
    BY <1>2
  <2> QED BY <1>2
<1>4. q < b
  <2> SUFFICES ASSUME b <= q PROVE FALSE
    BY <1>1, <1>2
  <2>1. b * m <= q * m
    BY <1>1, <1>2, TimesMonotone
  <2>2. b * m = m * b /\ q * m = m * q /\ m * q \in Nat /\ m * b \in Nat
    BY <1>1, <1>2
  <2> HIDE DEF q, b
  <2> QED BY <1>1, <1>3, <2>1, <2>2
<1> QED BY <1>1, <1>2, <1>4 DEF CeilDiv

-----------------------------------------------------------------------------
(* The grid.                                                               *)

(* A call as solve and Minimal make them.                                  *)
GoodCall ==
  /\ call \in [optimize : BOOLEAN, attempts : Nat \ {0}, jobs : Nat \ {0},
              rounds : (Nat \ {0}) \cup {NoLimit}, budget : Nat \cup {NoLimit}]
  /\ call.rounds = NoLimit \/ call.budget = NoLimit
  /\ MostRounds(call) * CeilDiv(call.attempts, Len(Modes)) <= MaxSeed

(* The weightings are a list of distinct ones, each found at its place.    *)
LEMMA ModesFacts ==
  /\ Len(Modes) \in Nat \ {0}
  /\ \A i \in 1 .. Len(Modes) : Modes[i] \in Range(Modes) /\ ModeRank(Modes[i]) = i
  /\ \A m \in Range(Modes) : ModeRank(m) \in Nat
<1>1. Len(Modes) \in Nat \ {0} /\ DOMAIN Modes = 1 .. Len(Modes)
  BY GridAssumption
<1>2. \A i \in 1 .. Len(Modes) : Modes[i] \in Range(Modes)
  BY <1>1 DEF Range
<1>3. \A i \in 1 .. Len(Modes) : ModeRank(Modes[i]) = i
  BY <1>1, GridAssumption DEF ModeRank
<1>4. \A m \in Range(Modes) : \E i \in 1 .. Len(Modes) : m = Modes[i]
  BY <1>1 DEF Range
<1> QED BY <1>1, <1>2, <1>3, <1>4

LEMMA MostRoundsType ==
  ASSUME NEW c, c.rounds \in (Nat \ {0}) \cup {NoLimit}
  PROVE  MostRounds(c) \in Nat \ {0}
BY TimeAssumption DEF MostRounds

(* Every call a solve is in the middle of is a good one.                   *)
LEMMA CallIsGood ==
  ASSUME call \in Calls \cup {Minimal(c) : c \in Calls}
  PROVE  GoodCall
<1>1. CASE call \in Calls
  BY <1>1, CallAssumption, SeedAssumption DEF GoodCall
<1>2. CASE call \in {Minimal(c) : c \in Calls}
  <2>1. PICK c \in Calls : call = Minimal(c)
    BY <1>2
  <2>2. /\ c \in [optimize : BOOLEAN, attempts : Nat \ {0}, jobs : Nat \ {0},
                  rounds : (Nat \ {0}) \cup {NoLimit}, budget : Nat \cup {NoLimit}]
    BY CallAssumption
  <2>3. /\ call \in [optimize : BOOLEAN, attempts : Nat \ {0}, jobs : Nat \ {0},
                  rounds : (Nat \ {0}) \cup {NoLimit}, budget : Nat \cup {NoLimit}]
        /\ call.attempts = 1 /\ call.rounds = NoLimit /\ call.budget = NoLimit
    <3>1. call = [optimize |-> c.optimize, attempts |-> 1, jobs |-> c.jobs,
                  rounds |-> NoLimit, budget |-> NoLimit]
      BY <2>1, <2>2 DEF Minimal
    <3>2. c.optimize \in BOOLEAN /\ c.jobs \in Nat \ {0}
      BY <2>2
    <3> QED BY <3>1, <3>2
  <2>4. MostRounds(call) = 1
    BY <2>3 DEF MostRounds
  <2>5. CeilDiv(1, Len(Modes)) = 1
    <3>1. Len(Modes) \in Nat \ {0}
      BY ModesFacts
    <3>2. (1 + Len(Modes) - 1) \div Len(Modes) = 1
      BY <3>1
    <3> QED BY <3>2 DEF CeilDiv
  <2>6. 1 <= MaxSeed
    <3>1. MostRounds(c) \in Nat \ {0}
      BY <2>2, MostRoundsType
    <3>2. CeilDiv(c.attempts, Len(Modes)) \in Nat \ {0}
      <4>1. 1 \in 1 .. c.attempts /\ c.attempts \in Nat \ {0}
        BY <2>2
      <4>2. /\ CeilDiv(c.attempts, Len(Modes)) \in Nat
            /\ (1 - 1) \div Len(Modes) \in 0 .. CeilDiv(c.attempts, Len(Modes)) - 1
        BY <4>1, ModesFacts, SeedInBlock
      <4> QED BY <4>2
    <3>3. 1 * CeilDiv(c.attempts, Len(Modes)) <= MostRounds(c) * CeilDiv(c.attempts, Len(Modes))
      BY <3>1, <3>2, TimesMonotone
    <3>4. MostRounds(c) * CeilDiv(c.attempts, Len(Modes)) \in Nat
      BY <3>1, <3>2
    <3> QED BY <3>2, <3>3, <3>4, SeedAssumption
  <2> QED BY <2>3, <2>4, <2>5, <2>6 DEF GoodCall
<1> QED BY <1>1, <1>2

(* What entry k of round r's grid looks like.                              *)
LEMMA AttemptForm ==
  ASSUME GoodCall, NEW r \in Nat, NEW k \in Index
  PROVE  \E i \in 1 .. Len(Modes), q \in 0 .. CeilDiv(call.attempts, Len(Modes)) - 1 :
            /\ k - 1 = Len(Modes) * q + (i - 1)
            /\ Attempt(r, k) = <<Modes[i], r * CeilDiv(call.attempts, Len(Modes)) + q>>
<1> DEFINE m == Len(Modes)
           q == (k - 1) \div m
           i == ((k - 1) % m) + 1
<1>1. m \in Nat \ {0} /\ k \in Nat \ {0} /\ k - 1 \in Nat /\ k \in 1 .. call.attempts
      /\ call.attempts \in Nat \ {0}
  BY ModesFacts DEF GoodCall, Index
<1>2. q \in Nat /\ (k - 1) % m \in 0 .. m - 1 /\ k - 1 = m * q + ((k - 1) % m)
  BY <1>1, Division
<1>3. i \in 1 .. m /\ i - 1 = (k - 1) % m
  BY <1>1, <1>2
<1>4. q \in 0 .. CeilDiv(call.attempts, m) - 1
  BY <1>1, SeedInBlock
<1>5. Attempt(r, k) = <<Modes[i], r * CeilDiv(call.attempts, m) + q>>
  BY DEF Attempt, SeedOf
<1> HIDE DEF q, i
<1>6. k - 1 = m * q + (i - 1)
  BY <1>2, <1>3
<1> QED BY <1>3, <1>4, <1>5, <1>6

LEMMA BlockType ==
  ASSUME GoodCall
  PROVE  CeilDiv(call.attempts, Len(Modes)) \in Nat
<1>1. call.attempts \in Nat \ {0} /\ 1 \in 1 .. call.attempts
  BY DEF GoodCall
<1> QED BY <1>1, ModesFacts, SeedInBlock

(* Attempts are candidates, and not the bank columns.                      *)
LEMMA AttemptType ==
  ASSUME GoodCall, NEW r \in Nat, NEW k \in Index
  PROVE  /\ Attempt(r, k) \in Range(Modes) \X Nat
         /\ Attempt(r, k) # Columns /\ Attempt(r, k) # Nobody
         /\ r < MostRounds(call) => Attempt(r, k) \in Candidate
<1> DEFINE b == CeilDiv(call.attempts, Len(Modes))
<1>1. PICK i \in 1 .. Len(Modes), q \in 0 .. b - 1 : Attempt(r, k) = <<Modes[i], r * b + q>>
  BY AttemptForm
<1>2. b \in Nat /\ r * b \in Nat
  BY BlockType
<1>3. Modes[i] \in Range(Modes) /\ r * b + q \in Nat
  BY <1>2, ModesFacts
<1>4. Attempt(r, k) \in Range(Modes) \X Nat
  BY <1>1, <1>3
<1>5. Attempt(r, k) # Columns
  BY <1>4, GridAssumption
<1>6. Attempt(r, k) # Nobody
  BY <1>1 DEF Nobody
<1>7. ASSUME r < MostRounds(call) PROVE Attempt(r, k) \in Candidate
  <2>1. MostRounds(call) \in Nat
    BY MostRoundsType DEF GoodCall
  <2>2. (r + 1) * b <= MostRounds(call) * b
    <3>1. r + 1 \in Nat /\ r + 1 <= MostRounds(call)
      BY <1>7, <2>1
    <3> HIDE DEF b
    <3> QED BY <1>2, <2>1, <3>1, TimesMonotone
  <2>3. (r + 1) * b = r * b + b /\ MostRounds(call) * b \in Nat
    <3> HIDE DEF b
    <3> QED BY <1>2, <2>1
  <2>4. MostRounds(call) * b <= MaxSeed /\ MaxSeed \in Nat
    BY SeedAssumption DEF GoodCall
  <2> HIDE DEF b
  <2>5. r * b + q \in 0 .. MaxSeed
    BY <1>2, <2>2, <2>3, <2>4
  <2> QED BY <1>1, <1>3, <2>5 DEF Candidate
<1> QED BY <1>4, <1>5, <1>6, <1>7

(* The grid runs seed by seed, round after round.                          *)
LEMMA AttemptOrder ==
  ASSUME GoodCall, NEW r \in Nat, NEW s \in Nat, NEW j \in Index, NEW k \in Index,
         r < s \/ (r = s /\ j < k)
  PROVE  Earlier(Attempt(r, j), Attempt(s, k)) /\ Attempt(r, j) # Attempt(s, k)
<1> DEFINE b == CeilDiv(call.attempts, Len(Modes))
           m == Len(Modes)
<1>1. PICK i \in 1 .. m, p \in 0 .. b - 1 :
         j - 1 = m * p + (i - 1) /\ Attempt(r, j) = <<Modes[i], r * b + p>>
  BY AttemptForm
<1>2. PICK h \in 1 .. m, q \in 0 .. b - 1 :
         k - 1 = m * q + (h - 1) /\ Attempt(s, k) = <<Modes[h], s * b + q>>
  BY AttemptForm
<1>3. /\ b \in Nat /\ m \in Nat \ {0} /\ r * b \in Nat /\ s * b \in Nat
      /\ ModeRank(Modes[i]) = i /\ ModeRank(Modes[h]) = h
      /\ j \in Nat /\ k \in Nat
  BY BlockType, ModesFacts DEF Index, GoodCall
<1>4. Attempt(r, j) # Columns /\ Attempt(s, k) # Columns
  BY AttemptType
<1> HIDE DEF b, m
<1>5. \/ r * b + p < s * b + q
      \/ r * b + p = s * b + q /\ i < h
  <2>1. CASE r < s
    <3>1. q \in Nat
      BY <1>3
    <3>2. r * b + p < s * b + q
      BY <1>3, <2>1, <3>1, BlocksApart
    <3> QED BY <3>2
  <2>2. CASE r = s /\ j < k
    <3>1. m * p + i < m * q + h
      <4>1. m * p \in Nat /\ m * q \in Nat
        BY <1>3
      <4> QED BY <1>1, <1>2, <1>3, <2>2, <4>1
    <3>2. p <= q
      <4> SUFFICES ASSUME q < p PROVE FALSE
        BY <1>3
      <4>1. q * m + h < p * m + i
        <5>1. q \in Nat /\ p \in Nat /\ h - 1 \in 0 .. m - 1 /\ i - 1 \in Nat
          BY <1>3
        <5>2. q * m + (h - 1) < p * m + (i - 1)
          BY <1>3, <5>1, BlocksApart
        <5>3. q * m \in Nat /\ p * m \in Nat
          BY ONLY <5>1, <1>3
        <5> QED BY <5>2, <5>3
      <4>2. q * m = m * q /\ p * m = m * p /\ m * p \in Nat /\ m * q \in Nat
        BY <1>3
      <4> QED BY <3>1, <4>1, <4>2
    <3>3. CASE p = q
      <4>1. m * p \in Nat
        BY <1>3
      <4> QED BY <2>2, <3>1, <3>3, <4>1
    <3>4. CASE p < q
      BY <1>3, <2>2, <3>4
    <3> QED BY <1>3, <3>2, <3>3, <3>4
  <2> QED BY <2>1, <2>2
<1>6. Earlier(Attempt(r, j), Attempt(s, k))
  BY <1>1, <1>2, <1>3, <1>4, <1>5 DEF Earlier
<1>7. Attempt(r, j) # Attempt(s, k)
  <2>1. r * b + p # s * b + q \/ Modes[i] # Modes[h]
    BY <1>3, <1>5
  <2> QED BY <1>1, <1>2, <2>1
<1> QED BY <1>6, <1>7

(* The order of the candidates is one.                                     *)
LEMMA EarlierAsymmetric ==
  ASSUME NEW a \in {Columns} \cup (Range(Modes) \X Nat),
         NEW b \in {Columns} \cup (Range(Modes) \X Nat), Earlier(a, b)
  PROVE  ~Earlier(b, a)
<1>1. CASE a = Columns \/ b = Columns
  BY <1>1 DEF Earlier
<1>2. CASE a # Columns /\ b # Columns
  <2>1. a[2] \in Nat /\ b[2] \in Nat /\ ModeRank(a[1]) \in Nat /\ ModeRank(b[1]) \in Nat
    BY <1>2, ModesFacts
  <2> QED BY <1>2, <2>1 DEF Earlier
<1> QED BY <1>1, <1>2

-----------------------------------------------------------------------------
(* The inductive invariant.                                                *)

Kinds == {"valid", "partial", "gated"}

(* The attempts of the first n rounds, and of round n those of S.          *)
Full(n) == {Attempt(r, k) : r \in 0 .. n - 1, k \in Index}
Current(n, S) == {Attempt(n, k) : k \in S}

(* What TypeOK leaves open.                                                *)
Shapes ==
  /\ came = [a \in DOMAIN came |-> came[a]]
  /\ best = [kind \in Kinds |-> best[kind]]
  /\ spent \in Nat /\ last \in Nat

(* How far the solve has come, and which attempts have run by then.        *)
Progress ==
  /\ phase \in {"start", "columns", "first"} =>
       done = 0 /\ running = {} /\ finished = {} /\ cursor = 0 /\ pool = "none"
  /\ phase = "start" => call \in Calls
  /\ phase \in {"start", "columns"} => DOMAIN came = {} /\ Range(best) = {Nobody}
  /\ phase = "first" => DOMAIN came \subseteq {Columns}
  /\ phase = "attempts" =>
       /\ done < MostRounds(call)
       /\ cursor > 0 => finished = Index
       /\ DOMAIN came \ {Columns} = Full(done) \cup Current(done, finished)
  /\ phase \in {"ranked", "fallback"} =>
       /\ done > 0 /\ running = {}
       /\ DOMAIN came \ {Columns} = Full(done)
  /\ phase \in {"attempts", "ranked", "fallback"} => line.fits
  /\ phase = "fallback" => best.valid = Nobody /\ line.fast # "valid"

(* What has been read: whole rounds, and of this one up to the cursor.     *)
ReadNow ==
  (DOMAIN came \cap {Columns}) \cup Full(done)
    \cup (IF phase = "attempts" THEN Current(done, 1 .. cursor) ELSE {})

(* Of two candidates of a kind, with these outcomes, a is preferred.       *)
Preferred(kind, a, b, outcome) ==
  IF kind = "gated" THEN Earlier(a, b)
  ELSE \/ outcome[a].rank < outcome[b].rank
       \/ outcome[a].rank = outcome[b].rank /\ Earlier(a, b)

(* The one kept is of the kind's candidates in S the preferred one.        *)
Kept(kind, S, one, outcome) ==
  IF one = Nobody THEN \A a \in S : outcome[a].kind # kind
  ELSE /\ one \in S /\ outcome[one].kind = kind
       /\ \A b \in S \ {one} : outcome[b].kind = kind => Preferred(kind, one, b, outcome)

BestIsKept ==
  phase # "done" => \A kind \in Kinds : Kept(kind, ReadNow, best[kind], came)

(* As many attempts have run as the rounds come to.                        *)
Counted ==
  phase = "attempts" =>
    /\ IsFiniteSet(DOMAIN came \ {Columns})
    /\ Cardinality(DOMAIN came \ {Columns}) = done * call.attempts + Cardinality(finished)

(* A round is only begun while what is spent fits the budget.              *)
Budgeted ==
  call.budget # NoLimit =>
    /\ done > 1 => spent - last <= call.budget
    /\ phase = "attempts" /\ done > 0 => spent <= call.budget

IInv == TypeOK /\ Shapes /\ Progress /\ BestIsKept /\ Counted /\ Budgeted /\ NeverWorseThanFast

(* What the call fixes stays with it.                                      *)
LEMMA GridSame ==
  ASSUME call' = call
  PROVE  /\ Index' = Index /\ Workers' = Workers /\ (GoodCall)' = GoodCall
         /\ \A n : Full(n)' = Full(n)
         /\ \A m, S : Current(m, S)' = Current(m, S)
<1>1. Index' = Index /\ Workers' = Workers
  BY DEF Index, Workers
<1>2. \A r, k : Attempt(r, k)' = Attempt(r, k)
  BY DEF Attempt, SeedOf
<1>3. \A n : Full(n)' = Full(n)
  BY <1>1, <1>2 DEF Full
<1>4. \A m, S : Current(m, S)' = Current(m, S)
  BY <1>2 DEF Current
<1> QED BY <1>1, <1>3, <1>4 DEF GoodCall, MostRounds

LEMMA Facts ==
  ASSUME IInv
  PROVE  GoodCall /\ call.attempts \in Nat \ {0} /\ Index = 1 .. call.attempts
BY CallIsGood DEF IInv, TypeOK, GoodCall, Index

LEMMA IndexFinite ==
  ASSUME IInv
  PROVE  /\ IsFiniteSet(Index) /\ Cardinality(Index) = call.attempts
         /\ IsFiniteSet(finished) /\ IsFiniteSet(running)
<1>1. call.attempts \in Nat \ {0} /\ Index = 1 .. call.attempts
  BY Facts
<1>2. IsFiniteSet(Index) /\ Cardinality(Index) = call.attempts
  BY <1>1, FS_Interval
<1>3. finished \in SUBSET Index /\ running \in SUBSET Index
  BY DEF IInv, TypeOK
<1> QED BY <1>2, <1>3, FS_Subset

(* Only candidates that have run are read.                                 *)
LEMMA ReadHaveRun ==
  ASSUME IInv, phase # "done"
  PROVE  ReadNow \subseteq DOMAIN came
<1>1. CASE phase \in {"start", "columns", "first"}
  <2>1. Full(done) = {}
    BY <1>1 DEF IInv, Progress, Full
  <2> QED BY <1>1, <2>1 DEF ReadNow
<1>2. CASE phase = "attempts"
  <2>1. Current(done, 1 .. cursor) \subseteq Current(done, finished)
    <3>1. 1 .. cursor \subseteq finished
      BY <1>2, Facts DEF IInv, TypeOK, Progress
    <3> QED BY <3>1 DEF Current
  <2> QED BY <1>2, <2>1 DEF ReadNow, IInv, Progress
<1>3. CASE phase \in {"ranked", "fallback"}
  BY <1>3 DEF ReadNow, IInv, Progress
<1> QED BY <1>1, <1>2, <1>3 DEF IInv, TypeOK

(* What has run is no one's absence.                                       *)
LEMMA RunIsSomeone ==
  ASSUME IInv, phase # "done", NEW a \in DOMAIN came
  PROVE  a # Nobody /\ a \in {Columns} \cup (Range(Modes) \X Nat) /\ came[a] \in Outcome
<1>1. came[a] \in Outcome
  BY DEF IInv, TypeOK, Range
<1>2. \A r \in Nat, k \in Index : Attempt(r, k) # Nobody /\ Attempt(r, k) \in Range(Modes) \X Nat
  BY Facts, AttemptType
<1>3. a = Columns \/ \E r \in Nat, k \in Index : a = Attempt(r, k)
  <2>1. CASE phase \in {"start", "columns", "first"}
    BY <2>1 DEF IInv, Progress
  <2>2. CASE phase = "attempts"
    BY <2>2 DEF IInv, Progress, TypeOK, Full, Current
  <2>3. CASE phase \in {"ranked", "fallback"}
    BY <2>3 DEF IInv, Progress, TypeOK, Full
  <2> QED BY <2>1, <2>2, <2>3 DEF IInv, TypeOK
<1> QED BY <1>1, <1>2, <1>3, GridAssumption

(* What is kept of candidates that have run does not change with what runs *)
(* later.                                                                  *)
LEMMA KeptStays ==
  ASSUME NEW kind, NEW S, NEW one, NEW old, NEW new,
         \A a \in S : new[a] = old[a], Kept(kind, S, one, old)
  PROVE  Kept(kind, S, one, new)
BY DEF Kept, Preferred

(* Reading a later candidate keeps the preferred one.                      *)
LEMMA ReadKeeps ==
  ASSUME NEW S, NEW a, a \notin S, a # Nobody, \A b \in S : Earlier(b, a),
         \A b \in S \cup {a} : came[b] \in Outcome,
         best = [kind \in Kinds |-> best[kind]],
         \A kind \in Kinds : Kept(kind, S, best[kind], came)
  PROVE  /\ Read(a) = [kind \in Kinds |-> Read(a)[kind]]
         /\ \A kind \in Kinds : /\ Read(a)[kind] \in {a, best[kind]}
                                /\ Kept(kind, S \cup {a}, Read(a)[kind], came)
<1> DEFINE k == came[a].kind
<1>1. k \in Kinds /\ \A b \in S \cup {a} : came[b].rank \in Int
  BY OutcomeAssumption DEF Kinds
<1>2. /\ Read(a) = [kind \in Kinds |-> Read(a)[kind]]
      /\ \A kind \in Kinds \ {k} : Read(a)[kind] = best[kind]
      /\ Read(a)[k] = IF (IF k = "gated" THEN best["gated"] # Nobody ELSE ~Better(a, best[k]))
                        THEN best[k] ELSE a
  BY <1>1 DEF Read, Kinds
<1>3. ASSUME NEW kind \in Kinds \ {k}
      PROVE  Kept(kind, S \cup {a}, Read(a)[kind], came)
  BY <1>2, <1>3 DEF Kept
<1>4. Kept(k, S \cup {a}, Read(a)[k], came)
  <2>0. Kept(k, S, best[k], came)
    BY <1>1
  <2>1. CASE best[k] = Nobody
    <3>1. Read(a)[k] = a
      BY <1>2, <2>1 DEF Better
    <3> QED BY <2>0, <2>1, <3>1 DEF Kept
  <2>2. CASE best[k] # Nobody /\ Read(a)[k] = best[k]
    <3>1. best[k] \in S /\ Earlier(best[k], a)
      BY <2>0, <2>2 DEF Kept
    <3>2. Preferred(k, best[k], a, came)
      <4>1. CASE k = "gated"
        BY <3>1, <4>1 DEF Preferred
      <4>2. CASE k # "gated"
        <5>1. best[k] # a
          BY <3>1
        <5>2. ~(came[a].rank < came[best[k]].rank)
          BY <1>2, <2>2, <4>2, <5>1 DEF Better
        <5>3. came[a].rank \in Int /\ came[best[k]].rank \in Int
          BY <1>1, <3>1
        <5> QED BY <3>1, <4>2, <5>2, <5>3 DEF Preferred
      <4> QED BY <4>1, <4>2
    <3> HIDE DEF k
    <3> QED BY <2>0, <2>2, <3>2 DEF Kept
  <2>3. CASE best[k] # Nobody /\ Read(a)[k] # best[k]
    <3>1. k # "gated" /\ Read(a)[k] = a /\ came[a].rank < came[best[k]].rank
      BY <1>2, <2>3 DEF Better
    <3>2. best[k] \in S /\ came[best[k]].rank \in Int /\ came[a].rank \in Int
      BY <1>1, <2>0, <2>3 DEF Kept
    <3>3. ASSUME NEW b \in S, came[b].kind = k PROVE came[a].rank < came[b].rank
      <4>1. b = best[k] \/ came[best[k]].rank <= came[b].rank
        <5> HIDE DEF k
        <5>1. b = best[k] \/ Preferred(k, best[k], b, came)
          BY <2>0, <2>3, <3>3 DEF Kept
        <5>2. came[b].rank \in Int
          BY <1>1
        <5> QED BY <3>1, <3>2, <5>1, <5>2 DEF Preferred
      <4>2. came[b].rank \in Int
        BY <1>1
      <4> QED BY <3>1, <3>2, <4>1, <4>2
    <3> QED BY <3>1, <3>3 DEF Kept, Preferred
  <2> QED BY <2>1, <2>2, <2>3
<1>5. \A kind \in Kinds : Read(a)[kind] \in {a, best[kind]}
  BY <1>2
<1> QED BY <1>2, <1>3, <1>4, <1>5

-----------------------------------------------------------------------------
(* An attempt runs.                                                        *)

(* No attempt runs twice: what is not of this round's finished ones has    *)
(* not run in a round before either.                                       *)
LEMMA UnfinishedIsFresh ==
  ASSUME IInv, phase \in {"first", "attempts"}, NEW k \in Index \ finished
  PROVE  Attempt(done, k) \notin DOMAIN came
<1>1. GoodCall /\ done \in Nat /\ finished \subseteq Index /\ Index \subseteq Nat
  BY Facts DEF IInv, TypeOK
<1>2. Attempt(done, k) # Columns
  BY <1>1, AttemptType
<1>3. CASE phase = "first"
  BY <1>2, <1>3 DEF IInv, Progress
<1>4. CASE phase = "attempts"
  <2>1. \A r \in 0 .. done - 1, j \in Index : Attempt(r, j) # Attempt(done, k)
    BY <1>1, AttemptOrder
  <2>2. \A j \in finished : Attempt(done, j) # Attempt(done, k)
    <3> TAKE j \in finished
    <3>1. j \in Index /\ j # k /\ j \in Nat /\ k \in Nat
      BY <1>1
    <3>2. j < k \/ k < j
      BY <3>1
    <3> QED BY <1>1, <3>1, <3>2, AttemptOrder
  <2>3. Attempt(done, k) \notin Full(done) /\ Attempt(done, k) \notin Current(done, finished)
    BY <2>1, <2>2 DEF Full, Current
  <2> QED BY <1>2, <1>4, <2>3 DEF IInv, Progress
<1> QED BY <1>3, <1>4

(* Its outcome joins the others', which stay.                              *)
LEMMA OutcomeJoins ==
  ASSUME IInv, phase \in {"first", "attempts"}, NEW k \in Index \ finished,
         NEW o \in Outcome, ComesTo(k, o)
  PROVE  /\ DOMAIN came' = DOMAIN came \cup {Attempt(done, k)}
         /\ came' = [b \in DOMAIN came' |-> came'[b]]
         /\ \A b \in DOMAIN came : came'[b] = came[b]
         /\ came'[Attempt(done, k)] = o /\ Range(came') \subseteq Outcome
<1>1. Attempt(done, k) \notin DOMAIN came
  BY UnfinishedIsFresh
<1>2. came' = [b \in DOMAIN came \cup {Attempt(done, k)} |-> IF b = Attempt(done, k) THEN o ELSE came[b]]
  BY DEF ComesTo
<1>3. \A b \in DOMAIN came : came[b] \in Outcome
  BY DEF IInv, TypeOK, Range
<1> QED BY <1>1, <1>2, <1>3 DEF Range

(* The parts of the invariant an attempt that runs may disturb: its place  *)
(* in the grid, what has been read, and the count.                         *)
LEMMA AttemptRuns ==
  ASSUME IInv, phase \in {"first", "attempts"}, NEW k \in Index \ finished,
         \E o \in Outcome : ComesTo(k, o),
         phase = "first" => line.fits /\ done < MostRounds(call),
         finished' = finished \cup {k}, phase' = "attempts", cursor = 0 \/ finished # Index,
         UNCHANGED <<line, call, done, cursor, best, spent, last, answer>>
  PROVE  /\ Shapes' /\ Progress' /\ BestIsKept' /\ Counted' /\ Budgeted' /\ NeverWorseThanFast'
         /\ Range(came') \subseteq Outcome /\ Range(best') \subseteq DOMAIN came' \cup {Nobody}
<1>1. PICK o \in Outcome : ComesTo(k, o)
  OBVIOUS
<1>2. /\ DOMAIN came' = DOMAIN came \cup {Attempt(done, k)}
      /\ came' = [b \in DOMAIN came' |-> came'[b]]
      /\ \A b \in DOMAIN came : came'[b] = came[b]
      /\ Range(came') \subseteq Outcome
  BY <1>1, OutcomeJoins
<1>3. Attempt(done, k) \notin DOMAIN came /\ Attempt(done, k) # Columns
  BY UnfinishedIsFresh, Facts, AttemptType DEF IInv, TypeOK
<1>4. cursor = 0
  BY DEF IInv, TypeOK, Progress
<1>5. DOMAIN came \ {Columns} = Full(done) \cup Current(done, finished)
  <2>1. CASE phase = "first"
    BY <2>1 DEF IInv, Progress, Full, Current
  <2>2. CASE phase = "attempts"
    BY <2>2 DEF IInv, Progress
  <2> QED BY <2>1, <2>2
<1>6. Shapes'
  BY <1>2 DEF IInv, Shapes
<1>7. Progress'
  <2>1. DOMAIN came' \ {Columns} = Full(done) \cup Current(done, finished')
    BY <1>2, <1>3, <1>5 DEF Current
  <2>2. Full(done)' = Full(done) /\ Current(done, finished)' = Current(done, finished')
    BY GridSame
  <2>3. done' < MostRounds(call)'
    BY DEF IInv, Progress, MostRounds
  <2>4. DOMAIN came' \ {Columns} = Full(done)' \cup Current(done, finished)'
    BY <2>1, <2>2
  <2>5. line.fits'
    BY DEF IInv, Progress
  <2> QED BY <1>4, <2>3, <2>4, <2>5 DEF Progress
<1>8. BestIsKept'
  <2>1. ReadNow' = ReadNow
    <3>1. Full(done)' = Full(done) /\ Current(done, 1 .. cursor)' = Current(done, 1 .. cursor)
      BY GridSame
    <3>2. Current(done, 1 .. cursor) = {}
      BY <1>4 DEF Current
    <3>3. DOMAIN came' \cap {Columns} = DOMAIN came \cap {Columns}
      BY <1>2, <1>3
    <3> QED BY <3>1, <3>2, <3>3 DEF ReadNow
  <2>2. \A a \in ReadNow : came'[a] = came[a]
    BY <1>2, ReadHaveRun
  <2>3. \A kind \in Kinds : Kept(kind, ReadNow, best[kind], came)
    BY DEF IInv, BestIsKept
  <2>4. \A kind \in Kinds : Kept(kind, ReadNow, best[kind], came')
    BY <2>2, <2>3, KeptStays
  <2> QED BY <2>1, <2>4 DEF BestIsKept
<1>9. Counted'
  <2>1. DOMAIN came' \ {Columns} = (DOMAIN came \ {Columns}) \cup {Attempt(done, k)}
    BY <1>2, <1>3
  <2>2. IsFiniteSet(finished)
    BY IndexFinite
  <2>3. Cardinality(finished') = Cardinality(finished) + 1 /\ Cardinality(finished) \in Nat
    BY <2>2, FS_AddElement, FS_CardinalityType
  <2>4. /\ IsFiniteSet(DOMAIN came \ {Columns})
        /\ Cardinality(DOMAIN came \ {Columns}) = done * call.attempts + Cardinality(finished)
    <3>1. CASE phase = "first"
      <4>1. DOMAIN came \ {Columns} = {} /\ finished = {} /\ done = 0
        BY <3>1 DEF IInv, Progress
      <4>2. 0 * call.attempts = 0
        BY Facts
      <4> QED BY <4>1, <4>2, FS_EmptySet
    <3>2. CASE phase = "attempts"
      BY <3>2 DEF IInv, Counted
    <3> QED BY <3>1, <3>2
  <2>5. /\ IsFiniteSet(DOMAIN came' \ {Columns})
        /\ Cardinality(DOMAIN came' \ {Columns}) = Cardinality(DOMAIN came \ {Columns}) + 1
    <3>1. IsFiniteSet(DOMAIN came \ {Columns}) /\ Attempt(done, k) \notin DOMAIN came \ {Columns}
      BY <1>3, <2>4
    <3> QED BY ONLY <2>1, <3>1, FS_AddElement
  <2>6. done * call.attempts \in Nat
    BY Facts DEF IInv, TypeOK
  <2> QED BY <2>3, <2>4, <2>5, <2>6 DEF Counted
<1>10. Budgeted'
  BY DEF IInv, Budgeted, Progress
<1>11. NeverWorseThanFast'
  BY DEF NeverWorseThanFast
<1>12. Range(best') \subseteq DOMAIN came' \cup {Nobody}
  BY <1>2 DEF IInv, TypeOK
<1> QED BY <1>2, <1>6, <1>7, <1>8, <1>9, <1>10, <1>11, <1>12

-----------------------------------------------------------------------------
(* Every step keeps the invariant.                                         *)

LEMMA InitIInv == Init => IInv
<1> SUFFICES ASSUME Init PROVE IInv
  OBVIOUS
<1>1. DOMAIN came = {} /\ came = [a \in DOMAIN came |-> came[a]]
  BY DEF Init
<1>2. best = [kind \in Kinds |-> best[kind]] /\ \A kind \in Kinds : best[kind] = Nobody
  BY DEF Init, Kinds
<1>3. Range(best) = {Nobody}
  BY <1>2 DEF Range, Kinds
<1>4. call.attempts \in Nat \ {0}
  BY CallIsGood DEF Init, GoodCall
<1>5. TypeOK
  BY <1>1, <1>3, <1>4, FS_EmptySet DEF Init, TypeOK, Range, NoAnswer
<1>6. BestIsKept
  <2>1. ReadNow = {}
    BY <1>1 DEF Init, ReadNow, Full
  <2> QED BY <1>2, <2>1 DEF BestIsKept, Kept
<1> QED BY <1>1, <1>2, <1>3, <1>5, <1>6
        DEF Init, IInv, Shapes, Progress, Counted, Budgeted, NeverWorseThanFast

(* An answer ends the solve, with no attempt still running.                *)
LEMMA ConcludeIInv ==
  ASSUME IInv, NEW path, NEW from, Conclude(path, from),
         phase \in {"start", "first", "ranked", "fallback"},
         done' = done \/ (phase = "first" /\ done' = done + 1),
         line.fits /\ line.fast = "valid" => path \in {"valid", "fast", "constructive"}
  PROVE  IInv'
<1>1. running = {} /\ phase' = "done"
  BY DEF IInv, Progress, Conclude
<1>2. [path |-> path, from |-> from] # NoAnswer
  <2>1. DOMAIN [path |-> path, from |-> from] = {"path", "from"} /\ DOMAIN NoAnswer = {}
    BY DEF NoAnswer
  <2> QED BY <2>1
<1>3. answer'.path = path /\ answer' # NoAnswer
  BY <1>2 DEF Conclude
<1>4. done' \in Nat
  BY DEF IInv, TypeOK
<1>5. TypeOK'
  <2>1. /\ line' \in Lines /\ call' \in Calls \cup {Minimal(c) : c \in Calls}
        /\ phase' = "done" /\ done' \in Nat /\ cursor' \in 0 .. call'.attempts
        /\ running' = {} /\ finished' \subseteq Index'
        /\ Range(came') \subseteq Outcome /\ Range(best') \subseteq DOMAIN came' \cup {Nobody}
    BY <1>1, <1>4, GridSame DEF IInv, TypeOK, Conclude, Idle
  <2>2. pool' \in {"none", "closed"}
    BY DEF IInv, TypeOK, Conclude
  <2> QED BY <1>3, <2>1, <2>2 DEF TypeOK
<1>6. Shapes' /\ Progress' /\ BestIsKept' /\ Counted'
  BY <1>1 DEF IInv, Shapes, Conclude, Idle, Progress, BestIsKept, Counted
<1>7. Budgeted'
  BY <1>1 DEF IInv, Budgeted, Progress, Conclude, Idle
<1>8. NeverWorseThanFast'
  BY <1>3 DEF NeverWorseThanFast, Conclude
<1> QED BY <1>5, <1>6, <1>7, <1>8 DEF IInv

LEMMA StartSearchIInv == IInv /\ StartSearch => IInv'
<1> SUFFICES ASSUME IInv, StartSearch PROVE IInv'
  OBVIOUS
<1>1. /\ call' \in Calls \cup {Minimal(c) : c \in Calls} /\ phase' = "columns"
      /\ done' = 0 /\ running' = {} /\ finished' = {} /\ cursor' = 0 /\ pool' = "none"
      /\ UNCHANGED <<line, came, best, answer, spent, last>>
  BY DEF IInv, Progress, StartSearch, Idle
<1>2. call'.attempts \in Nat \ {0}
  <2>1. call \in Calls /\ call' \in {call, Minimal(call)}
    BY DEF IInv, Progress, StartSearch
  <2>2. call.attempts \in Nat \ {0}
    BY Facts
  <2>3. Minimal(call).attempts = 1
    BY <2>1, CallAssumption DEF Minimal
  <2> QED BY <2>1, <2>2, <2>3
<1>3. TypeOK'
  BY <1>1, <1>2 DEF IInv, TypeOK, StartSearch
<1>4. Shapes' /\ Progress' /\ Counted' /\ Budgeted' /\ NeverWorseThanFast'
  BY <1>1 DEF IInv, Shapes, Progress, Counted, Budgeted, NeverWorseThanFast, StartSearch
<1>5. BestIsKept'
  <2>1. ReadNow' = {}
    BY <1>1 DEF IInv, Progress, StartSearch, ReadNow, Full
  <2>2. \A kind \in Kinds : best'[kind] = Nobody
    BY <1>1 DEF IInv, Shapes, Progress, StartSearch, Range
  <2> QED BY <2>1, <2>2 DEF BestIsKept, Kept
<1> QED BY <1>3, <1>4, <1>5 DEF IInv

(* The columns are kept when they are VALID, and are then all there is.    *)
LEMMA RouteColumnsIInv == IInv /\ RouteColumns => IInv'
<1> SUFFICES ASSUME IInv, RouteColumns PROVE IInv'
  OBVIOUS
<1>1. /\ phase = "columns" /\ phase' = "first" /\ DOMAIN came = {} /\ done = 0 /\ cursor = 0
      /\ running = {} /\ finished = {} /\ pool = "none"
      /\ UNCHANGED <<line, call, done, pool, running, finished, cursor, last, answer>>
  BY DEF IInv, Progress, RouteColumns
<1>2. spent' \in Nat
  BY TimeAssumption DEF RouteColumns, Elapsed
<1>3. \A kind \in Kinds : best[kind] = Nobody
  BY <1>1 DEF IInv, Shapes, Progress, Range
<1>4. /\ came' = [a \in DOMAIN came' |-> came'[a]] /\ DOMAIN came' \subseteq {Columns}
      /\ Range(came') \subseteq Outcome
      /\ best' = [kind \in Kinds |-> best'[kind]]
      /\ \A kind \in Kinds : best'[kind] \in DOMAIN came' \cup {Nobody}
      /\ \A kind \in Kinds : Kept(kind, DOMAIN came', best'[kind], came')
  <2>1. CASE UNCHANGED <<came, best>>
    BY <1>1, <1>3, <2>1 DEF IInv, Shapes, TypeOK, Kept
  <2>2. ASSUME NEW o \in Outcome, o.kind = "valid", came' = [a \in {Columns} |-> o],
               best' = [best EXCEPT !.valid = Columns]
        PROVE  /\ came' = [a \in DOMAIN came' |-> came'[a]] /\ DOMAIN came' \subseteq {Columns}
               /\ Range(came') \subseteq Outcome
               /\ best' = [kind \in Kinds |-> best'[kind]]
               /\ \A kind \in Kinds : best'[kind] \in DOMAIN came' \cup {Nobody}
               /\ \A kind \in Kinds : Kept(kind, DOMAIN came', best'[kind], came')
    <3>1. best' = [kind \in Kinds |-> best'[kind]] /\ best'["valid"] = Columns
          /\ best'["partial"] = Nobody /\ best'["gated"] = Nobody
      BY <1>3, <2>2 DEF IInv, Shapes, Kinds
    <3>2. DOMAIN came' = {Columns} /\ came'[Columns] = o
      BY <2>2
    <3>3. \A kind \in Kinds : Kept(kind, DOMAIN came', best'[kind], came')
      BY <2>2, <3>1, <3>2, GridAssumption DEF Kinds, Kept
    <3> QED BY <2>2, <3>1, <3>2, <3>3 DEF Kinds, Range
  <2> QED BY <2>1, <2>2 DEF RouteColumns
<1>5. Range(best') \subseteq DOMAIN came' \cup {Nobody}
  BY <1>4 DEF Range
<1>6. TypeOK'
  BY <1>1, <1>4, <1>5, GridSame, FS_EmptySet DEF IInv, TypeOK
<1>7. Shapes' /\ Progress' /\ Counted' /\ Budgeted' /\ NeverWorseThanFast'
  BY <1>1, <1>2, <1>4 DEF IInv, Shapes, Progress, Counted, Budgeted, NeverWorseThanFast
<1>8. BestIsKept'
  <2>1. Full(done)' = {}
    <3>1. done' = 0 /\ 0 .. done' - 1 = {}
      BY <1>1
    <3> QED BY <3>1 DEF Full
  <2>2. ReadNow' = DOMAIN came'
    <3>1. phase' # "attempts" /\ DOMAIN came' \subseteq {Columns}
      BY <1>1, <1>4
    <3> QED BY <2>1, <3>1 DEF ReadNow
  <2> QED BY <1>4, <2>2 DEF BestIsKept
<1> QED BY <1>6, <1>7, <1>8 DEF IInv

LEMMA RunFirstIInv == IInv /\ RunFirst => IInv'
<1> SUFFICES ASSUME IInv, RunFirst PROVE IInv'
  OBVIOUS
<1>1. phase = "first" /\ done = 0 /\ finished = {} /\ cursor = 0 /\ running = {} /\ pool = "none"
  BY DEF IInv, Progress, RunFirst
<1>2. 1 \in Index \ finished
  BY <1>1, Facts
<1>3. done < MostRounds(call)
  BY <1>1, Facts, MostRoundsType DEF GoodCall
<1>4. /\ Shapes' /\ Progress' /\ BestIsKept' /\ Counted' /\ Budgeted' /\ NeverWorseThanFast'
      /\ Range(came') \subseteq Outcome /\ Range(best') \subseteq DOMAIN came' \cup {Nobody}
  BY <1>1, <1>2, <1>3, AttemptRuns DEF RunFirst
<1>5. TypeOK'
  BY <1>1, <1>2, <1>4, GridSame, FS_EmptySet DEF IInv, TypeOK, RunFirst
<1> QED BY <1>4, <1>5 DEF IInv

(* The earliest attempt not yet started is one.                            *)
LEMMA EarliestUnstarted ==
  ASSUME IInv, Unstarted # {}
  PROVE  Min(Unstarted) \in Unstarted
<1>1. Unstarted \subseteq Nat
  BY Facts DEF Unstarted
<1>2. \E x \in Unstarted : \A y \in Unstarted : ~(<<y, x>> \in OpToRel(<, Nat))
  BY <1>1, NatLessThanWellFounded, WFMin
<1>3. \E x \in Unstarted : \A y \in Unstarted : x <= y
  <2>1. PICK x \in Unstarted : \A y \in Unstarted : ~(<<y, x>> \in OpToRel(<, Nat))
    BY <1>2
  <2>2. \A y \in Unstarted : ~(y < x)
    BY <1>1, <2>1 DEF OpToRel
  <2>3. \A y \in Unstarted : x <= y
    BY <1>1, <2>2
  <2> QED BY <2>3
<1> QED BY <1>3 DEF Min

LEMMA RunHereIInv == IInv /\ RunHere => IInv'
<1> SUFFICES ASSUME IInv, RunHere PROVE IInv'
  OBVIOUS
<1> DEFINE k == Min(Unstarted)
<1>1. k \in Index \ finished /\ running = {} /\ k \in Index \ running
  BY EarliestUnstarted DEF RunHere, Unstarted, IInv, TypeOK
<1>2. /\ Shapes' /\ Progress' /\ BestIsKept' /\ Counted' /\ Budgeted' /\ NeverWorseThanFast'
      /\ Range(came') \subseteq Outcome /\ Range(best') \subseteq DOMAIN came' \cup {Nobody}
  BY <1>1, AttemptRuns DEF RunHere
<1>3. finished' \subseteq Index' /\ running' = {} /\ Index' = Index
  BY <1>1, GridSame DEF RunHere, IInv, TypeOK
<1> HIDE DEF k
<1>4. TypeOK'
  BY <1>2, <1>3 DEF IInv, TypeOK, RunHere
<1> QED BY <1>2, <1>4 DEF IInv

LEMMA WorkersType ==
  ASSUME IInv
  PROVE  Workers \in Int
<1>1. call.jobs \in Int /\ call.attempts - 1 \in Int
  BY Facts DEF GoodCall
<1>2. \E x \in {call.jobs, call.attempts - 1} : \A y \in {call.jobs, call.attempts - 1} : x <= y
  BY <1>1
<1>3. Workers \in {call.jobs, call.attempts - 1}
  BY <1>2 DEF Workers, Min
<1> QED BY <1>1, <1>3

LEMMA PoolTakesIInv == IInv /\ PoolTakes => IInv'
<1> SUFFICES ASSUME IInv, PoolTakes PROVE IInv'
  OBVIOUS
<1> DEFINE k == Min(Unstarted)
<1>1. k \in Index \ (finished \cup running)
  BY EarliestUnstarted DEF PoolTakes, Unstarted
<1>2. Cardinality(running') <= Workers
  <2>1. IsFiniteSet(running) /\ Cardinality(running) \in Nat /\ Workers \in Int
    BY IndexFinite, WorkersType, FS_CardinalityType
  <2>2. Cardinality(running \cup {k}) = Cardinality(running) + 1
    BY <1>1, <2>1, FS_AddElement
  <2>3. Cardinality(running) < Workers
    BY DEF PoolTakes, FreeProcess
  <2> QED BY <2>1, <2>2, <2>3 DEF PoolTakes
<1> HIDE DEF k
<1>3. UNCHANGED <<line, call, phase, done, pool, finished, cursor, came, best, spent, last, answer>>
      /\ running' = running \cup {k} /\ pool = "open" /\ phase = "attempts"
  BY DEF PoolTakes, k
<1>4. Index' = Index /\ Workers' = Workers /\ ReadNow' = ReadNow
      /\ \A n : Full(n)' = Full(n)
      /\ \A m, S : Current(m, S)' = Current(m, S)
  BY <1>3, GridSame DEF ReadNow
<1>5. TypeOK'
  BY <1>1, <1>2, <1>3, <1>4 DEF IInv, TypeOK
<1>6. Progress'
  BY <1>3, <1>4 DEF IInv, Progress, MostRounds
<1>7. Shapes' /\ BestIsKept' /\ Counted' /\ Budgeted' /\ NeverWorseThanFast'
  BY <1>3, <1>4 DEF IInv, Shapes, BestIsKept, Counted, Budgeted, NeverWorseThanFast
<1> QED BY <1>5, <1>6, <1>7 DEF IInv

LEMMA PoolReturnsIInv ==
  ASSUME IInv, NEW k \in Index, PoolReturns(k)
  PROVE  IInv'
<1>1. k \in Index \ finished /\ finished # Index /\ pool = "open" /\ k \in running
  BY DEF PoolReturns, IInv, TypeOK
<1>2. /\ Shapes' /\ Progress' /\ BestIsKept' /\ Counted' /\ Budgeted' /\ NeverWorseThanFast'
      /\ Range(came') \subseteq Outcome /\ Range(best') \subseteq DOMAIN came' \cup {Nobody}
  BY <1>1, AttemptRuns DEF PoolReturns
<1>3. Cardinality(running') <= Workers
  <2>1. IsFiniteSet(running) /\ Cardinality(running) \in Nat /\ Workers \in Int
    BY IndexFinite, WorkersType, FS_CardinalityType
  <2>2. Cardinality(running \ {k}) = Cardinality(running) - 1
    BY <1>1, <2>1, FS_RemoveElement
  <2>3. Cardinality(running) <= Workers
    BY <1>1 DEF IInv, TypeOK
  <2> QED BY <2>1, <2>2, <2>3 DEF PoolReturns
<1>4. Index' = Index /\ Workers' = Workers
  BY GridSame DEF PoolReturns
<1>5. TypeOK'
  BY <1>1, <1>2, <1>3, <1>4 DEF IInv, TypeOK, PoolReturns
<1> QED BY <1>2, <1>5 DEF IInv

(* The next attempt in grid order is later than all that were read.        *)
LEMMA NextIsLater ==
  ASSUME IInv, phase = "attempts", cursor < call.attempts, finished = Index
  PROVE  /\ \A b \in ReadNow : Earlier(b, Attempt(done, cursor + 1))
         /\ Attempt(done, cursor + 1) \in DOMAIN came \ ReadNow
         /\ Current(done, 1 .. cursor + 1) =
              Current(done, 1 .. cursor) \cup {Attempt(done, cursor + 1)}
<1> DEFINE a == Attempt(done, cursor + 1)
<1>1. /\ GoodCall /\ done \in Nat /\ cursor \in Nat /\ cursor + 1 \in Index
      /\ 1 .. cursor \subseteq Index /\ 1 .. cursor + 1 = (1 .. cursor) \cup {cursor + 1}
  BY Facts DEF IInv, TypeOK
<1>2. a # Columns
  BY <1>1, AttemptType
<1>3. \A r \in 0 .. done - 1, j \in Index : Earlier(Attempt(r, j), a) /\ Attempt(r, j) # a
  BY <1>1, AttemptOrder
<1>4. \A j \in 1 .. cursor : Earlier(Attempt(done, j), a) /\ Attempt(done, j) # a
  BY <1>1, AttemptOrder
<1>5. Earlier(Columns, a)
  BY <1>2 DEF Earlier
<1> HIDE DEF a
<1>6. \A b \in ReadNow : Earlier(b, a) /\ b # a
  BY <1>2, <1>3, <1>4, <1>5 DEF ReadNow, Full, Current
<1>7. a \in DOMAIN came
  BY <1>1 DEF a, IInv, Progress, Current
<1>8. Current(done, 1 .. cursor + 1) = Current(done, 1 .. cursor) \cup {a}
  BY <1>1 DEF a, Current
<1> QED BY <1>6, <1>7, <1>8 DEF a

LEMMA RankNextIInv == IInv /\ RankNext => IInv'
<1> SUFFICES ASSUME IInv, RankNext PROVE IInv'
  OBVIOUS
<1> DEFINE a == Attempt(done, cursor + 1)
<1>1. /\ phase = "attempts" /\ finished = Index /\ cursor < call.attempts
      /\ cursor' = cursor + 1 /\ best' = Read(a)
      /\ UNCHANGED <<line, call, phase, done, pool, running, finished, came, spent, last, answer>>
  BY DEF RankNext
<1>2. /\ \A b \in ReadNow : Earlier(b, a)
      /\ a \in DOMAIN came \ ReadNow
      /\ Current(done, 1 .. cursor + 1) = Current(done, 1 .. cursor) \cup {a}
  BY <1>1, NextIsLater
<1> HIDE DEF a
<1>3. a # Nobody /\ \A b \in ReadNow \cup {a} : came[b] \in Outcome
  BY <1>1, <1>2, ReadHaveRun, RunIsSomeone
<1>4. best = [kind \in Kinds |-> best[kind]] /\ \A kind \in Kinds : Kept(kind, ReadNow, best[kind], came)
  BY <1>1 DEF IInv, Shapes, BestIsKept
<1>5. /\ best' = [kind \in Kinds |-> best'[kind]]
      /\ \A kind \in Kinds : /\ best'[kind] \in {a, best[kind]}
                             /\ Kept(kind, ReadNow \cup {a}, best'[kind], came)
  <2>1. /\ Read(a) = [kind \in Kinds |-> Read(a)[kind]]
        /\ \A kind \in Kinds : /\ Read(a)[kind] \in {a, best[kind]}
                               /\ Kept(kind, ReadNow \cup {a}, Read(a)[kind], came)
    BY <1>2, <1>3, <1>4, ReadKeeps
  <2> QED BY <1>1, <2>1
<1>6. Index' = Index /\ Workers' = Workers
      /\ \A n : Full(n)' = Full(n)
      /\ \A m, S : Current(m, S)' = Current(m, S)
  BY <1>1, GridSame
<1>7. BestIsKept'
  <2>1. ReadNow' = ReadNow \cup {a}
    BY <1>1, <1>2, <1>6 DEF ReadNow
  <2> QED BY <1>1, <1>5, <2>1 DEF BestIsKept
<1>8. Range(best') \subseteq DOMAIN came' \cup {Nobody}
  <2>1. \A kind \in Kinds : best[kind] \in DOMAIN came \cup {Nobody}
    BY <1>4 DEF IInv, TypeOK, Range
  <2> QED BY <1>1, <1>2, <1>5, <2>1 DEF Range
<1>9. TypeOK'
  <2>1. cursor' \in 0 .. call.attempts
    BY <1>1, Facts DEF IInv, TypeOK
  <2> QED BY <1>1, <1>6, <1>8, <2>1 DEF IInv, TypeOK
<1>10. Progress'
  BY <1>1, <1>6 DEF IInv, Progress, MostRounds
<1>11. Shapes' /\ Counted' /\ Budgeted' /\ NeverWorseThanFast'
  BY <1>1, <1>5 DEF IInv, Shapes, Counted, Budgeted, NeverWorseThanFast
<1> QED BY <1>7, <1>9, <1>10, <1>11 DEF IInv

(* A round all of whose attempts were read is one of the whole rounds.     *)
LEMMA RoundIsWhole ==
  ASSUME IInv
  PROVE  Full(done + 1) = Full(done) \cup Current(done, Index)
<1>1. done \in Nat /\ 0 .. (done + 1) - 1 = (0 .. done - 1) \cup {done}
  BY DEF IInv, TypeOK
<1> QED BY <1>1 DEF Full, Current

(* Another round is never one too many.                                    *)
LEMMA AnotherFits ==
  ASSUME GoodCall, NEW n \in Nat, NEW elapsed \in Nat, NEW took \in Nat,
         AnotherRound(n, elapsed, took)
  PROVE  /\ n < MostRounds(call)
         /\ call.budget # NoLimit => elapsed <= call.budget
BY CallAssumption DEF GoodCall, AnotherRound, MostRounds, FitsBudget

LEMMA EndRoundIInv == IInv /\ EndRound => IInv'
<1> SUFFICES ASSUME IInv, EndRound PROVE IInv'
  OBVIOUS
<1>1. /\ phase = "attempts" /\ cursor = call.attempts /\ done' = done + 1
      /\ UNCHANGED <<line, call, running, came, best, answer>>
  BY DEF EndRound
<1>2. PICK took \in Elapsed :
        /\ last' = took
        /\ spent' = spent + took
        /\ IF AnotherRound(done + 1, spent + took, took)
             THEN finished' = {} /\ cursor' = 0 /\ UNCHANGED <<phase, pool>>
             ELSE /\ phase' = "ranked"
                  /\ pool' = IF pool = "open" THEN "closed" ELSE pool
                  /\ UNCHANGED <<finished, cursor>>
  BY DEF EndRound
<1>3. took \in Nat /\ spent \in Nat /\ done \in Nat /\ GoodCall /\ call.attempts \in Nat \ {0}
  BY <1>2, TimeAssumption, Facts DEF Elapsed, IInv, Shapes, TypeOK
<1>4. finished = Index /\ running = {} /\ phase' \in {"attempts", "ranked"}
  BY <1>1, <1>2, <1>3 DEF IInv, Progress, TypeOK
<1>5. /\ Index' = Index
      /\ \A n : Full(n)' = Full(n)
      /\ \A m, S : Current(m, S)' = Current(m, S)
  BY <1>1, GridSame
<1>6. Full(done)' = Full(done) \cup Current(done, Index)
  <2>1. Full(done)' = Full(done + 1)
    BY <1>1, <1>5 DEF Full, Attempt, SeedOf
  <2> QED BY <2>1, RoundIsWhole
<1>7. TypeOK'
  <2>1. finished' \subseteq Index /\ cursor' \in 0 .. call.attempts /\ pool' \in {"none", "open", "closed"}
    BY <1>2, <1>3, <1>4, <1>1 DEF IInv, TypeOK
  <2> QED BY <1>1, <1>3, <1>4, <1>5, <2>1 DEF IInv, TypeOK
<1>8. BestIsKept'
  <2>1. ReadNow = (DOMAIN came \cap {Columns}) \cup Full(done) \cup Current(done, Index)
    BY <1>1, Facts DEF ReadNow
  <2>2. ReadNow' = ReadNow
    <3>1. phase' = "attempts" => Current(done, 1 .. cursor)' = {}
      <4> SUFFICES ASSUME phase' = "attempts" PROVE Current(done, 1 .. cursor)' = {}
        OBVIOUS
      <4>1. cursor' = 0
        BY <1>2
      <4> QED BY <4>1 DEF Current
    <3>2. ReadNow' = (DOMAIN came' \cap {Columns}) \cup Full(done)'
      BY <3>1 DEF ReadNow
    <3> QED BY <1>1, <1>6, <2>1, <3>2
  <2> QED BY <1>1, <2>2 DEF IInv, BestIsKept
<1>9. Progress'
  <2>1. DOMAIN came' \ {Columns} = Full(done)'
    BY <1>1, <1>4, <1>6 DEF IInv, Progress
  <2>2. phase' = "attempts" => /\ done' < MostRounds(call)' /\ cursor' = 0
                               /\ Current(done, finished)' = {}
    <3> SUFFICES ASSUME phase' = "attempts"
                 PROVE  done' < MostRounds(call)' /\ cursor' = 0 /\ Current(done, finished)' = {}
      OBVIOUS
    <3>1. AnotherRound(done + 1, spent + took, took) /\ cursor' = 0 /\ finished' = {}
      BY <1>2
    <3>2. done + 1 < MostRounds(call)
      BY <1>3, <3>1, AnotherFits
    <3> QED BY <1>1, <3>1, <3>2 DEF MostRounds, Current
  <2>3. done' > 0
    BY <1>1, <1>3
  <2>4. line.fits'
    BY <1>1 DEF IInv, Progress
  <2> QED BY <1>1, <1>4, <2>1, <2>2, <2>3, <2>4 DEF Progress
<1>10. Counted'
  <2> SUFFICES ASSUME phase' = "attempts" PROVE Counted'
    BY DEF Counted
  <2>1. Cardinality(finished) = call.attempts /\ Cardinality(finished') = 0
    BY <1>2, <1>4, IndexFinite, FS_EmptySet
  <2>2. (done + 1) * call.attempts = done * call.attempts + call.attempts
    BY <1>3
  <2>3. (done + 1) * call.attempts \in Nat
    BY <1>3
  <2> QED BY <1>1, <2>1, <2>2, <2>3 DEF IInv, Counted
<1>11. Budgeted'
  <2> SUFFICES ASSUME call.budget # NoLimit
               PROVE  /\ done' > 1 => spent' - last' <= call.budget
                      /\ phase' = "attempts" => spent' <= call.budget
    BY <1>1 DEF Budgeted
  <2>1. done' > 1 => spent <= call.budget
    BY <1>1, <1>3 DEF IInv, Budgeted
  <2>2. spent' - last' = spent
    BY <1>2, <1>3
  <2>3. phase' = "attempts" => spent' <= call.budget
    <3> SUFFICES ASSUME phase' = "attempts" PROVE spent' <= call.budget
      OBVIOUS
    <3>1. AnotherRound(done + 1, spent + took, took)
      BY <1>2
    <3> QED BY <1>2, <1>3, <3>1, AnotherFits
  <2> QED BY <2>1, <2>2, <2>3
<1>12. Shapes' /\ NeverWorseThanFast'
  BY <1>1, <1>2, <1>3, <1>4 DEF IInv, Shapes, NeverWorseThanFast
<1> QED BY <1>7, <1>8, <1>9, <1>10, <1>11, <1>12 DEF IInv

LEMMA NotFastIInv == IInv /\ NotFast => IInv'
<1> SUFFICES ASSUME IInv, NotFast PROVE IInv'
  OBVIOUS
<1>1. /\ phase = "ranked" /\ phase' = "fallback" /\ best.valid = Nobody /\ line.fast # "valid"
      /\ UNCHANGED <<line, call, done, pool, running, finished, cursor, came, best, spent, last, answer>>
  BY DEF NotFast, NoneValid, Idle
<1>2. Index' = Index /\ Workers' = Workers /\ \A n : Full(n)' = Full(n)
  BY <1>1, GridSame
<1>3. TypeOK' /\ Shapes' /\ Progress' /\ Counted' /\ Budgeted' /\ NeverWorseThanFast'
  BY <1>1, <1>2 DEF IInv, TypeOK, Shapes, Progress, Counted, Budgeted, NeverWorseThanFast
<1>4. BestIsKept'
  BY <1>1, <1>2 DEF IInv, BestIsKept, ReadNow
<1> QED BY <1>3, <1>4 DEF IInv

LEMMA NextIInv == IInv /\ [Next]_vars => IInv'
<1> SUFFICES ASSUME IInv, [Next]_vars PROVE IInv'
  OBVIOUS
<1>1. CASE SolveFast
  BY <1>1, ConcludeIInv DEF SolveFast
<1>2. CASE Infeasible
  BY <1>2, ConcludeIInv DEF Infeasible
<1>3. CASE FinishValid
  BY <1>3, ConcludeIInv DEF FinishValid
<1>4. CASE FinishFast
  BY <1>4, ConcludeIInv DEF FinishFast, NoneValid
<1>5. CASE FinishPartial \/ FinishGated
  <2>1. line.fast # "valid" /\ phase = "fallback"
    BY <1>5 DEF IInv, Progress, FinishPartial, FinishGated
  <2> QED BY <1>5, <2>1, ConcludeIInv DEF FinishPartial, FinishGated
<1>6. CASE StartSearch \/ RouteColumns \/ RunFirst \/ RunHere \/ PoolTakes
  BY <1>6, StartSearchIInv, RouteColumnsIInv, RunFirstIInv, RunHereIInv, PoolTakesIInv
<1>7. CASE \E k \in Index : PoolReturns(k)
  BY <1>7, PoolReturnsIInv
<1>8. CASE RankNext \/ EndRound \/ NotFast
  BY <1>8, RankNextIInv, EndRoundIInv, NotFastIInv
<1>9. CASE UNCHANGED vars
  <2>1. Index' = Index /\ Workers' = Workers
        /\ \A n : Full(n)' = Full(n)
        /\ \A m, S : Current(m, S)' = Current(m, S)
    BY <1>9, GridSame DEF vars
  <2>2. TypeOK' /\ Shapes' /\ Counted' /\ Budgeted' /\ NeverWorseThanFast'
    BY <1>9, <2>1 DEF vars, IInv, TypeOK, Shapes, Counted, Budgeted, NeverWorseThanFast
  <2>3. Progress' /\ BestIsKept'
    BY <1>9, <2>1 DEF vars, IInv, Progress, MostRounds, BestIsKept, ReadNow
  <2> QED BY <2>2, <2>3 DEF IInv
<1> QED BY <1>1, <1>2, <1>3, <1>4, <1>5, <1>6, <1>7, <1>8, <1>9 DEF Next

-----------------------------------------------------------------------------
(* What follows from it.                                                   *)

(* The strengthened invariant holds for any grid, pool and budget.         *)
THEOREM Inductive == Spec => []IInv
BY InitIInv, NextIInv, PTL DEF Spec

(* Every variable of the search keeps its shape, and no more attempts run  *)
(* at once than the pool has processes (solver/core.py:_Rounds).           *)
THEOREM TypeCorrect == Spec => []TypeOK
<1>1. IInv => TypeOK
  BY DEF IInv
<1> QED BY <1>1, Inductive, PTL

(* Rounds never run a seed twice, and the budget is overrun by less than a *)
(* round, whatever the grid (solver/core.py:_search, _another_round).      *)
THEOREM RoundsAlwaysHold == Spec => []RoundsHold
<1>1. IInv => RoundsHold
  <2> SUFFICES ASSUME IInv PROVE RoundsHold
    OBVIOUS
  <2>1. RoundsAreFresh
    <3> SUFFICES ASSUME phase = "attempts", cursor = call.attempts
                 PROVE  Cardinality(DOMAIN came \ {Columns}) = (done + 1) * call.attempts
      BY DEF RoundsAreFresh
    <3>1. call.attempts \in Nat \ {0} /\ done \in Nat
      BY Facts DEF IInv, TypeOK
    <3>2. Cardinality(finished) = call.attempts
      BY <3>1, IndexFinite DEF IInv, Progress
    <3>3. (done + 1) * call.attempts = done * call.attempts + call.attempts
      BY <3>1
    <3> QED BY <3>2, <3>3 DEF IInv, Counted
  <2> QED BY <2>1 DEF RoundsHold, BudgetIsSoft, IInv, Budgeted
<1> QED BY <1>1, Inductive, PTL

(* Optimizing never loses a VALID layout the fast path has, on a line whose *)
(* machines the seed can place (solver/core.py:_search, lines 394-408).    *)
THEOREM NeverWorse == Spec => []NeverWorseThanFast
<1>1. IInv => NeverWorseThanFast
  BY DEF IInv
<1> QED BY <1>1, Inductive, PTL

(* When a round is over some attempt has been read, so something is kept.  *)
LEMMA SomethingIsKept ==
  ASSUME IInv, phase \in {"ranked", "fallback"}
  PROVE  /\ ReadNow = DOMAIN came /\ DOMAIN came # {}
         /\ \E kind \in Kinds : best[kind] # Nobody
<1>1. ReadNow = DOMAIN came
  BY DEF ReadNow, IInv, Progress
<1>2. Attempt(0, 1) \in DOMAIN came
  <2>1. 0 \in 0 .. done - 1 /\ 1 \in Index
    BY Facts DEF IInv, Progress, TypeOK
  <2>2. Attempt(0, 1) \in Full(done)
    BY <2>1 DEF Full
  <2> QED BY <2>2 DEF IInv, Progress
<1>3. came[Attempt(0, 1)].kind \in Kinds
  BY <1>2, RunIsSomeone, OutcomeAssumption DEF Kinds
<1>4. best[came[Attempt(0, 1)].kind] # Nobody
  <2>1. Kept(came[Attempt(0, 1)].kind, DOMAIN came, best[came[Attempt(0, 1)].kind], came)
    BY <1>1, <1>3 DEF IInv, BestIsKept
  <2> QED BY <1>2, <2>1 DEF Kept
<1> QED BY <1>1, <1>2, <1>3, <1>4

(* The assertion of _search holds: where no attempt was routed, one that   *)
(* the gate turned away is at hand (solver/core.py:416).                   *)
THEOREM ParachuteAlwaysAtHand == Spec => []ParachuteAtHand
<1>1. IInv => ParachuteAtHand
  <2> SUFFICES ASSUME IInv, phase = "fallback", best.partial = Nobody PROVE best.gated # Nobody
    BY DEF ParachuteAtHand
  <2>1. best["valid"] = Nobody /\ best["partial"] = Nobody
    BY DEF IInv, Progress
  <2>2. PICK kind \in Kinds : best[kind] # Nobody
    BY SomethingIsKept
  <2> QED BY <2>1, <2>2 DEF Kinds
<1> QED BY <1>1, Inductive, PTL

-----------------------------------------------------------------------------
(* The refinement.                                                         *)

(* The earliest of a set of candidates is the only one to come first.      *)
LEMMA FirstIsTheFirst ==
  ASSUME NEW S, S \subseteq {Columns} \cup (Range(Modes) \X Nat),
         NEW a \in S, \A b \in S : a = b \/ Earlier(a, b)
  PROVE  Grid!FirstOf(S) = a
<1>1. \A c \in S : (\A b \in S : c = b \/ Earlier(c, b)) => c = a
  BY EarlierAsymmetric
<1> QED BY <1>1 DEF Grid!FirstOf

(* What the search keeps of a kind is what the grid answers with.          *)
LEMMA KeptIsTheBest ==
  ASSUME IInv, phase \in {"ranked", "fallback"}, NEW kind \in Kinds
  PROVE  /\ best[kind] = Nobody <=> Grid!Kind(kind) = {}
         /\ best[kind] # Nobody =>
              IF kind = "gated" THEN Grid!FirstOf(Grid!Kind(kind)) = best[kind]
              ELSE Grid!BestOf(Grid!Kind(kind)) = best[kind]
<1> DEFINE K == Grid!Kind(kind)
<1>1. Kept(kind, DOMAIN came, best[kind], came)
  BY SomethingIsKept DEF IInv, BestIsKept
<1>2. \A a \in DOMAIN came : /\ a # Nobody /\ a \in {Columns} \cup (Range(Modes) \X Nat)
                             /\ came[a].rank \in Int
  BY RunIsSomeone, OutcomeAssumption
<1>3. K = {a \in DOMAIN came : came[a].kind = kind}
  BY DEF Grid!Kind
<1>4. best[kind] = Nobody <=> K = {}
  BY <1>1, <1>2, <1>3 DEF Kept
<1> HIDE DEF K
<1>5. ASSUME best[kind] # Nobody
      PROVE  IF kind = "gated" THEN Grid!FirstOf(K) = best[kind] ELSE Grid!BestOf(K) = best[kind]
  <2>1. /\ best[kind] \in K
        /\ \A b \in K \ {best[kind]} : Preferred(kind, best[kind], b, came)
    BY <1>1, <1>3, <1>5 DEF Kept
  <2>2. CASE kind = "gated"
    <3>1. \A b \in K : best[kind] = b \/ Earlier(best[kind], b)
      BY <2>1, <2>2 DEF Preferred
    <3>2. K \subseteq {Columns} \cup (Range(Modes) \X Nat)
      BY <1>2, <1>3
    <3>3. Grid!FirstOf(K) = best[kind]
      BY <2>1, <3>1, <3>2, FirstIsTheFirst
    <3> QED BY <2>2, <3>3
  <2>3. CASE kind # "gated"
    <3> DEFINE T == {a \in K : \A b \in K : came[a].rank <= came[b].rank}
    <3>1. \A b \in K : came[b].rank \in Int
      BY <1>2, <1>3
    <3>2. \A b \in K \ {best[kind]} :
             \/ came[best[kind]].rank < came[b].rank
             \/ came[best[kind]].rank = came[b].rank /\ Earlier(best[kind], b)
      BY <2>1, <2>3 DEF Preferred
    <3>3. best[kind] \in T
      BY <2>1, <3>1, <3>2
    <3>4. \A b \in T : best[kind] = b \/ Earlier(best[kind], b)
      BY <2>1, <3>1, <3>2
    <3>5. T \subseteq {Columns} \cup (Range(Modes) \X Nat)
      BY <1>2, <1>3
    <3> HIDE DEF T
    <3>6. Grid!FirstOf(T) = best[kind]
      BY <3>3, <3>4, <3>5, FirstIsTheFirst
    <3>7. Grid!BestOf(K) = best[kind]
      BY <3>6 DEF T, Grid!BestOf
    <3> QED BY <2>3, <3>7
  <2> QED BY <2>2, <2>3
<1> QED BY <1>4, <1>5 DEF K

(* The answer as the abstract specification has it.                        *)
Seen == IF phase = "done" /\ answer.path = "constructive" THEN NoAnswer ELSE answer

LEMMA NothingSeenYet ==
  ASSUME IInv, phase # "done"
  PROVE  Seen = NoAnswer
BY DEF IInv, TypeOK, Seen

(* An attempt that runs comes in.                                          *)
LEMMA RunComesIn ==
  ASSUME IInv, phase \in {"first", "attempts"}, phase' # "done", NEW k \in Index \ finished,
         \E o \in Outcome : ComesTo(k, o), UNCHANGED <<line, answer>>
  PROVE  Grid!Next
<1>1. PICK o \in Outcome : ComesTo(k, o)
  OBVIOUS
<1>2. Attempt(done, k) \notin DOMAIN came
  BY UnfinishedIsFresh
<1>3. came' = [b \in DOMAIN came \cup {Attempt(done, k)} |-> IF b = Attempt(done, k) THEN o ELSE came[b]]
  BY <1>1 DEF ComesTo
<1>4. Attempt(done, k) \in Candidate
  <2>1. done \in Nat /\ done < MostRounds(call)
    BY Facts, MostRoundsType DEF IInv, TypeOK, Progress, GoodCall
  <2> QED BY <2>1, Facts, AttemptType
<1>5. Seen = NoAnswer /\ Seen' = NoAnswer
  BY NothingSeenYet DEF IInv, TypeOK, Seen
<1> QED BY <1>1, <1>2, <1>3, <1>4, <1>5 DEF Grid!Next, Grid!ComeIn, Grid!NoAnswer, Seen, NoAnswer

(* An answer that is the verdict on what came in is the grid's.            *)
LEMMA VerdictAnswers ==
  ASSUME IInv, NEW path, NEW from, Conclude(path, from), path # "constructive",
         phase # "done", ~line.fits \/ DOMAIN came # {},
         Grid!Verdict = [path |-> path, from |-> from]
  PROVE  Grid!Next
<1>1. Seen = NoAnswer
  BY NothingSeenYet
<1>2. Seen' = [path |-> path, from |-> from]
  BY DEF Seen, Conclude
<1>3. UNCHANGED <<line, came>>
  BY DEF Conclude
<1>4. ~line.fits \/ came # <<>>
  OBVIOUS
<1> QED BY <1>1, <1>2, <1>3, <1>4 DEF Grid!Next, Grid!Answer, Grid!NoAnswer, Seen, NoAnswer

(* Every step of the search is one of the abstract specification's, or     *)
(* shows nothing of it.                                                    *)
LEMMA StepRefines == IInv /\ [Next]_vars => [Grid!Next]_(Grid!absVars)
<1> SUFFICES ASSUME IInv, [Next]_vars PROVE Grid!Next \/ UNCHANGED <<line, came, Seen>>
  BY DEF Grid!absVars, Seen
<1>0. /\ best["valid"] = best.valid /\ best["partial"] = best.partial /\ best["gated"] = best.gated
      /\ "valid" \in Kinds /\ "partial" \in Kinds /\ "gated" \in Kinds
  BY DEF Kinds
<1>1. CASE SolveFast
  <2>1. UNCHANGED <<line, came>> /\ Seen = NoAnswer
    BY <1>1, NothingSeenYet DEF SolveFast, Conclude
  <2>2. Seen' = NoAnswer
    BY <1>1 DEF SolveFast, Conclude, Seen
  <2> QED BY <2>1, <2>2
<1>2. CASE StartSearch \/ PoolTakes \/ RankNext \/ NotFast
  <2>1. UNCHANGED <<line, came, answer>> /\ phase # "done" /\ phase' # "done"
    BY <1>2 DEF StartSearch, PoolTakes, RankNext, NotFast, Idle
  <2> QED BY <2>1 DEF Seen
<1>3. CASE EndRound
  <2>1. UNCHANGED <<line, came, answer>> /\ phase # "done" /\ phase' # "done"
    BY <1>3 DEF EndRound
  <2> QED BY <2>1 DEF Seen
<1>4. CASE RouteColumns
  <2>1. phase = "columns" /\ phase' = "first" /\ UNCHANGED <<line, answer>> /\ DOMAIN came = {}
    BY <1>4 DEF RouteColumns, IInv, Progress
  <2>2. Seen = NoAnswer /\ Seen' = NoAnswer
    BY <2>1, NothingSeenYet DEF Seen, IInv, TypeOK
  <2>3. CASE UNCHANGED came
    BY <2>1, <2>2, <2>3
  <2>4. ASSUME NEW o \in Outcome, came' = [a \in {Columns} |-> o]
        PROVE  Grid!Next
    <3>1. came' = [b \in DOMAIN came \cup {Columns} |-> IF b = Columns THEN o ELSE came[b]]
      BY <2>1, <2>4
    <3>2. Columns \in Candidate \ DOMAIN came
      BY <2>1 DEF Candidate
    <3> QED BY <2>1, <2>2, <3>1, <3>2 DEF Grid!Next, Grid!ComeIn, Grid!NoAnswer, Seen, NoAnswer
  <2> QED BY <1>4, <2>3, <2>4 DEF RouteColumns
<1>5. CASE RunFirst
  <2>1. 1 \in Index \ finished
    BY <1>5, Facts DEF RunFirst, IInv, Progress
  <2> QED BY <1>5, <2>1, RunComesIn DEF RunFirst
<1>6. CASE RunHere
  <2>1. Min(Unstarted) \in Index \ finished
    BY <1>6, EarliestUnstarted DEF RunHere, Unstarted
  <2> QED BY <1>6, <2>1, RunComesIn DEF RunHere
<1>7. ASSUME NEW k \in Index, PoolReturns(k) PROVE Grid!Next
  <2>1. k \in Index \ finished
    BY <1>7 DEF PoolReturns, IInv, TypeOK
  <2> QED BY <1>7, <2>1, RunComesIn DEF PoolReturns
<1>8. CASE Infeasible
  <2>1. Grid!Verdict = [path |-> "infeasible", from |-> Nobody]
    BY <1>8 DEF Infeasible, Grid!Verdict, Grid!Nobody, Nobody
  <2> QED BY <1>8, <2>1, VerdictAnswers DEF Infeasible
<1>9. CASE FinishValid
  <2>1. line.fits /\ phase = "ranked" /\ best["valid"] # Nobody
    BY <1>9, <1>0 DEF FinishValid, IInv, Progress
  <2>2. Grid!Kind("valid") # {} /\ Grid!BestOf(Grid!Kind("valid")) = best["valid"]
    BY <1>0, <2>1, KeptIsTheBest
  <2>3. Grid!Verdict = [path |-> "valid", from |-> best.valid]
    BY <1>0, <2>1, <2>2 DEF Grid!Verdict
  <2> QED BY <1>9, <2>1, <2>3, SomethingIsKept, VerdictAnswers DEF FinishValid
<1>10. CASE FinishFast
  <2>1. line.fits /\ line.fast = "valid" /\ phase = "ranked" /\ best["valid"] = Nobody
    BY <1>10, <1>0 DEF FinishFast, NoneValid, IInv, Progress
  <2>2. Grid!Kind("valid") = {}
    BY <1>0, <2>1, KeptIsTheBest
  <2>3. Grid!Verdict = [path |-> "fast", from |-> Nobody]
    BY <2>1, <2>2 DEF Grid!Verdict, Grid!Nobody, Nobody
  <2> QED BY <1>10, <2>1, <2>3, SomethingIsKept, VerdictAnswers DEF FinishFast
<1>11. CASE FinishPartial
  <2>1. /\ line.fits /\ line.fast # "valid" /\ phase = "fallback"
        /\ best["valid"] = Nobody /\ best["partial"] # Nobody
    BY <1>11, <1>0 DEF FinishPartial, IInv, Progress
  <2>2. Grid!Kind("valid") = {}
    BY <1>0, <2>1, KeptIsTheBest
  <2>3. Grid!Kind("partial") # {} /\ Grid!BestOf(Grid!Kind("partial")) = best["partial"]
    BY <1>0, <2>1, KeptIsTheBest
  <2>4. Grid!Verdict = [path |-> "partial", from |-> best.partial]
    BY <1>0, <2>1, <2>2, <2>3 DEF Grid!Verdict
  <2> QED BY <1>11, <2>1, <2>4, SomethingIsKept, VerdictAnswers DEF FinishPartial
<1>12. CASE FinishGated
  <2>1. /\ line.fits /\ line.fast # "valid" /\ phase = "fallback"
        /\ best["valid"] = Nobody /\ best["partial"] = Nobody
    BY <1>12, <1>0 DEF FinishGated, IInv, Progress
  <2>2. Grid!Kind("valid") = {} /\ Grid!Kind("partial") = {}
    BY <1>0, <2>1, KeptIsTheBest
  <2>3. best["gated"] # Nobody
    <3>1. PICK kind \in Kinds : best[kind] # Nobody
      BY <2>1, SomethingIsKept
    <3> QED BY <2>1, <3>1 DEF Kinds
  <2>4. Grid!FirstOf(Grid!Kind("gated")) = best["gated"]
    BY <1>0, <2>1, <2>3, KeptIsTheBest
  <2>5. Grid!Verdict = [path |-> "gated", from |-> best.gated]
    BY <1>0, <2>1, <2>2, <2>4 DEF Grid!Verdict
  <2> QED BY <1>12, <2>1, <2>5, SomethingIsKept, VerdictAnswers DEF FinishGated
<1>13. CASE UNCHANGED vars
  BY <1>13 DEF vars, Seen
<1> QED BY <1>1, <1>2, <1>3, <1>4, <1>5, <1>6, <1>7, <1>8, <1>9, <1>10, <1>11, <1>12, <1>13 DEF Next

(* The search implements the grid: whatever order the attempts come in,    *)
(* its answer is the one their outcomes give (solver/core.py, module       *)
(* docstring: "whatever jobs is and however the timing falls").            *)
THEOREM Implements == Spec => Promise
<1>1. Init => Grid!Init
  BY LineAssumption DEF Init, Grid!Init, Grid!NoAnswer, NoAnswer
<1> QED BY <1>1, Inductive, StepRefines, PTL DEF Spec, Promise, Grid!Spec
=============================================================================
