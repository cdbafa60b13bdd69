-------------------------- MODULE AlgorithmsProofs --------------------------
(***************************************************************************)
(* Proofs about the algorithms of Decisions, for any input: any parameters *)
(* of an endpoint, any table of routes and any request, any schemes and    *)
(* policies, any models and statuses, any table of password algorithms,    *)
(* any password and salt.                                                  *)
(***************************************************************************)
EXTENDS Decisions, FiniteSetTheorems, WellFoundedInduction, TLAPS

-----------------------------------------------------------------------------
(***************************************************************************)
(* Passwords.                                                              *)
(***************************************************************************)
\* The answer of check_password is no error, and says what it was made of.
LEMMA CheckedLemma ==
  ASSUME NEW c, NEW u
  PROVE  Checked(c, u) # Raises /\ Checked(c, u).correct = c /\ Checked(c, u).update = u
<1>1. DOMAIN Checked(c, u) = {"correct", "update"}
  BY DEF Checked
<1>2. DOMAIN Raises = {"raises"}
  BY DEF Raises
<1>3. "correct" \notin {"raises"}
  OBVIOUS
<1> QED BY <1>1, <1>2, <1>3 DEF Checked

\* A hash that is made is no error and not unusable, and says what it was made of.
LEMMA EncodeLemma ==
  ASSUME NEW table, NEW a, NEW p, NEW salt
  PROVE  LET h == Encode(table, a, p, salt) IN
         /\ h # Raises /\ h # Unusable
         /\ h.algorithm = a /\ h.cost = table[a] /\ h.salt = salt /\ h.of = Seen(a, p)
<1> DEFINE h == Encode(table, a, p, salt)
<1>1. DOMAIN h = {"algorithm", "cost", "salt", "of"}
  BY DEF Encode
<1>2. DOMAIN Raises = {"raises"} /\ DOMAIN Unusable = {"unusable"}
  BY DEF Raises, Unusable
<1>3. "algorithm" \notin {"raises"} /\ "algorithm" \notin {"unusable"}
  OBVIOUS
<1>4. h.algorithm = a /\ h.cost = table[a] /\ h.salt = salt /\ h.of = Seen(a, p)
  BY DEF Encode
<1> QED BY <1>1, <1>2, <1>3, <1>4

LEMMA UnusableLemma == Unusable # Raises
<1>1. DOMAIN Raises = {"raises"} /\ DOMAIN Unusable = {"unusable"}
  BY DEF Raises, Unusable
<1>2. "raises" \notin {"unusable"}
  OBVIOUS
<1> QED BY <1>1, <1>2

\* A hash of the preferred algorithm with its cost and a random salt is checked
\* and found to need nothing.
LEMMA FreshHash ==
  ASSUME NEW table, NEW p, p # NoPassword, NEW a, a \in DOMAIN table, ~(p.bytes /\ a = "scrypt")
  PROVE  LET h == Encode(table, a, p, Random)
         IN  /\ MakePassword(table, p, a, Random) = h
             /\ CheckPassword(table, p, h, a) = Checked(TRUE, FALSE)
             /\ AfterLogin(table, p, h, a) = h
<1> DEFINE h == Encode(table, a, p, Random)
<1>1. ~Refuses(a, p, Random)
  BY DEF Refuses, Random
<1>2. MakePassword(table, p, a, Random) = h
  BY <1>1 DEF MakePassword, IsInstalled
<1>3. h # Unusable /\ h.algorithm = a /\ h.cost = table[a] /\ h.salt = Random /\ h.of = Seen(a, p)
  BY EncodeLemma
<1> HIDE DEF h
<1>4. Verify(h, p) /\ ~MustUpdate(table, h, a)
  BY <1>3 DEF Verify, MustUpdate, OtherCost, WeakSalt, Random
<1>5. CheckPassword(table, p, h, a) = Checked(Verify(h, p), Verify(h, p) /\ MustUpdate(table, h, a))
  BY <1>3 DEF CheckPassword, IsInstalled
<1>6. Verify(h, p) = TRUE /\ (Verify(h, p) /\ MustUpdate(table, h, a)) = FALSE
  BY <1>4 DEF Verify
<1>7. CheckPassword(table, p, h, a) = Checked(TRUE, FALSE)
  BY <1>5, <1>6
<1>8. AfterLogin(table, p, h, a) = h
  BY <1>7, CheckedLemma DEF AfterLogin
<1> QED BY <1>2, <1>7, <1>8 DEF h

\* Whatever the settings a password was hashed under and those of now, no other
\* than the one that was set is accepted, and a login that fails changes nothing;
\* and, but for Unlucky, the one that was set raises nothing and is accepted, and
\* the hash it leaves is as the settings of now make it (check_password and its
\* setter).
THEOREM LoginsRight ==
  ASSUME NEW before, NEW owner, NEW algorithm, NEW salt, NEW table, NEW password, NEW preferred
  PROVE  LoggedInRightly(before, owner, algorithm, salt, table, password, preferred)
<1> DEFINE hash     == MakePassword(before, owner, algorithm, salt)
           r        == CheckPassword(table, password, hash, preferred)
           after    == AfterLogin(table, password, hash, preferred)
           accepted == r # Raises /\ r.correct
           given    == owner # NoPassword /\ password # NoPassword
           same     == given /\ Seen(algorithm, owner) = Seen(algorithm, password)
           lucky    == ~Unlucky(algorithm, salt, password, preferred)
           Remade   == /\ after.of = Seen(preferred, password)
                       /\ CheckPassword(table, password, after, preferred) = Checked(TRUE, FALSE)
                       /\ AfterLogin(table, password, after, preferred) = after
           Right    == /\ accepted => same /\ algorithm \in DOMAIN table
                       /\ ~accepted => after = hash
                       /\ lucky => /\ r = Raises <=> given /\ preferred \notin DOMAIN table
                                   /\ same /\ {algorithm, preferred} \subseteq DOMAIN table => accepted
                                   /\ accepted => Remade
<1>1. SUFFICES ASSUME hash # Raises PROVE Right
  BY DEF LoggedInRightly
<1>2. \/ owner = NoPassword /\ hash = Unusable
      \/ /\ owner # NoPassword /\ hash # Unusable
         /\ hash.algorithm = algorithm /\ hash.salt = salt /\ hash.of = Seen(algorithm, owner)
  BY <1>1, EncodeLemma DEF MakePassword
<1> HIDE DEF hash
<1>3. ASSUME r = Raises, (given /\ preferred \notin DOMAIN table) \/ ~lucky
      PROVE  Right
  <2>1. after = hash
    BY <1>3 DEF AfterLogin
  <2> QED BY <1>3, <2>1
<1>4. ASSUME r = Checked(FALSE, FALSE), given => preferred \in DOMAIN table /\ algorithm \notin DOMAIN table
      PROVE  Right
  <2>1. r # Raises /\ r.correct = FALSE /\ r.update = FALSE
    BY <1>4, CheckedLemma
  <2>2. after = hash
    BY <2>1 DEF AfterLogin
  <2> QED BY <1>4, <2>1, <2>2
<1>5. ASSUME given, preferred \in DOMAIN table, algorithm \in DOMAIN table,
             hash.algorithm = algorithm, hash.salt = salt, hash.of = Seen(algorithm, owner),
             r = Checked(Verify(hash, password), Verify(hash, password) /\ MustUpdate(table, hash, preferred))
      PROVE  Right
  <2>1. /\ r # Raises /\ r.correct = Verify(hash, password)
        /\ r.update = (Verify(hash, password) /\ MustUpdate(table, hash, preferred))
    BY <1>5, CheckedLemma
  <2>2. /\ Verify(hash, password) => same
        /\ lucky => Verify(hash, password) = same
    BY <1>5 DEF Verify, Unlucky
  <2>3. ~Verify(hash, password) => after = hash
    BY <2>1 DEF AfterLogin
  <2>4. CASE ~Verify(hash, password) \/ ~lucky
    BY <1>5, <2>1, <2>2, <2>3, <2>4
  <2>5. CASE lucky /\ Verify(hash, password) /\ MustUpdate(table, hash, preferred)
    <3> DEFINE again == Encode(table, preferred, password, Random)
    <3>1. /\ MakePassword(table, password, preferred, Random) = again
          /\ CheckPassword(table, password, again, preferred) = Checked(TRUE, FALSE)
          /\ AfterLogin(table, password, again, preferred) = again
      <4>1. ~(password.bytes /\ preferred = "scrypt")
        BY <1>5, <2>5 DEF Unlucky
      <4> QED BY <1>5, <4>1, FreshHash
    <3>2. again # Raises /\ again.of = Seen(preferred, password)
      BY EncodeLemma
    <3> HIDE DEF again
    <3>3. after = again
      BY <2>1, <2>5, <3>1, <3>2 DEF AfterLogin
    <3>4. Remade
      BY <3>1, <3>2, <3>3
    <3> QED BY <1>5, <2>1, <2>2, <2>5, <3>4
  <2>6. CASE lucky /\ Verify(hash, password) /\ ~MustUpdate(table, hash, preferred)
    <3>1. algorithm = preferred
      BY <1>5, <2>6 DEF MustUpdate
    <3>2. r = Checked(TRUE, FALSE)
      <4>1. Verify(hash, password) = TRUE
        BY <2>6 DEF Verify
      <4>2. (Verify(hash, password) /\ MustUpdate(table, hash, preferred)) = FALSE
        BY <2>6
      <4> QED BY <1>5, <4>1, <4>2
    <3>3. after = hash
      BY <3>2, CheckedLemma DEF AfterLogin
    <3>4. hash.of = Seen(preferred, password)
      BY <1>5, <2>2, <2>6, <3>1
    <3>5. Remade
      BY <3>2, <3>3, <3>4
    <3> QED BY <1>5, <2>1, <2>2, <2>6, <3>5
  <2> QED BY <2>4, <2>5, <2>6
<1>6. CASE ~given
  <2>1. r = Checked(FALSE, FALSE)
    BY <1>2, <1>6 DEF CheckPassword
  <2> QED BY <1>4, <1>6, <2>1
<1>7. CASE given
  <2>1. hash # Unusable /\ hash.algorithm = algorithm /\ hash.salt = salt /\ hash.of = Seen(algorithm, owner)
    BY <1>2, <1>7
  <2>2. CASE preferred \notin DOMAIN table
    BY <1>3, <1>7, <2>1, <2>2 DEF CheckPassword, IsInstalled
  <2>3. CASE preferred \in DOMAIN table /\ algorithm \notin DOMAIN table
    BY <1>4, <1>7, <2>1, <2>3 DEF CheckPassword, IsInstalled
  <2>4. CASE preferred \in DOMAIN table /\ algorithm \in DOMAIN table /\ password.bytes /\ algorithm = "scrypt"
    <3>1. r = Raises /\ ~lucky
      BY <1>7, <2>1, <2>4 DEF CheckPassword, IsInstalled, Unlucky
    <3> QED BY <1>3, <3>1
  <2>5. CASE preferred \in DOMAIN table /\ algorithm \in DOMAIN table /\ ~(password.bytes /\ algorithm = "scrypt")
    <3>1. r = Checked(Verify(hash, password), Verify(hash, password) /\ MustUpdate(table, hash, preferred))
      BY <1>7, <2>1, <2>5 DEF CheckPassword, IsInstalled
    <3> QED BY <1>5, <1>7, <2>1, <2>5, <3>1
  <2> QED BY <2>2, <2>3, <2>4, <2>5
<1> QED BY <1>6, <1>7

-----------------------------------------------------------------------------
(***************************************************************************)
(* Responses.                                                              *)
(***************************************************************************)
\* What is returned is sent under the status it was declared for and through
\* the model of that status, or the call fails (process_response); but for the
\* cases of StatusLost.
THEOREM ResponsesRight ==
  ASSUME NEW declared, NEW override, NEW returned, NEW response,
         IsFiniteSet(DOMAIN declared), IsFiniteSet(DOMAIN override),
         DOMAIN declared \subseteq Status \cup {Ellipsis}, DOMAIN override \subseteq Status,
         returned.status \in Status \cup {NoPair}, response \in Status \cup {Unasked, Untouched},
         ~StatusLost(declared, override, returned, response)
  PROVE  SentAsDeclared(declared, override, returned, response)
<1> DEFINE models   == ModelsOf(declared, override)
           resolved == ResolvedStatus(models, returned, response)
           model    == ModelFor(models, resolved)
           status   == DeclaredStatus(models, returned, response)
<1>1. IsFiniteSet(DOMAIN models) /\ DOMAIN models \subseteq Status \cup {Ellipsis}
  <2> DEFINE own == IF declared = <<>> THEN [s \in {200} |-> EmptyModel] ELSE declared
  <2>1. IsFiniteSet(DOMAIN own) /\ DOMAIN own \subseteq Status \cup {Ellipsis}
    <3>1. CASE declared = <<>>
      <4>1. DOMAIN own = {200}
        BY <3>1
      <4>2. IsFiniteSet({200})
        BY FS_Singleton
      <4>3. {200} \subseteq Status
        BY DEF Status
      <4> QED BY <4>1, <4>2, <4>3
    <3>2. CASE declared # <<>>
      BY <3>2
    <3> QED BY <3>1, <3>2
  <2>2. DOMAIN models = DOMAIN own \cup DOMAIN override
    BY DEF ModelsOf
  <2> HIDE DEF own, models
  <2>3. IsFiniteSet(DOMAIN own \cup DOMAIN override)
    BY <2>1, FS_Union
  <2> QED BY <2>1, <2>2, <2>3
<1>2. Cardinality(DOMAIN models) = 1 <=> \E s : DOMAIN models = {s}
  BY <1>1, FS_Singleton
<1>3. \A s : DOMAIN models = {s} => Sole(models) = s
  BY DEF Sole
<1>4. /\ response # Untouched /\ ~(response > 0 /\ returned.status # NoPair)
      /\ model.kind # "html"
      /\ ~(DOMAIN models = {Ellipsis} /\ returned.status = NoPair /\ response = Unasked)
  BY DEF StatusLost
<1> HIDE DEF models
<1>5. resolved = status
  <2>1. CASE response > 0
    BY <1>4, <2>1 DEF ResolvedStatus, DeclaredStatus
  <2>2. CASE ~(response > 0)
    <3>1. response = Unasked
      BY <1>4, <2>2 DEF Status, Unasked
    <3>2. CASE returned.status # NoPair
      BY <2>2, <3>2 DEF ResolvedStatus, DeclaredStatus
    <3>3. CASE returned.status = NoPair
      <4>1. (Cardinality(DOMAIN models) = 1) = (\E s \in DOMAIN models \ {Ellipsis} : DOMAIN models = {s})
        BY <1>2, <1>4, <3>1, <3>3
      <4> QED BY <2>2, <3>3, <4>1 DEF ResolvedStatus, DeclaredStatus
    <3> QED BY <3>2, <3>3
  <2> QED BY <2>1, <2>2
<1>6. resolved \in Status
  <2>1. CASE response > 0
    BY <1>4, <2>1 DEF ResolvedStatus, Unasked, Untouched, Status
  <2>2. CASE ~(response > 0) /\ returned.status # NoPair
    BY <2>2 DEF ResolvedStatus
  <2>3. CASE ~(response > 0) /\ returned.status = NoPair
    <3>1. response = Unasked
      BY <1>4, <2>3 DEF Status, Unasked
    <3>2. CASE Cardinality(DOMAIN models) = 1
      <4>1. PICK s : DOMAIN models = {s}
        BY <1>2, <3>2
      <4>2. s # Ellipsis
        BY <1>4, <2>3, <3>1, <4>1
      <4>3. s \in Status /\ Sole(models) = s
        BY <1>1, <1>3, <4>1, <4>2
      <4> QED BY <2>3, <3>2, <4>3 DEF ResolvedStatus
    <3>3. CASE Cardinality(DOMAIN models) # 1
      BY <2>3, <3>3 DEF ResolvedStatus, Status
    <3> QED BY <3>2, <3>3
  <2> QED BY <2>1, <2>2, <2>3
<1>7. SentStatus(model, resolved, response) = resolved
  BY <1>4 DEF SentStatus, ResolvedStatus
<1>8. resolved # Ellipsis
  BY <1>6 DEF Status, Ellipsis
<1>9. ASSUME returned.content # "response"
      PROVE  Process(declared, override, returned, response) =
               IF Creates(model, returned.content) THEN [status |-> resolved, content |-> Plain(returned.content)]
               ELSE [status |-> 500, content |-> "error"]
  <2>1. returned # [status |-> NoPair, content |-> "response"]
    BY <1>9
  <2> QED BY <1>7, <1>8, <2>1 DEF Process, models
<1> QED BY <1>5, <1>9 DEF SentAsDeclared, models

-----------------------------------------------------------------------------
(***************************************************************************)
(* Routes.                                                                 *)
(***************************************************************************)
\* A set of numbers has a least one.
LEMMA MinLemma ==
  ASSUME NEW S, S \subseteq Nat, S # {}
  PROVE  Min(S) \in S /\ \A j \in S : Min(S) <= j
<1> DEFINE R == OpToRel(<, Nat)
<1>1. \A x, y \in Nat : x < y => <<x, y>> \in R
  BY DEF OpToRel
<1>2. IsWellFoundedOn(R, Nat)
  BY NatLessThanWellFounded
<1> HIDE DEF R
<1>3. \E x \in S : \A y \in S : ~(<<y, x>> \in R)
  BY <1>2, WFMin, ZenonT(30)
<1>4. PICK x \in S : \A y \in S : ~(<<y, x>> \in R)
  BY <1>3
<1>5. \A y \in S : ~(y < x)
  BY <1>1, <1>4
<1>6. \A y \in S : x <= y
  BY <1>5, S \subseteq Nat
<1> QED BY <1>6 DEF Min

\* The order of paths is irreflexive.
LEMMA PrecedesIrreflexive ==
  ASSUME NEW p \in Path
  PROVE  ~Precedes(p, p)
<1>1. SUFFICES ASSUME NEW k \in 1..Len(p), k <= Len(p) => Code[p[k]] < Code[p[k]]
      PROVE  FALSE
  BY DEF Precedes
<1>2. Len(p) \in Nat /\ p[k] \in DOMAIN Code
  BY DEF Path
<1>3. Code[p[k]] \in Nat
  BY <1>2, CodeAssumption
<1> QED BY <1>1, <1>2, <1>3

\* The order of paths is transitive.
LEMMA PrecedesTransitive ==
  ASSUME NEW p \in Path, NEW q \in Path, NEW r \in Path, Precedes(p, q), Precedes(q, r)
  PROVE  Precedes(p, r)
<1>1. Len(p) \in Nat /\ Len(q) \in Nat /\ Len(r) \in Nat
  BY DEF Path
<1>2. \A s \in Path : \A i \in 1..Len(s) : Code[s[i]] \in Nat
  BY CodeAssumption DEF Path
<1>3. PICK k \in 1..Len(q) : /\ \A i \in 1..(k - 1) : i <= Len(p) /\ p[i] = q[i]
                             /\ k <= Len(p) => Code[p[k]] < Code[q[k]]
  BY DEF Precedes
<1>4. PICK l \in 1..Len(r) : /\ \A i \in 1..(l - 1) : i <= Len(q) /\ q[i] = r[i]
                             /\ l <= Len(q) => Code[q[l]] < Code[r[l]]
  BY DEF Precedes
<1>5. CASE k < l
  <2>1. k \in 1..Len(r) /\ q[k] = r[k]
    BY <1>1, <1>3, <1>4, <1>5
  <2>2. \A i \in 1..(k - 1) : i <= Len(p) /\ p[i] = r[i]
    BY <1>1, <1>3, <1>4, <1>5
  <2>3. k <= Len(p) => Code[p[k]] < Code[r[k]]
    BY <1>3, <2>1
  <2> QED BY <2>1, <2>2, <2>3 DEF Precedes
<1>6. CASE l < k
  <2>1. l <= Len(p) /\ p[l] = q[l] /\ l <= Len(q)
    BY <1>1, <1>3, <1>4, <1>6
  <2>2. \A i \in 1..(l - 1) : i <= Len(p) /\ p[i] = r[i]
    BY <1>1, <1>3, <1>4, <1>6
  <2>3. Code[p[l]] < Code[r[l]]
    BY <1>4, <2>1
  <2> QED BY <2>2, <2>3 DEF Precedes
<1>7. CASE k = l
  <2>1. \A i \in 1..(l - 1) : i <= Len(p) /\ p[i] = r[i]
    BY <1>1, <1>3, <1>4, <1>7
  <2>2. ASSUME l <= Len(p) PROVE Code[p[l]] < Code[r[l]]
    <3>1. l \in 1..Len(p) /\ l \in 1..Len(q) /\ l \in 1..Len(r)
      BY <1>1, <1>3, <1>4, <1>7, <2>2
    <3>2. Code[p[l]] \in Nat /\ Code[q[l]] \in Nat /\ Code[r[l]] \in Nat
      BY <1>2, <3>1
    <3>3. Code[p[l]] < Code[q[l]] /\ Code[q[l]] < Code[r[l]]
      BY <1>1, <1>3, <1>4, <1>7, <2>2
    <3> QED BY <3>2, <3>3
  <2> QED BY <2>1, <2>2 DEF Precedes
<1> QED BY <1>3, <1>4, <1>5, <1>6, <1>7

\* The order of paths is total.
LEMMA PrecedesTotal ==
  ASSUME NEW p \in Path, NEW q \in Path, p # q
  PROVE  Precedes(p, q) \/ Precedes(q, p)
<1> DEFINE D == {k \in Nat : k \in 1..Len(p) /\ k \in 1..Len(q) /\ p[k] # q[k]}
<1>1. Len(p) \in Nat /\ Len(q) \in Nat
  BY DEF Path
<1>2. CASE D = {}
  <2>1. \A k \in Nat : k \in 1..Len(p) /\ k \in 1..Len(q) => p[k] = q[k]
    BY <1>2
  <2>2. CASE Len(p) < Len(q)
    <3>1. Len(p) + 1 \in 1..Len(q)
      BY <1>1, <2>2
    <3>2. \A i \in 1..((Len(p) + 1) - 1) : i <= Len(p) /\ p[i] = q[i]
      BY <1>1, <2>1, <2>2
    <3>3. ~(Len(p) + 1 <= Len(p))
      BY <1>1
    <3> QED BY <3>1, <3>2, <3>3 DEF Precedes
  <2>3. CASE Len(q) < Len(p)
    <3>1. Len(q) + 1 \in 1..Len(p)
      BY <1>1, <2>3
    <3>2. \A i \in 1..((Len(q) + 1) - 1) : i <= Len(q) /\ q[i] = p[i]
      BY <1>1, <2>1, <2>3
    <3>3. ~(Len(q) + 1 <= Len(q))
      BY <1>1
    <3> QED BY <3>1, <3>2, <3>3 DEF Precedes
  <2>4. CASE Len(p) = Len(q)
    <3>1. \A i \in 1..Len(p) : p[i] = q[i]
      BY <1>1, <2>1, <2>4
    <3> QED BY <2>4, <3>1 DEF Path
  <2> QED BY <1>1, <2>2, <2>3, <2>4
<1>3. CASE D # {}
  <2> DEFINE k == Min(D)
  <2>1. k \in D /\ \A j \in D : k <= j
    BY <1>3, MinLemma
  <2> HIDE DEF k
  <2>2. k \in Nat /\ k \in 1..Len(p) /\ k \in 1..Len(q) /\ p[k] # q[k]
    BY <2>1
  <2>3. \A i \in 1..(k - 1) : i <= Len(p) /\ i <= Len(q) /\ p[i] = q[i]
    BY <1>1, <2>1, <2>2
  <2>4. p[k] \in DOMAIN Code /\ q[k] \in DOMAIN Code
    BY <2>2 DEF Path
  <2>5. Code[p[k]] \in Nat /\ Code[q[k]] \in Nat /\ Code[p[k]] # Code[q[k]]
    BY <2>2, <2>4, CodeAssumption DEF IsInjective
  <2>6. CASE Code[p[k]] < Code[q[k]]
    BY <2>2, <2>3, <2>6 DEF Precedes
  <2>7. CASE Code[q[k]] < Code[p[k]]
    BY <2>2, <2>3, <2>7 DEF Precedes
  <2> QED BY <2>5, <2>6, <2>7
<1> QED BY <1>2, <1>3

\* Who is served earlier: nobody before himself, and of two routes one.
LEMMA EarlierOrder ==
  ASSUME NEW S, \A s \in S : s.path \in Path, NEW routes \in Seq(S)
  PROVE  /\ DOMAIN routes = 1..Len(routes) /\ Len(routes) \in Nat
         /\ \A i \in DOMAIN routes : i \notin Earlier(routes, i)
         /\ \A i, j \in DOMAIN routes : i # j => i \in Earlier(routes, j) \/ j \in Earlier(routes, i)
         /\ \A i, j \in DOMAIN routes : j \in Earlier(routes, i) => Earlier(routes, j) \subseteq Earlier(routes, i)
<1>1. DOMAIN routes = 1..Len(routes) /\ Len(routes) \in Nat
  OBVIOUS
<1>2. \A i \in DOMAIN routes : routes[i].path \in Path
  BY <1>1
<1>3. \A i \in DOMAIN routes : i \notin Earlier(routes, i)
  BY <1>1, <1>2, PrecedesIrreflexive DEF Earlier
<1>4. \A i, j \in DOMAIN routes : i # j => i \in Earlier(routes, j) \/ j \in Earlier(routes, i)
  BY <1>1, <1>2, PrecedesTotal DEF Earlier
<1>5. ASSUME NEW i \in DOMAIN routes, NEW j \in DOMAIN routes, j \in Earlier(routes, i),
             NEW k \in Earlier(routes, j)
      PROVE  k \in Earlier(routes, i)
  <2>1. /\ k \in DOMAIN routes
        /\ Precedes(routes[k].path, routes[j].path) \/ (routes[k].path = routes[j].path /\ k < j)
        /\ Precedes(routes[j].path, routes[i].path) \/ (routes[j].path = routes[i].path /\ j < i)
    BY <1>5 DEF Earlier
  <2>2. k < j /\ j < i => k < i
    BY <1>1, <2>1
  <2>3. \/ Precedes(routes[k].path, routes[i].path)
        \/ routes[k].path = routes[i].path /\ k < i
    BY <1>2, <2>1, <2>2, PrecedesTransitive
  <2> QED BY <2>1, <2>3 DEF Earlier
<1> QED BY <1>1, <1>3, <1>4, <1>5

\* The collection serves each of its routes once, in the order of their paths.
LEMMA ServedLemma ==
  ASSUME NEW S, \A s \in S : s.path \in Path, NEW routes \in Seq(S)
  PROVE  /\ DOMAIN Served(routes) = DOMAIN routes /\ DOMAIN routes \subseteq Nat \ {0}
         /\ \A k \in DOMAIN routes : /\ InPlace(routes, k) \in DOMAIN routes
                                     /\ Served(routes)[k] = routes[InPlace(routes, k)]
                                     /\ Served(routes)[k] \in S
         /\ \A i \in DOMAIN routes : \E k \in DOMAIN routes : InPlace(routes, k) = i
         /\ \A k, l \in DOMAIN routes :
              k < l => ~Precedes(Served(routes)[l].path, Served(routes)[k].path)
<1> DEFINE n == Len(routes)
           E(i) == Earlier(routes, i)
           rank == [i \in 1..n |-> Cardinality(E(i)) + 1]
<1>1. /\ DOMAIN routes = 1..n /\ n \in Nat
      /\ \A i \in 1..n : i \notin E(i)
      /\ \A i, j \in 1..n : i # j => i \in E(j) \/ j \in E(i)
      /\ \A i, j \in 1..n : j \in E(i) => E(j) \subseteq E(i)
  BY EarlierOrder
<1>2. \A i \in 1..n : E(i) \subseteq 1..n
  BY <1>1 DEF Earlier
<1> HIDE DEF n, E
<1>3. IsFiniteSet(1..n) /\ Cardinality(1..n) = n
  BY <1>1, FS_Interval
<1>4. \A i \in 1..n : IsFiniteSet(E(i)) /\ Cardinality(E(i)) \in Nat /\ Cardinality(E(i)) < n
  <2> SUFFICES ASSUME NEW i \in 1..n
               PROVE  IsFiniteSet(E(i)) /\ Cardinality(E(i)) \in Nat /\ Cardinality(E(i)) < n
    OBVIOUS
  <2>1. IsFiniteSet(E(i)) /\ Cardinality(E(i)) <= Cardinality(1..n)
        /\ (Cardinality(1..n) = Cardinality(E(i)) => 1..n = E(i))
    BY <1>2, <1>3, FS_Subset
  <2>2. Cardinality(E(i)) \in Nat
    BY <2>1, FS_CardinalityType
  <2> QED BY <1>1, <1>3, <2>1, <2>2
<1>5. \A i, j \in 1..n : j \in E(i) => Cardinality(E(j)) < Cardinality(E(i))
  <2> SUFFICES ASSUME NEW i \in 1..n, NEW j \in 1..n, j \in E(i)
               PROVE  Cardinality(E(j)) < Cardinality(E(i))
    OBVIOUS
  <2>1. E(j) \subseteq E(i) /\ E(i) # E(j)
    BY <1>1
  <2>2. /\ Cardinality(E(j)) <= Cardinality(E(i))
        /\ Cardinality(E(i)) = Cardinality(E(j)) => E(i) = E(j)
    BY <1>4, <2>1, FS_Subset
  <2> QED BY <1>4, <2>1, <2>2
<1>6. rank \in [1..n -> 1..n]
  BY <1>1, <1>4
<1>7. \A i, j \in 1..n : rank[i] = rank[j] => i = j
  BY <1>1, <1>4, <1>5
<1>8. \A k \in 1..n : \E i \in 1..n : rank[i] = k
  <2>1. rank \in Injection(1..n, 1..n)
    BY <1>6, <1>7 DEF Injection, IsInjective
  <2>2. rank \in Surjection(1..n, 1..n)
    BY <1>3, <2>1, FS_Injection
  <2> QED BY <2>2 DEF Surjection
<1>9. \A k \in 1..n : InPlace(routes, k) \in 1..n /\ Cardinality(E(InPlace(routes, k))) = k - 1
  <2> SUFFICES ASSUME NEW k \in 1..n
               PROVE  InPlace(routes, k) \in 1..n /\ Cardinality(E(InPlace(routes, k))) = k - 1
    OBVIOUS
  <2>1. \E i \in 1..n : Cardinality(E(i)) = k - 1
    <3>1. PICK i \in 1..n : rank[i] = k
      BY <1>8
    <3>2. Cardinality(E(i)) + 1 = k /\ Cardinality(E(i)) \in Nat
      BY <1>4, <3>1
    <3>3. Cardinality(E(i)) = k - 1
      BY <3>2
    <3> QED BY <3>3
  <2>2. InPlace(routes, k) = CHOOSE i \in 1..n : Cardinality(E(i)) = k - 1
    BY <1>1 DEF InPlace, E
  <2> QED BY <2>1, <2>2
<1>10. \A i \in 1..n : InPlace(routes, rank[i]) = i
  <2> SUFFICES ASSUME NEW i \in 1..n PROVE InPlace(routes, rank[i]) = i
    OBVIOUS
  <2> DEFINE k == rank[i]
             j == InPlace(routes, k)
  <2>1. k \in 1..n /\ k = Cardinality(E(i)) + 1 /\ Cardinality(E(i)) \in Nat
    BY <1>4, <1>6
  <2>2. j \in 1..n /\ Cardinality(E(j)) = k - 1
    BY <1>9, <2>1
  <2> HIDE DEF j
  <2>3. rank[j] = Cardinality(E(j)) + 1
    BY <2>2
  <2>4. rank[j] = rank[i]
    BY <1>1, <1>4, <2>1, <2>2, <2>3
  <2>5. j = i
    BY <1>7, <2>2, <2>4
  <2> QED BY <2>5 DEF j
<1>11. ASSUME NEW k \in 1..n, NEW l \in 1..n, k < l
       PROVE  ~Precedes(Served(routes)[l].path, Served(routes)[k].path)
  <2> DEFINE p == InPlace(routes, k)
             q == InPlace(routes, l)
  <2>1. p \in 1..n /\ q \in 1..n /\ Cardinality(E(p)) = k - 1 /\ Cardinality(E(q)) = l - 1
    BY <1>9
  <2>2. Served(routes)[k] = routes[p] /\ Served(routes)[l] = routes[q]
    BY <1>1, <1>11 DEF Served
  <2> HIDE DEF p, q
  <2>3. q \notin E(p)
    BY <1>1, <1>5, <1>11, <2>1
  <2> QED BY <1>1, <2>1, <2>2, <2>3 DEF E, Earlier
<1>12. DOMAIN Served(routes) = 1..n /\ \A k \in 1..n : Served(routes)[k] = routes[InPlace(routes, k)]
  BY <1>1 DEF Served
<1>13. \A i \in 1..n : routes[i] \in S
  BY DEF n
<1>14. 1..n \subseteq Nat \ {0}
  BY <1>1
<1>15. \A i \in 1..n : \E k \in 1..n : InPlace(routes, k) = i
  BY <1>6, <1>10
<1> QED BY <1>1, <1>9, <1>11, <1>12, <1>13, <1>14, <1>15

\* Where the first match is.
LEMMA FirstLemma ==
  ASSUME NEW how, DOMAIN how \subseteq Nat \ {0}
  PROVE  LET f == First(how) IN
         /\ f = 0 <=> \A i \in DOMAIN how : how[i] \notin {"full", "partial"}
         /\ f # 0 => f \in DOMAIN how
         /\ \A i \in DOMAIN how : how[i] = "full" => how[f] = "full" /\ f <= i
         /\ (\A i \in DOMAIN how : how[i] # "full") /\ f # 0 => how[f] = "partial"
<1> DEFINE at(h) == {i \in DOMAIN how : how[i] = h}
           f == First(how)
<1>1. \A h : at(h) \subseteq Nat /\ 0 \notin at(h)
  OBVIOUS
<1>2. \A h : at(h) # {} => Min(at(h)) \in at(h) /\ \A j \in at(h) : Min(at(h)) <= j
  BY <1>1, MinLemma
<1>3. f = IF at("full") # {} THEN Min(at("full"))
          ELSE IF at("partial") # {} THEN Min(at("partial")) ELSE 0
  BY DEF First
<1> HIDE DEF f
<1>4. CASE at("full") # {}
  <2>1. f \in at("full") /\ \A j \in at("full") : f <= j
    BY <1>2, <1>3, <1>4
  <2> QED BY <1>1, <2>1 DEF f
<1>5. CASE at("full") = {} /\ at("partial") # {}
  <2>1. f \in at("partial")
    BY <1>2, <1>3, <1>5
  <2> QED BY <1>1, <1>5, <2>1 DEF f
<1>6. CASE at("full") = {} /\ at("partial") = {}
  <2>1. f = 0
    BY <1>3, <1>6
  <2> QED BY <1>6, <2>1 DEF f
<1> QED BY <1>4, <1>5, <1>6

\* A route fits a request when its mount leads there and its own path fits what
\* is left.
LEMMA PathFitsSplit ==
  ASSUME NEW p \in Path, NEW q \in Path, NEW r \in Path
  PROVE  PathFits(p \o q, r) <=> Leads(p, r) /\ PathFits(q, Below(p, r))
<1> DEFINE a == Len(p)
           b == Len(q)
           c == Len(r)
           Fit(i, x, y) == x = Param \/ x = y
<1>1. a \in Nat /\ b \in Nat /\ c \in Nat
  BY DEF Path
<1>2. /\ Len(p \o q) = a + b /\ DOMAIN (p \o q) = 1..(a + b)
      /\ \A i \in 1..(a + b) : (p \o q)[i] = IF i <= a THEN p[i] ELSE q[i - a]
  BY <1>1 DEF Path
<1>3. ASSUME a <= c
      PROVE  /\ Len(SubSeq(r, 1, a)) = a /\ \A i \in 1..a : SubSeq(r, 1, a)[i] = r[i]
             /\ Len(Below(p, r)) = c - a /\ \A i \in 1..(c - a) : Below(p, r)[i] = r[i + a]
  BY <1>1, <1>3 DEF Path, Below
<1>4. DOMAIN p = 1..a /\ DOMAIN q = 1..b
  BY DEF Path
<1> HIDE DEF a, b, c
<1>5. ASSUME PathFits(p \o q, r)
      PROVE  Leads(p, r) /\ PathFits(q, Below(p, r))
  <2>1. a + b = c /\ \A i \in 1..(a + b) : (p \o q)[i] = Param \/ (p \o q)[i] = r[i]
    BY <1>2, <1>5 DEF PathFits, c
  <2>2. a <= c /\ c - a = b
    BY <1>1, <2>1
  <2>3. \A i \in 1..a : p[i] = Param \/ p[i] = r[i]
    BY <1>1, <1>2, <2>1
  <2>4. Leads(p, r)
    BY <1>3, <1>4, <2>2, <2>3 DEF Leads, PathFits, a, c
  <2>5. \A i \in 1..b : q[i] = Param \/ q[i] = r[i + a]
    <3> SUFFICES ASSUME NEW i \in 1..b PROVE q[i] = Param \/ q[i] = r[i + a]
      OBVIOUS
    <3>1. i + a \in 1..(a + b) /\ ~(i + a <= a) /\ (i + a) - a = i
      BY <1>1
    <3>2. (p \o q)[i + a] = q[i]
      BY <1>2, <3>1
    <3> QED BY <2>1, <3>1, <3>2
  <2>6. PathFits(q, Below(p, r))
    BY <1>3, <1>4, <2>2, <2>5 DEF PathFits, b
  <2> QED BY <2>4, <2>6
<1>6. ASSUME Leads(p, r), PathFits(q, Below(p, r))
      PROVE  PathFits(p \o q, r)
  <2>1. a <= c
    BY <1>6 DEF Leads, a, c
  <2>2. \A i \in 1..a : p[i] = Param \/ p[i] = r[i]
    BY <1>3, <1>4, <1>6, <2>1 DEF Leads, PathFits, a
  <2>3. c - a = b /\ \A i \in 1..b : q[i] = Param \/ q[i] = Below(p, r)[i]
    BY <1>3, <1>4, <1>6, <2>1 DEF PathFits, b
  <2>4. \A i \in 1..b : q[i] = Param \/ q[i] = r[i + a]
    BY <1>3, <2>1, <2>3
  <2>5. ASSUME NEW i \in 1..(a + b) PROVE (p \o q)[i] = Param \/ (p \o q)[i] = r[i]
    <3>1. CASE i <= a
      <4>1. i \in 1..a
        BY <1>1, <3>1
      <4> QED BY <1>2, <2>2, <3>1, <4>1
    <3>2. CASE ~(i <= a)
      <4>1. i - a \in 1..b /\ (i - a) + a = i
        BY <1>1, <3>2
      <4> QED BY <1>2, <2>4, <3>2, <4>1
    <3> QED BY <3>1, <3>2
  <2>6. a + b = c
    BY <1>1, <2>3
  <2> QED BY <1>2, <2>5, <2>6 DEF PathFits, c
<1> QED BY <1>5, <1>6

\* A path of segments that come before a parameter comes before one that takes a
\* parameter and fits the same request.
LEMMA LiteralFirst ==
  ASSUME NEW p \in Path, NEW q \in Path, NEW segments, PathFits(p, segments), PathFits(q, segments),
         BeforeParam(p), Param \in ToSet(q)
  PROVE  Precedes(p, q)
<1> DEFINE S == {i \in Nat : i \in 1..Len(q) /\ q[i] = Param}
           k == Min(S)
<1>1. Len(p) = Len(q) /\ Len(q) \in Nat /\ DOMAIN p = 1..Len(q) /\ DOMAIN q = 1..Len(q)
  BY DEF PathFits, Path
<1>2. \A i \in 1..Len(q) : /\ p[i] # Param /\ p[i] = segments[i] /\ Code[p[i]] < Code[Param]
                           /\ q[i] = Param \/ q[i] = segments[i]
  <2>1. \A i \in 1..Len(q) : Code[p[i]] < Code[Param] /\ Code[Param] \in Nat
    BY <1>1, CodeAssumption DEF BeforeParam, ToSet
  <2>2. \A i \in 1..Len(q) : p[i] # Param
    BY <2>1
  <2> QED BY <1>1, <2>1, <2>2 DEF PathFits
<1>3. S # {}
  BY <1>1 DEF ToSet
<1>4. k \in S /\ \A j \in S : k <= j
  BY <1>3, MinLemma
<1> HIDE DEF k
<1>5. k \in 1..Len(q) /\ q[k] = Param
  BY <1>4
<1>6. \A i \in 1..(k - 1) : i \in 1..Len(q) /\ q[i] # Param
  BY <1>1, <1>4, <1>5
<1>7. \A i \in 1..(k - 1) : i <= Len(p) /\ p[i] = q[i]
  BY <1>1, <1>2, <1>6
<1>8. Code[p[k]] < Code[q[k]]
  BY <1>2, <1>5
<1> QED BY <1>5, <1>7, <1>8 DEF Precedes

-----------------------------------------------------------------------------
\* The routes of a mount that answer a request, and those that only would if the
\* method were another.
Good(mount, request, version, default) ==
  {d \in ToSet(mount.routes) : /\ PathFits(mount.path \o d.path, request.path)
                               /\ request.method \in Methods(d)
                               /\ Activates(Allowed(d, mount), version, default)}
OtherMethod(mount, request) ==
  {d \in ToSet(mount.routes) : /\ PathFits(mount.path \o d.path, request.path)
                               /\ request.method \notin Methods(d)}

\* A mount matches by one of these, a path of segments that come before a
\* parameter before the others.
LEMMA MountLemma ==
  ASSUME NEW m \in Mounted, NEW request \in Asking, NEW version, NEW default
  PROVE  LET how  == MountMatches(m, request, version, default)
             good == Good(m, request, version, default)
         IN  /\ how.match = "full" <=> good # {}
             /\ how.match = "partial" <=> good = {} /\ OtherMethod(m, request) # {}
             /\ how.match = "full" =>
                  /\ how.route \in good
                  /\ \A g \in good : BeforeParam(g.path) => Param \notin ToSet(how.route.path)
<1> DEFINE segments == Below(m.path, request.path)
           routes   == Served(m.routes)
           how      == [i \in DOMAIN routes |-> Matches(routes[i], m, segments, request, version, default)]
           first    == First(how)
           good     == Good(m, request, version, default)
           other    == OtherMethod(m, request)
<1>1. /\ m.path \in Path /\ request.path \in Path /\ m.routes \in Seq(Declaration)
      /\ \A d \in Declaration : d.path \in Path
  BY DEF Mounted, Asking, Declaration
<1>2. /\ DOMAIN routes = DOMAIN m.routes /\ DOMAIN m.routes \subseteq Nat \ {0}
      /\ \A k \in DOMAIN m.routes : /\ InPlace(m.routes, k) \in DOMAIN m.routes
                                    /\ routes[k] = m.routes[InPlace(m.routes, k)]
                                    /\ routes[k] \in Declaration
      /\ \A i \in DOMAIN m.routes : \E k \in DOMAIN m.routes : InPlace(m.routes, k) = i
      /\ \A k, l \in DOMAIN m.routes : k < l => ~Precedes(routes[l].path, routes[k].path)
  BY <1>1, ServedLemma
<1> HIDE DEF routes
<1>3. /\ \A k \in DOMAIN routes : routes[k] \in ToSet(m.routes) /\ routes[k].path \in Path
      /\ \A d \in ToSet(m.routes) : \E k \in DOMAIN routes : routes[k] = d
  BY <1>1, <1>2 DEF ToSet
<1>4. /\ first = 0 <=> \A i \in DOMAIN routes : how[i] \notin {"full", "partial"}
      /\ first # 0 => first \in DOMAIN routes
      /\ \A i \in DOMAIN routes : how[i] = "full" => how[first] = "full" /\ first <= i
      /\ (\A i \in DOMAIN routes : how[i] # "full") /\ first # 0 => how[first] = "partial"
  <2>1. DOMAIN how = DOMAIN routes /\ DOMAIN how \subseteq Nat \ {0}
    BY <1>2
  <2> HIDE DEF how
  <2> QED BY <2>1, FirstLemma
<1>5. CASE ~Leads(m.path, request.path)
  <2>1. MountMatches(m, request, version, default) = NoMatch
    BY <1>5 DEF MountMatches
  <2>2. \A d \in ToSet(m.routes) : ~PathFits(m.path \o d.path, request.path)
    BY <1>1, <1>3, <1>5, PathFitsSplit
  <2> QED BY <2>1, <2>2 DEF Good, OtherMethod, NoMatch
<1>6. CASE Leads(m.path, request.path)
  <2>1. \A k \in DOMAIN routes : PathFits(m.path \o routes[k].path, request.path) <=> PathFits(routes[k].path, segments)
    BY <1>1, <1>3, <1>6, PathFitsSplit
  <2>2. \A k \in DOMAIN routes : /\ how[k] = "full" <=> routes[k] \in good
                                 /\ how[k] = "partial" <=> routes[k] \in other
    BY <1>3, <2>1 DEF Matches, Good, OtherMethod
  <2>3. MountMatches(m, request, version, default) =
          IF first # 0 THEN [match |-> how[first], route |-> routes[first]] ELSE NoMatch
    BY <1>6 DEF MountMatches, routes
  <2>4. /\ good # {} => \E k \in DOMAIN routes : how[k] = "full"
        /\ other # {} => \E k \in DOMAIN routes : how[k] = "partial"
    BY <1>3, <2>2 DEF Good, OtherMethod
  <2> HIDE DEF how, first, good, other
  <2>5. CASE good # {}
    <3>1. first # 0 /\ first \in DOMAIN routes /\ how[first] = "full" /\ routes[first] \in good
      BY <1>4, <2>2, <2>4, <2>5
    <3>2. ASSUME NEW g \in good, BeforeParam(g.path)
          PROVE  Param \notin ToSet(routes[first].path)
      <4>1. PICK k \in DOMAIN routes : routes[k] = g
        BY <1>3 DEF good, Good
      <4>2. first <= k /\ k \in Nat /\ first \in Nat
        BY <1>2, <1>4, <2>2, <3>1, <4>1
      <4>3. PathFits(g.path, segments) /\ PathFits(routes[first].path, segments)
        BY <2>1, <3>1, <4>1 DEF good, Good
      <4>4. g.path \in Path /\ routes[first].path \in Path
        BY <1>3, <3>1, <4>1
      <4>5. Param \in ToSet(routes[first].path) => Precedes(g.path, routes[first].path)
        BY <3>2, <4>3, <4>4, LiteralFirst
      <4>6. CASE first = k
        BY <3>2, <4>1, <4>6, CodeAssumption DEF BeforeParam
      <4>7. CASE first < k
        BY <1>2, <3>1, <4>1, <4>5, <4>7
      <4> QED BY <4>2, <4>6, <4>7
    <3> QED BY <2>3, <2>5, <3>1, <3>2 DEF good
  <2>6. CASE good = {} /\ other # {}
    <3>1. first # 0 /\ how[first] = "partial"
      BY <1>4, <2>2, <2>4, <2>6
    <3> QED BY <2>3, <2>6, <3>1 DEF good, other
  <2>7. CASE good = {} /\ other = {}
    <3>1. first = 0
      BY <1>4, <2>2, <2>7
    <3> QED BY <2>3, <2>7, <3>1 DEF NoMatch, good, other
  <2> QED BY <2>5, <2>6, <2>7
<1> QED BY <1>5, <1>6

\* A version is acceptable to an endpoint when it is one of its own, or of its
\* controller's, or the default when there is none, or nobody asks.
LEMMA ActivatesLemma ==
  ASSUME NEW scheme, NEW default \in STRING \ {NotSet}, NEW request \in Asking, NEW own
  PROVE  Activates(own, Resolved(scheme, default, request), default)
           <=> (scheme = "none" \/ (IF own = {} THEN Resolved(scheme, default, request) = default
                                    ELSE Resolved(scheme, default, request) \in own))
<1>1. request.version # NotSet
  BY DEF Asking
<1>2. scheme = "none" <=> Resolved(scheme, default, request) = NotSet
  BY <1>1 DEF Resolved
<1> QED BY <1>2 DEF Activates

\* Whatever the mounts, routes, methods and versions, the router and its default
\* answer a request with an endpoint that is declared for it if there is one, a
\* path of a collection whose segments come before a parameter before those that
\* take one, and refuse it for the right reason otherwise (Router.app,
\* ModuleMount.matches).
THEOREM RoutesRight ==
  ASSUME NEW mounts \in Seq(Mounted), NEW scheme, NEW default \in STRING \ {NotSet}, NEW request \in Asking
  PROVE  RightAnswer(mounts, scheme, default, request)
<1> DEFINE version == Resolved(scheme, default, request)
           table   == Served(mounts)
           matched == [i \in DOMAIN table |-> MountMatches(table[i], request, version, default)]
           how     == [i \in DOMAIN table |-> matched[i].match]
           first   == First(how)
           answer  == Routed(mounts, scheme, default, request)
           leaves  == UNION {{<<i, d>> : d \in ToSet(mounts[i].routes)} : i \in DOMAIN mounts}
           path(l) == mounts[l[1]].path \o l[2].path
           onPath  == {l \in leaves : PathFits(path(l), request.path)}
           asked   == {l \in onPath : request.method \in Methods(l[2])}
           speaks(l) == LET own == Allowed(l[2], mounts[l[1]])
                        IN  scheme = "none" \/ (IF own = {} THEN version = default ELSE version \in own)
           good    == {l \in asked : speaks(l)}
           refusal == IF onPath # asked THEN 405 ELSE IF asked # {} THEN 406 ELSE 404
           G(i)    == Good(mounts[i], request, version, default)
           O(i)    == OtherMethod(mounts[i], request)
<1>1. \A i \in DOMAIN mounts : mounts[i] \in Mounted
  OBVIOUS
<1>2. /\ DOMAIN table = DOMAIN mounts /\ DOMAIN mounts \subseteq Nat \ {0}
      /\ \A k \in DOMAIN mounts : InPlace(mounts, k) \in DOMAIN mounts /\ table[k] = mounts[InPlace(mounts, k)]
      /\ \A i \in DOMAIN mounts : \E k \in DOMAIN mounts : InPlace(mounts, k) = i
  <2>1. \A s \in Mounted : s.path \in Path
    BY DEF Mounted
  <2> QED BY <2>1, ServedLemma
\* What each mount makes of the request.
<1>3. ASSUME NEW k \in DOMAIN mounts
      PROVE  LET i == InPlace(mounts, k)
             IN  /\ how[k] = "full" <=> G(i) # {}
                 /\ how[k] = "partial" <=> G(i) = {} /\ O(i) # {}
                 /\ how[k] = "full" =>
                      /\ matched[k].route \in G(i)
                      /\ \A g \in G(i) : BeforeParam(g.path) => Param \notin ToSet(matched[k].route.path)
  <2> DEFINE i == InPlace(mounts, k)
  <2>1. i \in DOMAIN mounts /\ mounts[i] \in Mounted /\ table[k] = mounts[i]
    BY <1>1, <1>2
  <2>2. matched[k] = MountMatches(mounts[i], request, version, default) /\ how[k] = matched[k].match
    BY <1>2, <2>1
  <2> HIDE DEF i, matched, how, version
  <2> QED BY <2>1, <2>2, MountLemma DEF i
\* What is declared for the request, in terms of the mounts.
<1>4. \A l : l \in leaves <=> \E i \in DOMAIN mounts : \E d \in ToSet(mounts[i].routes) : l = <<i, d>>
  OBVIOUS
<1>5. \A l \in leaves : speaks(l) <=> Activates(Allowed(l[2], mounts[l[1]]), version, default)
  BY ActivatesLemma
<1> HIDE DEF leaves, speaks, version
<1>6. /\ \A i \in DOMAIN mounts : \A d : <<i, d>> \in good <=> d \in G(i)
      /\ \A l \in good : l[1] \in DOMAIN mounts /\ l[2] \in G(l[1]) /\ l = <<l[1], l[2]>>
  BY <1>4, <1>5 DEF Good
<1>7. onPath # asked <=> \E i \in DOMAIN mounts : O(i) # {}
  <2>1. ASSUME NEW l \in onPath, l \notin asked PROVE \E i \in DOMAIN mounts : O(i) # {}
    BY <1>4, <2>1 DEF OtherMethod
  <2>2. ASSUME NEW i \in DOMAIN mounts, NEW d \in O(i) PROVE <<i, d>> \in onPath /\ <<i, d>> \notin asked
    BY <1>4, <2>2 DEF OtherMethod
  <2> QED BY <2>1, <2>2
<1>8. good = {} => (VersionRefused(mounts, request, version, default) <=> asked # {})
  <2>1. ASSUME VersionRefused(mounts, request, version, default) PROVE asked # {}
    <3>1. PICK i \in DOMAIN mounts : \E j \in DOMAIN mounts[i].routes :
                 /\ PathFits(mounts[i].path \o mounts[i].routes[j].path, request.path)
                 /\ request.method \in Methods(mounts[i].routes[j])
      BY <2>1 DEF VersionRefused
    <3>2. PICK j \in DOMAIN mounts[i].routes :
                 /\ PathFits(mounts[i].path \o mounts[i].routes[j].path, request.path)
                 /\ request.method \in Methods(mounts[i].routes[j])
      BY <3>1
    <3>3. mounts[i].routes[j] \in ToSet(mounts[i].routes)
      BY DEF ToSet
    <3>4. <<i, mounts[i].routes[j]>> \in asked
      BY <1>4, <3>2, <3>3
    <3> QED BY <3>4
  <2>2. ASSUME NEW l \in asked, good = {} PROVE VersionRefused(mounts, request, version, default)
    <3>1. PICK i \in DOMAIN mounts : \E d \in ToSet(mounts[i].routes) : l = <<i, d>>
      BY <1>4
    <3>2. PICK j \in DOMAIN mounts[i].routes : l = <<i, mounts[i].routes[j]>>
      BY <3>1 DEF ToSet
    <3>3. ~speaks(l) /\ l \in leaves
      BY <2>2
    <3>4. ~Activates(Allowed(mounts[i].routes[j], mounts[i]), version, default)
      BY <1>5, <3>2, <3>3
    <3> QED BY <3>2, <3>4 DEF VersionRefused
  <2> QED BY <2>1, <2>2
\* What the router answers.
<1>9. answer = IF first = 0
               THEN [status |-> IF VersionRefused(mounts, request, version, default) THEN 406 ELSE 404, id |-> 0]
               ELSE IF matched[first].match = "full" THEN [status |-> 200, id |-> matched[first].route.id]
               ELSE [status |-> 405, id |-> 0]
  BY DEF Routed, version
<1>10. /\ first = 0 <=> \A k \in DOMAIN mounts : how[k] \notin {"full", "partial"}
       /\ first # 0 => first \in DOMAIN mounts /\ how[first] = matched[first].match
       /\ \A k \in DOMAIN mounts : how[k] = "full" => how[first] = "full"
       /\ (\A k \in DOMAIN mounts : how[k] # "full") /\ first # 0 => how[first] = "partial"
  <2>1. DOMAIN how = DOMAIN mounts /\ DOMAIN how \subseteq Nat \ {0}
    BY <1>2
  <2>2. \A k \in DOMAIN mounts : how[k] = matched[k].match
    BY <1>2
  <2> HIDE DEF how, matched
  <2> QED BY <2>1, <2>2, FirstLemma
<1> HIDE DEF how, matched, first, answer, onPath, asked, good
<1>11. CASE good # {}
  <2>1. PICK i \in DOMAIN mounts : G(i) # {}
    BY <1>6, <1>11
  <2>2. PICK k \in DOMAIN mounts : InPlace(mounts, k) = i
    BY <1>2
  <2>3. how[k] = "full"
    BY <1>3, <2>1, <2>2
  <2>4. first \in DOMAIN mounts /\ first # 0 /\ how[first] = "full" /\ matched[first].match = "full"
    BY <1>10, <2>3
  <2> DEFINE f == InPlace(mounts, first)
             l == <<f, matched[first].route>>
  <2>5. /\ matched[first].route \in G(f) /\ f \in DOMAIN mounts
        /\ \A g \in G(f) : BeforeParam(g.path) => Param \notin ToSet(matched[first].route.path)
    BY <1>2, <1>3, <2>4
  <2>6. l \in good /\ answer = [status |-> 200, id |-> l[2].id]
    BY <1>6, <1>9, <2>4, <2>5
  <2>7. \A j \in good : j[1] = l[1] /\ BeforeParam(j[2].path) => Param \notin ToSet(l[2].path)
    BY <1>6, <2>5
  <2>8. \E m \in good : /\ answer = [status |-> 200, id |-> m[2].id]
                        /\ \A j \in good : j[1] = m[1] /\ BeforeParam(j[2].path) => Param \notin ToSet(m[2].path)
    BY <2>6, <2>7
  <2> QED BY <1>11, <2>8 DEF RightAnswer, good, asked, onPath, leaves, speaks, version, answer
<1>12. CASE good = {}
  <2>1. \A i \in DOMAIN mounts : G(i) = {}
    BY <1>6, <1>12
  <2>2. \A k \in DOMAIN mounts : /\ how[k] # "full"
                                 /\ how[k] = "partial" <=> O(InPlace(mounts, k)) # {}
    BY <1>2, <1>3, <2>1
  <2>3. first # 0 <=> \E i \in DOMAIN mounts : O(i) # {}
    BY <1>2, <1>10, <2>2
  <2>4. ASSUME onPath # asked PROVE answer.status = 405
    <3>1. first # 0 /\ matched[first].match # "full"
      BY <1>7, <1>10, <2>2, <2>3, <2>4
    <3> QED BY <1>9, <2>4, <3>1
  <2>5. ASSUME onPath = asked PROVE answer.status = IF asked # {} THEN 406 ELSE 404
    <3>1. first = 0
      BY <1>7, <2>3, <2>5
    <3> QED BY <1>8, <1>9, <1>12, <2>5, <3>1
  <2>6. answer.status = refusal
    BY <2>4, <2>5
  <2> QED BY <1>12, <2>6 DEF RightAnswer, good, asked, onPath, leaves, speaks, version, answer
<1> QED BY <1>11, <1>12

-----------------------------------------------------------------------------
(***************************************************************************)
(* Access.                                                                 *)
(***************************************************************************)
\* A scheme that neither refuses nor breaks answers with whom it knows by its own
\* part of the request.
LEMMA IdentifyLemma ==
  ASSUME NEW h, h.kind \in SchemeKinds, NEW request \in AnyRequest, AtMostOne(request),
         \A k \in DOMAIN h.knows : h.knows[k] # Nobody,
         Identify(h, request) # Broken
  PROVE  /\ Identify(h, request) = Nobody <=> KnownBy(h, request) = {}
         /\ KnownBy(h, request) # {} => KnownBy(h, request) = {Identify(h, request)}
<1> DEFINE keys == Presented(h, request)
<1>1. OwnKeys(h, request) = keys
  <2>1. CASE h.kind \notin Http
    BY <2>1 DEF OwnKeys, Presented
  <2>2. CASE h.kind = "bearer"
    <3>1. \A s : <<"bearer", s>> \in OwnWords <=> s \in {"bearer"}
      BY DEF OwnWords
    <3> QED BY <2>2, <3>1 DEF OwnKeys, Presented, SchemeWords, Http
  <2>3. CASE h.kind = "basic"
    <3>1. \A s : <<"basic", s>> \in OwnWords <=> s \in {"basic", NoWord}
      BY DEF OwnWords
    <3> QED BY <2>3, <3>1 DEF OwnKeys, Presented, SchemeWords, Http
  <2> QED BY <2>1, <2>2, <2>3 DEF Http
<1>2. \A a, b \in keys : a = b
  <2>1. /\ \A c, d \in request.authorization : c = d
        /\ h.kind \notin Http => \A a, b \in request[h.kind] : a = b
    BY DEF AnyRequest, AtMostOne, SchemeKinds
  <2>2. CASE h.kind \notin Http
    BY <2>1, <2>2 DEF Presented
  <2>3. CASE h.kind \in Http
    BY <2>1, <2>3 DEF Presented
  <2> QED BY <2>2, <2>3
<1>3. ~Malformed(h, request)
  BY DEF Identify
<1> HIDE DEF keys
<1>4. CASE keys = {}
  <2>1. KnownBy(h, request) = {}
    BY <1>1, <1>4 DEF KnownBy
  <2>2. Identify(h, request) = Nobody
    BY <1>3, <1>4 DEF Identify, keys
  <2> QED BY <2>1, <2>2
<1>5. CASE keys # {}
  <2> DEFINE key == CHOOSE k \in keys : TRUE
  <2>1. key \in keys /\ keys = {key}
    BY <1>2, <1>5
  <2>2. Identify(h, request) = IF key \in DOMAIN h.knows THEN h.knows[key] ELSE Nobody
    BY <1>3, <1>5 DEF Identify, keys
  <2> HIDE DEF key
  <2>3. KnownBy(h, request) = IF key \in DOMAIN h.knows THEN {h.knows[key]} ELSE {}
    BY <1>1, <2>1 DEF KnownBy
  <2> QED BY <2>2, <2>3
<1> QED BY <1>4, <1>5

\* With a name of its own for each scheme, the first that answers decides; what
\* those after it would do is not asked.
LEMMA AuthenticatedLemma ==
  ASSUME NEW schemes, schemes \in Seq(ToSet(schemes)), NEW request \in AnyRequest, AtMostOne(request),
         \A h \in ToSet(schemes) : h.kind \in SchemeKinds /\ \A k \in DOMAIN h.knows : h.knows[k] # Nobody,
         \A i, j \in DOMAIN schemes : schemes[i].scheme = schemes[j].scheme => i = j,
         Authenticated(schemes, request) # Broken
  PROVE  LET who == Authenticated(schemes, request) IN
         /\ Known(schemes, request) = IF who = Nobody THEN {} ELSE {who}
         /\ who = Nobody \/ \E h \in ToSet(schemes) : who = Identify(h, request)
<1> DEFINE answer(i) == Identify(SchemeAt(schemes, i), request)
           answering == {i \in Registered(schemes) : answer(i) # Nobody}
           knowing == {i \in DOMAIN schemes : KnownBy(schemes[i], request) # {}}
<1>1. DOMAIN schemes \subseteq Nat /\ \A i \in DOMAIN schemes : schemes[i] \in ToSet(schemes)
  BY DEF ToSet
<1>2. Registered(schemes) = DOMAIN schemes
  <2>1. \A i, j \in DOMAIN schemes : j < i => j # i
    BY <1>1
  <2> QED BY <2>1 DEF Registered
<1>3. \A i \in DOMAIN schemes : SchemeAt(schemes, i) = schemes[i]
  <2> SUFFICES ASSUME NEW i \in DOMAIN schemes PROVE SchemeAt(schemes, i) = schemes[i]
    OBVIOUS
  <2>1. {j \in DOMAIN schemes : schemes[j].scheme = schemes[i].scheme} = {i}
    OBVIOUS
  <2>2. Max({i}) = i
    BY <1>1 DEF Max
  <2> QED BY <2>1, <2>2 DEF SchemeAt
<1>4. ASSUME NEW i \in DOMAIN schemes, answer(i) # Broken
      PROVE  /\ answer(i) = Nobody <=> KnownBy(schemes[i], request) = {}
             /\ KnownBy(schemes[i], request) # {} => KnownBy(schemes[i], request) = {answer(i)}
  BY <1>1, <1>3, <1>4, IdentifyLemma
<1>5. Nobody # Broken
  BY DEF Nobody, Broken
<1>6. /\ Authenticated(schemes, request) = IF answering = {} THEN Nobody ELSE answer(Min(answering))
      /\ Known(schemes, request) = IF knowing = {} THEN {} ELSE KnownBy(schemes[Min(knowing)], request)
  BY DEF Authenticated, Known
<1>7. answering \subseteq DOMAIN schemes /\ \A i \in DOMAIN schemes : i \notin answering => answer(i) = Nobody
  BY <1>2
<1> HIDE DEF answer
<1>8. CASE answering = {}
  <2>1. knowing = {}
    BY <1>4, <1>5, <1>7, <1>8
  <2> QED BY <1>6, <1>8, <2>1
<1>9. CASE answering # {}
  <2> DEFINE first == Min(answering)
  <2>1. first \in answering /\ \A i \in answering : first <= i
    BY <1>1, <1>7, <1>9, MinLemma
  <2>2. answer(first) # Broken /\ answer(first) # Nobody
    BY <1>6, <1>9, <2>1
  <2> HIDE DEF first
  <2>3. first \in knowing
    BY <1>4, <1>7, <2>1, <2>2
  <2>4. \A i \in knowing : first <= i
    <3> SUFFICES ASSUME NEW i \in knowing, i \notin answering PROVE FALSE
      BY <2>1
    <3>1. answer(i) = Nobody
      BY <1>7
    <3> QED BY <1>4, <1>5, <3>1
  <2>5. Min(knowing) = first
    <3>1. Min(knowing) \in knowing /\ Min(knowing) <= first
      BY <1>1, <2>3, MinLemma
    <3>2. knowing \subseteq Nat
      BY <1>1
    <3> DEFINE m == Min(knowing)
    <3>3. m \in Nat /\ first \in Nat /\ m <= first /\ first <= m
      BY <2>3, <2>4, <3>1, <3>2
    <3> HIDE DEF m
    <3>4. m = first
      BY <3>3
    <3> QED BY <3>4 DEF m
  <2>6. Known(schemes, request) = {answer(first)} /\ Authenticated(schemes, request) = answer(first)
    BY <1>4, <1>6, <1>9, <2>2, <2>3, <2>5 DEF first
  <2>7. answer(first) = Identify(schemes[first], request) /\ schemes[first] \in ToSet(schemes)
    BY <1>1, <1>3, <2>3 DEF answer
  <2> QED BY <2>2, <2>6, <2>7
<1> QED BY <1>8, <1>9

\* The list in force is the nearest that is not empty.
LEMMA InForceLemma ==
  ASSUME NEW S, NEW route, NEW what, route.handler[what] \subseteq Seq(S), route.class[what] \subseteq Seq(S),
         route.application[what] \in Seq(S),
         \A a, b \in route.handler[what] : a = b, \A a, b \in route.class[what] : a = b
  PROVE  LET list == InForce(route.handler[what], route.class[what], route.application[what])
         IN  /\ list \in Seq(S)
             /\ ToSet(list) = IF Nearest(route, what) # {} THEN Nearest(route, what)
                              ELSE ToSet(route.application[what])
<1> DEFINE own         == route.handler[what]
           class       == route.class[what]
           application == route.application[what]
           declared    == IF own # {} THEN own ELSE class
           list        == InForce(own, class, application)
<1>1. declared \subseteq Seq(S) /\ \A a, b \in declared : a = b
  OBVIOUS
<1>2. list = IF declared \subseteq {<<>>} THEN application ELSE CHOOSE l \in declared : TRUE
  BY DEF InForce
<1>3. Nearest(route, what) = UNION {ToSet(l) : l \in declared}
  BY DEF Nearest
<1> HIDE DEF list, declared
<1>4. CASE declared \subseteq {<<>>}
  <2>1. Nearest(route, what) = {}
    BY <1>3, <1>4 DEF ToSet
  <2> QED BY <1>2, <1>4, <2>1 DEF list
<1>5. CASE ~(declared \subseteq {<<>>})
  <2>1. PICK l \in declared : l # <<>>
    BY <1>5
  <2>2. declared = {l} /\ (CHOOSE m \in declared : TRUE) = l
    BY <1>1, <2>1
  <2>3. list = l
    BY <1>2, <1>5, <2>2
  <2>4. Nearest(route, what) = ToSet(l)
    BY <1>3, <2>2
  <2>5. l \in Seq(S) /\ ToSet(l) # {}
    <3>1. l \in Seq(S)
      BY <1>1
    <3>2. Len(l) # 0 /\ DOMAIN l = 1..Len(l) /\ Len(l) \in Nat
      BY <2>1, <3>1
    <3>3. 1 \in DOMAIN l
      BY <3>2
    <3> QED BY <3>1, <3>3 DEF ToSet
  <2> QED BY <2>3, <2>4, <2>5 DEF list
<1> QED BY <1>4, <1>5

\* When no two of the requirements that were made hash alike, a policy with a
\* requirement is asked of its own class, and every policy is what it says.
LEMMA HoldsLemma ==
  ASSUME NEW made, made \in Seq(ToSet(made)), NEW policy, Needs(policy) \subseteq ToSet(made), NEW user,
         \A p, q \in ToSet(made) : Hash(p.requirement) = Hash(q.requirement) =>
                                     <<p.class, p.requirement>> = <<q.class, q.requirement>>
  PROVE  Holds(policy, user, made) = Complies(policy, user)
<1>1. ASSUME NEW p \in Needs(policy) PROVE Meets(ClassFor(p, made), user) = Meets(p, user)
  <2> DEFINE S == {i \in DOMAIN made : Hash(made[i].requirement) = Hash(p.requirement)}
             q == made[Min(S)]
  <2>1. \A i \in DOMAIN made : i \in Nat /\ made[i] \in ToSet(made)
    BY DEF ToSet
  <2>2. S # {}
    BY DEF ToSet
  <2>3. Min(S) \in S
    BY <2>1, <2>2, MinLemma
  <2>4. q \in ToSet(made) /\ Hash(q.requirement) = Hash(p.requirement)
    BY <2>1, <2>3
  <2>5. ClassFor(p, made) = q
    BY DEF ClassFor
  <2> HIDE DEF q
  <2>6. q.class = p.class /\ q.requirement = p.requirement
    BY <2>4
  <2> QED BY <2>5, <2>6 DEF Meets
<1>2. {p \in Needs(policy) : Meets(ClassFor(p, made), user)} = {p \in Needs(policy) : Meets(p, user)}
  BY <1>1
<1> QED BY <1>2 DEF Holds, Complies

\* The interceptors let a request through when none stops and, if one is
\* @Authorize's, the user is somebody and complies with all policies; what they
\* answer instead is the answer of one that stops or of @Authorize's.
LEMMA InterceptedLemma ==
  ASSUME NEW list \in Interceptors, NEW user, NEW policies, NEW made
  PROVE  /\ Intercepted(list, user, policies, made) = 200 <=>
              /\ "stop" \notin ToSet(list)
              /\ "authorize" \in ToSet(list) => Authorized(user, policies, made) = 200
         /\ \/ Intercepted(list, user, policies, made) \in {200, Authorized(user, policies, made)}
            \/ "stop" \in ToSet(list)
<1> DEFINE verdict(i) == CASE list[i] = "authorize" -> Authorized(user, policies, made)
                           [] list[i] = "pass"      -> 200
                           [] list[i] = "stop"      -> 299
           stopping == {i \in DOMAIN list : verdict(i) # 200}
<1>1. DOMAIN list \subseteq Nat /\ \A i \in DOMAIN list : list[i] \in {"authorize", "pass", "stop"}
  BY DEF Interceptors
<1>2. \A i \in DOMAIN list : verdict(i) # 200 <=>
         list[i] = "stop" \/ (list[i] = "authorize" /\ Authorized(user, policies, made) # 200)
  BY <1>1
<1>3. Intercepted(list, user, policies, made) = IF stopping = {} THEN 200 ELSE verdict(Min(stopping))
  BY DEF Intercepted
<1> HIDE DEF verdict
<1>4. stopping # {} => verdict(Min(stopping)) # 200
  BY <1>1, MinLemma
<1>5. Intercepted(list, user, policies, made) = 200 <=> stopping = {}
  BY <1>3, <1>4
<1>6. stopping # {} => \/ verdict(Min(stopping)) = Authorized(user, policies, made)
                       \/ list[Min(stopping)] = "stop" /\ Min(stopping) \in DOMAIN list
  <2>1. stopping # {} => Min(stopping) \in DOMAIN list /\ verdict(Min(stopping)) # 200
    BY <1>1, MinLemma
  <2> QED BY <1>1, <2>1 DEF verdict
<1> QED BY <1>2, <1>3, <1>5, <1>6 DEF ToSet

\* An endpoint is entered by those, and only those, who may: somebody whom the
\* first of the schemes that knows anyone knows by its own part of the request,
\* past all guards and interceptors nearest to the handler, who complies with the
\* policies nearest to it (IdentityMiddleware, GuardConsumer,
\* EllarInterceptorConsumer, AuthorizationInterceptor).  It takes schemes of
\* different names and requirements of different hashes (not Entangled), and says
\* who may be refused beside: those whom a scheme that raises, or that knows nobody
\* by name, turned away.
THEOREM AccessRight ==
  ASSUME NEW policies, NEW needs, NEW route \in AnyRoute(policies, needs), NEW schemes, NEW users,
         NEW request \in AnyRequest, AtMostOne(request),
         AtMostOne(route.handler), AtMostOne(route.class),
         schemes \in Seq(ToSet(schemes)),
         \A id \in DOMAIN users : users[id].id = id,
         Nobody \in DOMAIN users,
         \A h \in ToSet(schemes) : h.kind \in SchemeKinds /\ \A k \in DOMAIN h.knows : h.knows[k] \in DOMAIN users \ {Nobody},
         \A p \in Nearest(route, "policies") : Needs(p) \subseteq ToSet(route.made),
         ~Entangled(route, schemes)
  PROVE  TurnedAway(route, schemes, users, request) \/ RightlyEntered(route, schemes, users, request)
<1> DEFINE who        == Authenticated(schemes, request)
           list(what) == InForce(route.handler[what], route.class[what], route.application[what])
           asked      == list("policies")
           known      == Known(schemes, request)
           run(what)  == IF Nearest(route, what) # {} THEN Nearest(route, what)
                         ELSE ToSet(route.application[what])
           comply(id) == \A p \in Nearest(route, "policies") : Complies(p, users[id])
<1>1. /\ \A i, j \in DOMAIN schemes : schemes[i].scheme = schemes[j].scheme => i = j
      /\ \A p, q \in ToSet(route.made) : Hash(p.requirement) = Hash(q.requirement) =>
                                     <<p.class, p.requirement>> = <<q.class, q.requirement>>
  BY DEF Entangled
<1>2. CASE who = Broken
  BY <1>2 DEF TurnedAway, Enter
<1>3. SUFFICES ASSUME who # Broken
               PROVE  TurnedAway(route, schemes, users, request) \/ RightlyEntered(route, schemes, users, request)
  BY <1>2
<1>4. /\ known = IF who = Nobody THEN {} ELSE {who}
      /\ who \in DOMAIN users
  <2>1. /\ known = IF who = Nobody THEN {} ELSE {who}
        /\ who = Nobody \/ \E h \in ToSet(schemes) : who = Identify(h, request)
    BY <1>1, <1>3, AuthenticatedLemma
  <2>2. ASSUME NEW h \in ToSet(schemes), who = Identify(h, request), who # Nobody PROVE who \in DOMAIN users
    BY <1>3, <2>2 DEF Identify
  <2> QED BY <2>1, <2>2
<1>5. /\ DOMAIN route.handler = {"guards", "interceptors", "policies"}
      /\ DOMAIN route.class = {"guards", "interceptors", "policies"}
      /\ \A layer \in {route.handler, route.class} :
           /\ layer["guards"] \subseteq Guards /\ layer["interceptors"] \subseteq Interceptors
           /\ layer["policies"] \subseteq Seq(policies)
      /\ route.application["guards"] \in Guards /\ route.application["interceptors"] \in Interceptors
      /\ route.application["policies"] = <<>> /\ route.made \in Seq(needs)
  BY DEF AnyRoute, Layer
<1>6. \A what \in {"guards", "interceptors", "policies"} :
        (\A a, b \in route.handler[what] : a = b) /\ (\A a, b \in route.class[what] : a = b)
  BY <1>5 DEF AtMostOne
<1>7. /\ list("guards") \in Guards /\ ToSet(list("guards")) = run("guards")
      /\ list("interceptors") \in Interceptors /\ ToSet(list("interceptors")) = run("interceptors")
      /\ ToSet(asked) = run("policies")
  <2>1. ASSUME NEW S, NEW what \in {"guards", "interceptors", "policies"},
               route.handler[what] \subseteq Seq(S), route.class[what] \subseteq Seq(S),
               route.application[what] \in Seq(S)
        PROVE  list(what) \in Seq(S) /\ ToSet(list(what)) = run(what)
    <3>1. (\A a, b \in route.handler[what] : a = b) /\ (\A a, b \in route.class[what] : a = b)
      BY <1>6
    <3> QED BY <2>1, <3>1, InForceLemma, ZenonT(60)
  <2>2. /\ route.handler["guards"] \subseteq Guards /\ route.class["guards"] \subseteq Guards
        /\ route.handler["interceptors"] \subseteq Interceptors /\ route.class["interceptors"] \subseteq Interceptors
        /\ route.handler["policies"] \subseteq Seq(policies) /\ route.class["policies"] \subseteq Seq(policies)
    BY <1>5
  <2> HIDE DEF list, run
  <2>3. list("guards") \in Guards /\ ToSet(list("guards")) = run("guards")
    BY <1>5, <2>1, <2>2 DEF Guards
  <2>4. list("interceptors") \in Interceptors /\ ToSet(list("interceptors")) = run("interceptors")
    BY <1>5, <2>1, <2>2 DEF Interceptors
  <2>5. route.application["policies"] \in Seq(policies)
    BY <1>5
  <2>6. ToSet(list("policies")) = run("policies")
    BY <2>1, <2>2, <2>5
  <2> QED BY <2>3, <2>4, <2>6
<1>8. ToSet(asked) = Nearest(route, "policies")
  <2>1. ToSet(<<>>) = {}
    BY DEF ToSet
  <2> QED BY <1>5, <1>7, <2>1
<1> HIDE DEF list
<1>9. /\ Authorized(users[who], asked, route.made) = 200 <=> who \notin {Nobody, Unnamed} /\ comply(who)
      /\ who = Unnamed => Authorized(users[who], asked, route.made) = 401
  <2>1. route.made \in Seq(ToSet(route.made))
    BY <1>5 DEF ToSet
  <2>2. \A i \in DOMAIN asked : asked[i] \in Nearest(route, "policies")
    BY <1>8 DEF ToSet
  <2>3. \A p \in Nearest(route, "policies") : Holds(p, users[who], route.made) = Complies(p, users[who])
    BY <1>1, <2>1, HoldsLemma
  <2>4. (\E i \in DOMAIN asked : ~Holds(asked[i], users[who], route.made)) <=> ~comply(who)
    BY <1>8, <2>2, <2>3 DEF ToSet
  <2>5. users[who].id = who
    BY <1>4
  <2> HIDE DEF asked, comply
  <2> QED BY <2>4, <2>5 DEF Authorized
<1> DEFINE status == Intercepted(list("interceptors"), users[who], asked, route.made)
<1>10. /\ status = 200 <=>
            /\ "stop" \notin run("interceptors")
            /\ "authorize" \in run("interceptors") => who \notin {Nobody, Unnamed} /\ comply(who)
       /\ who = Unnamed => status \in {200, 401} \/ "stop" \in run("interceptors")
  <2> HIDE DEF list, asked, run, who, comply
  <2> QED BY <1>7, <1>9, InterceptedLemma
<1>11. (\E i \in DOMAIN list("guards") : list("guards")[i] = "refuses") <=> "refuses" \in run("guards")
  BY <1>7 DEF ToSet
<1>12. Enter(route, schemes, users, request) = IF "refuses" \in run("guards") THEN 403 ELSE status
  BY <1>3, <1>5, <1>11 DEF Enter, list
<1>13. (\E id \in known : comply(id)) <=> who # Nobody /\ comply(who)
  BY <1>4
<1> HIDE DEF asked, who, known, comply, run, status
<1>14. CASE who = Unnamed /\ Enter(route, schemes, users, request) = 401
  BY <1>14 DEF TurnedAway, who
<1>15. CASE ~(who = Unnamed /\ Enter(route, schemes, users, request) = 401)
  <2>1. Enter(route, schemes, users, request) = 200 <=>
          /\ "refuses" \notin run("guards")
          /\ "stop" \notin run("interceptors")
          /\ "authorize" \in run("interceptors") => \E id \in known : comply(id)
    <3>1. Nobody # Unnamed
      BY DEF Nobody, Unnamed
    <3>2. CASE "refuses" \in run("guards")
      BY <1>12, <3>2
    <3>3. CASE "refuses" \notin run("guards") /\ who # Unnamed
      BY <1>10, <1>12, <1>13, <3>3
    <3>4. CASE "refuses" \notin run("guards") /\ who = Unnamed
      <4>1. Enter(route, schemes, users, request) = status /\ status # 401
        BY <1>12, <1>15, <3>4
      <4>2. status = 200 <=> "stop" \notin run("interceptors") /\ "authorize" \notin run("interceptors")
        BY <1>10, <3>4
      <4>3. status = 200 \/ "stop" \in run("interceptors")
        BY <1>10, <3>4, <4>1
      <4> QED BY <3>4, <4>1, <4>2, <4>3
    <3> QED BY <3>2, <3>3, <3>4
  <2> QED BY <2>1 DEF RightlyEntered, run, known, comply
<1> QED BY <1>14, <1>15

-----------------------------------------------------------------------------
(***************************************************************************)
(* Parameters.                                                             *)
(***************************************************************************)
\* A result that gives a parameter its value, or the error that it has none.
Answer(name, value) == IF value = {} THEN Fail ELSE Give(name, value)

LEMMA AnswerLemma ==
  ASSUME NEW name, NEW value
  PROVE  /\ Answer(name, value).crash = FALSE
         /\ Answer(name, value).errors \in BOOLEAN
         /\ Answer(name, value).errors <=> value = {}
         /\ value # {} => Answer(name, value).values = [n \in {name} |-> value]
  BY DEF Answer, Fail, Give, Values

LEMMA AnsweredLemma ==
  ASSUME NEW name, NEW value, NEW r, r = Answer(name, value)
  PROVE  r.errors = (value = {}) /\ (value # {} => r.values[name] = value)
<1>1. r.errors = (value = {})
  <2>1. r.errors \in BOOLEAN /\ (r.errors <=> value = {})
    BY AnswerLemma
  <2> QED BY <2>1
<1>2. value # {} => r.values = [n \in {name} |-> value]
  <2>1. value # {} => Answer(name, value).values = [n \in {name} |-> value]
    BY DEF Answer, Give, Values
  <2> QED BY <2>1
<1> QED BY <1>1, <1>2

\* Where a parameter is read, and that a field keeps what was declared of it.
LEMMA FieldLemma ==
  ASSUME NEW p \in Parameter, NEW path
  PROVE  LET f == FieldOf(p, path)
         IN  /\ f.kind = KindOf(p, path) /\ f.kind \in ParameterKind
             /\ f.name = p.name /\ f.type = p.type /\ f.fields = p.fields
             /\ f.default \in DefaultKind
             /\ f.kind = "path" => f.default = "required"
             /\ f.kind = "body" => (f.embed <=> p.embed)
             /\ f.kind \in {"form", "file"} => f.embed
<1> DEFINE f == FieldOf(p, path)
<1>1. /\ p.form \in {"plain", "default", "short"} /\ p.kind \in ParameterKind /\ p.default \in DefaultKind
      /\ p.embed \in BOOLEAN /\ (p.form = "plain" => ~p.embed)
  BY DEF Parameter
<1>2. f.kind = KindOf(p, path) /\ f.name = p.name /\ f.type = p.type /\ f.fields = p.fields
  BY DEF FieldOf
<1>3. KindOf(p, path) \in ParameterKind
  BY <1>1 DEF KindOf, ParameterKind
<1>4. f.default = IF f.kind = "path" THEN "required" ELSE p.default
  BY <1>2 DEF FieldOf
<1>5. f.embed = ((OwnInfo(p, path) /\ p.embed) \/ f.kind \in {"form", "file"})
  BY <1>2 DEF FieldOf
<1>6. f.kind = "body" => OwnInfo(p, path) = (p.form # "plain")
  BY <1>2 DEF KindOf, OwnInfo
<1> HIDE DEF f
<1>7. f.default \in DefaultKind /\ (f.kind = "path" => f.default = "required")
  BY <1>1, <1>4 DEF DefaultKind
<1>8. f.kind = "body" => (f.embed <=> p.embed)
  BY <1>1, <1>5, <1>6
<1>9. f.kind \in {"form", "file"} => f.embed
  BY <1>5
<1> QED BY <1>2, <1>3, <1>7, <1>8, <1>9 DEF f

LEMMA PlaceLemma ==
  ASSUME NEW ps, NEW path, NEW p \in ToSet(ps), KindOf(p, path) \in ParameterKind
  PROVE  LET kind == KindOf(p, path) place == Place(p, ps, path)
             kinds == {KindOf(q, path) : q \in Bodies(ps, path)}
         IN  /\ kind \notin {"body", "form", "file"} => place = kind /\ In(kind) # "body"
             /\ kind \in {"body", "form", "file"} =>
                  /\ In(kind) = "body"
                  /\ place = IF "file" \in kinds \/ "body" \notin kinds THEN "form"
                             ELSE IF Bodies(ps, path) = {p} /\ ~p.embed THEN "whole" ELSE "member"
  BY DEF Place, Bodies, In, ParameterKind

-----------------------------------------------------------------------------
\* What is read of one field: the value that is received for it, or its default.
IsMissing(g, got) ==
  g.alias \notin DOMAIN got \/ (g.kind \in {"form", "file"} /\ got[g.alias] = "")
Token(g, name, got) ==
  IF IsMissing(g, got) THEN (IF g.default = "required" THEN {} ELSE {<<name, "default", Key("")>>})
  ELSE IF got[g.alias] = "ok" /\ (g.kind \in {"path", "cookie", "body"} => g.type = "scalar")
  THEN {<<name, g.kind, g.alias>>} ELSE {}

LEMMA ReadLemma ==
  ASSUME NEW g, NEW request, g.kind \in ParameterKind, g.default \in DefaultKind,
         g.kind \in {"path", "cookie"} => g.default # "value" \/ g.alias \in DOMAIN request[g.kind],
         g.kind = "body" => g.default # "value" \/ g.alias \in DOMAIN request.form,
         g.kind = "body" => request.form # <<>>
  PROVE  Read(g, request) =
           Answer(g.name, Token(g, "", IF g.kind \in {"body", "form", "file"} THEN request.form ELSE request[g.kind]))
<1> DEFINE got == IF g.kind \in {"body", "form", "file"} THEN request.form ELSE request[g.kind]
<1> USE DEF ParameterKind, DefaultKind, Answer, Token, IsMissing, OrDefault, Default, From, Unset
<1>1. CASE g.kind \in {"query", "header"}
  <2>1. Read(g, request) = ReadParameter(g, request[g.kind])
    BY <1>1 DEF Read
  <2> QED BY <1>1, <2>1 DEF ReadParameter
<1>2. CASE g.kind \in {"path", "cookie"}
  <2>1. Read(g, request) = ReadValue(g, request[g.kind])
    BY <1>2 DEF Read
  <2> QED BY <1>2, <2>1 DEF ReadValue, ReadOne, ReadParameter
<1>3. CASE g.kind \in {"form", "file"}
  <2>1. Read(g, request) = ReadForm(g, request.form)
    BY <1>3 DEF Read
  <2> QED BY <1>3, <2>1 DEF ReadForm, ReadParameter
<1>4. CASE g.kind = "body"
  <2>1. Read(g, request) = ReadValue(g, request.form)
    BY <1>4 DEF Read
  <2> QED BY <1>4, <2>1 DEF ReadValue, ReadOne, ReadParameter
<1> QED BY <1>1, <1>2, <1>3, <1>4

\* The same of a member of the JSON object.
MemberToken(g, has) ==
  IF g.alias \notin DOMAIN has THEN (IF g.default = "required" THEN {} ELSE {<<"", "default", Key("")>>})
  ELSE IF has[g.alias] = "ok" THEN {<<"", "body", g.alias>>} ELSE {}

\* A body next to a form that is empty is a member of the JSON.
LEMMA ReadAgainLemma ==
  ASSUME NEW g, NEW request, g.kind = "body", g.default \in DefaultKind, request.form = <<>>,
         g.default # "value" \/ g.alias \in DOMAIN Parsed(request).has
  PROVE  Read(g, request) = Answer(g.name, IF Parsed(request).is # "object" THEN {}
                                           ELSE MemberToken(g, Parsed(request).has))
<1> DEFINE json == Parsed(request)
<1>1. Read(g, request) = IF json.is = "object" THEN ReadOne(g, json.has) ELSE Fail
  BY DEF Read, ReadAgain
<1> HIDE DEF json
<1> QED BY <1>1 DEF ReadOne, ReadParameter, Answer, MemberToken, OrDefault, Default, From, Unset, DefaultKind, json

LEMMA NamedLemma ==
  ASSUME NEW name, NEW a, NEW b
  PROVE  {<<name, t[2], t[3]>> : t \in {<<"", a, b>>}} = {<<name, a, b>>}
<1> DEFINE token == <<"", a, b>>
<1>1. token[2] = a /\ token[3] = b
  OBVIOUS
<1>2. {<<name, t[2], t[3]>> : t \in {token}} = {<<name, token[2], token[3]>>}
  <2> HIDE DEF token
  <2> QED OBVIOUS
<1> QED BY <1>1, <1>2

LEMMA ReadPartsLemma ==
  ASSUME NEW f, NEW request
  PROVE  ReadParts(f, request) =
           IF \E g \in ToSet(f.fields) : Read(Part(f, g), request).errors THEN Fail
           ELSE Give(f.name, UNION {{<<g.name, t[2], t[3]>> : t \in Read(Part(f, g), request).values[g.name]} :
                                      g \in ToSet(f.fields)})
  BY DEF ReadParts

\* A model is read by its fields, and has a value when each of them has.
LEMMA PartsLemma ==
  ASSUME NEW f, NEW request, f.kind \in ParameterKind \ {"body", "file"},
         f.fields \in Seq(ModelField), f.fields # <<>>,
         \A g \in ToSet(f.fields) : f.kind \in {"path", "cookie"} =>
           Part(f, g).default # "value" \/ Part(f, g).alias \in DOMAIN request[f.kind]
  PROVE  LET got == IF f.kind = "form" THEN request.form ELSE request[f.kind]
             tokens == {Token(Part(f, g), g.name, got) : g \in ToSet(f.fields)}
         IN  ReadParts(f, request) = Answer(f.name, IF {} \in tokens THEN {} ELSE UNION tokens)
<1> DEFINE got == IF f.kind = "form" THEN request.form ELSE request[f.kind]
           tokens == {Token(Part(f, g), g.name, got) : g \in ToSet(f.fields)}
           named(g, t) == <<g.name, t[2], t[3]>>
           values(g) == {named(g, t) : t \in Read(Part(f, g), request).values[g.name]}
<1>1. ASSUME NEW g \in ToSet(f.fields)
      PROVE  /\ Read(Part(f, g), request).errors = (Token(Part(f, g), g.name, got) = {})
             /\ ~Read(Part(f, g), request).errors => values(g) = Token(Part(f, g), g.name, got)
  <2> DEFINE q == Part(f, g)
             t0 == Token(q, "", got)
  <2>1. g \in ModelField
    BY DEF ToSet
  <2>2. q.kind = f.kind /\ q.name = g.name /\ q.default \in DefaultKind
    BY <2>1 DEF Part, ModelField, DefaultKind
  <2>3. q.kind \in ParameterKind /\ q.kind \notin {"body", "file"}
    BY <2>2
  <2>4. q.kind \in {"path", "cookie"} => q.default # "value" \/ q.alias \in DOMAIN request[q.kind]
    BY <2>2, <2>3
  <2> HIDE DEF q
  <2>5. Read(q, request) = Answer(q.name, t0)
    BY <2>2, <2>3, <2>4, ReadLemma
  <2>6. /\ Read(q, request).errors = (t0 = {})
        /\ t0 # {} => Read(q, request).values[g.name] = t0
    <3> HIDE DEF t0
    <3>1. Read(q, request) = Answer(g.name, t0)
      BY <2>2, <2>5
    <3> QED BY ONLY <3>1, AnsweredLemma
  <2>7. \/ t0 = {} /\ Token(q, g.name, got) = {}
        \/ \E a, b : t0 = {<<"", a, b>>} /\ Token(q, g.name, got) = {<<g.name, a, b>>}
    BY Zenon DEF Token
  <2>8. ASSUME NEW a, NEW b PROVE {<<g.name, t[2], t[3]>> : t \in {<<"", a, b>>}} = {<<g.name, a, b>>}
    BY NamedLemma
  <2>9. (t0 = {}) = (Token(q, g.name, got) = {})
    BY <2>7
  <2>10. ASSUME t0 # {} PROVE values(g) = Token(q, g.name, got)
    <3> HIDE DEF t0
    <3>1. PICK a, b : t0 = {<<"", a, b>>} /\ Token(q, g.name, got) = {<<g.name, a, b>>}
      BY <2>7, <2>10
    <3>2. values(g) = {<<g.name, t[2], t[3]>> : t \in t0}
      BY <2>6, <2>10 DEF q
    <3> HIDE DEF values, got
    <3> QED BY <2>8, <3>1, <3>2
  <2>11. Read(q, request).errors = (Token(q, g.name, got) = {})
    BY <2>6, <2>9
  <2>12. ~Read(q, request).errors => values(g) = Token(q, g.name, got)
    BY <2>6, <2>10
  <2> HIDE DEF values, t0, got
  <2> QED BY <2>11, <2>12 DEF q
<1>2. ReadParts(f, request) =
        IF \E g \in ToSet(f.fields) : Read(Part(f, g), request).errors THEN Fail
        ELSE Give(f.name, UNION {values(g) : g \in ToSet(f.fields)})
  BY ReadPartsLemma
<1>3. (\E g \in ToSet(f.fields) : Read(Part(f, g), request).errors) <=> {} \in tokens
  BY <1>1
<1>4. CASE {} \in tokens
  BY <1>2, <1>3, <1>4 DEF Answer
<1>5. CASE {} \notin tokens
  <2>1. {values(g) : g \in ToSet(f.fields)} = tokens
    <3>1. \A g \in ToSet(f.fields) : values(g) = Token(Part(f, g), g.name, got)
      BY <1>1, <1>3, <1>5
    <3> HIDE DEF values
    <3> QED BY <3>1
  <2>2. UNION tokens # {}
    <3>1. f.fields[1] \in ToSet(f.fields)
      BY DEF ToSet
    <3>2. Token(Part(f, f.fields[1]), f.fields[1].name, got) \in tokens
      BY <3>1
    <3> QED BY <3>2, <1>5
  <2>3. ReadParts(f, request) = Answer(f.name, UNION tokens)
    <3> HIDE DEF tokens, values
    <3> QED BY <1>2, <1>3, <1>5, <2>1, <2>2 DEF Answer
  <2> QED BY <1>5, <2>3
<1> QED BY <1>4, <1>5

\* What is wanted of a parameter with a place of its own.
LEMMA WantedLemma ==
  ASSUME NEW ps, NEW path, NEW request, NEW p \in ToSet(ps), p \in Parameter,
         Place(p, ps, path) \notin {"whole", "member"}
  PROVE  LET f      == FieldOf(p, path)
             got    == IF f.kind \in {"body", "form", "file"} THEN request.form ELSE request[f.kind]
             tokens == {Token(Part(f, g), g.name, got) : g \in ToSet(f.fields)}
         IN  /\ request[Place(p, ps, path)] = got
             /\ Single(p, ps, path) <=> f.kind \in {"path", "cookie", "body"}
             /\ NoForm(p, ps, path, request) <=> f.kind = "body" /\ request.form = <<>>
             /\ Wanted(p, ps, path, request) =
                  IF f.kind = "body" /\ request.form = <<>>
                  THEN (IF Parsed(request).is # "object" THEN {} ELSE MemberToken(f, Parsed(request).has))
                  ELSE IF Bulk(f) THEN (IF {} \in tokens THEN {} ELSE UNION tokens)
                  ELSE Token(f, "", got)
<1> DEFINE f      == FieldOf(p, path)
           place  == Place(p, ps, path)
           got    == IF f.kind \in {"body", "form", "file"} THEN request.form ELSE request[f.kind]
           tokens == {Token(Part(f, g), g.name, got) : g \in ToSet(f.fields)}
           want   == Wanted(p, ps, path, request)
<1>1. /\ f.kind = KindOf(p, path) /\ f.kind \in ParameterKind /\ f.name = p.name /\ f.type = p.type
      /\ f.fields = p.fields /\ f.default \in DefaultKind /\ (f.kind = "path" => f.default = "required")
  BY FieldLemma
<1>2. place = IF f.kind \in {"body", "form", "file"} THEN "form" ELSE f.kind
  BY <1>1, PlaceLemma
<1>3. request[place] = got
  BY <1>2
<1>4. Single(p, ps, path) <=> f.kind \in {"path", "cookie", "body"}
  BY <1>1, <1>2 DEF Single, ParameterKind
<1>5. NoForm(p, ps, path, request) <=> f.kind = "body" /\ request.form = <<>>
  BY <1>1, <1>2 DEF NoForm
<1>6. CASE f.kind = "body" /\ request.form = <<>>
  <2>1. ~Bulk(f) /\ NoForm(p, ps, path, request)
    BY <1>5, <1>6 DEF Bulk
  <2>2. want = IF Parsed(request).is # "object" THEN {} ELSE MemberToken(f, Parsed(request).has)
    BY <1>6, <2>1 DEF Wanted, MemberToken
  <2> QED BY <1>3, <1>4, <1>5, <1>6, <2>2
<1>7. CASE ~(f.kind = "body" /\ request.form = <<>>)
  <2> DEFINE missing(g) == g.alias \notin DOMAIN request[place]
                             \/ (g.kind \in {"form", "file"} /\ request[place][g.alias] = "")
             good(g) == request[place][g.alias] = "ok" /\ (Single(p, ps, path) => g.type = "scalar")
             token(g, name) ==
               IF missing(g) THEN (IF g.default = "required" THEN {} ELSE {<<name, "default", Key("")>>})
               ELSE IF good(g) THEN {<<name, f.kind, g.alias>>} ELSE {}
             seen == {token(Part(f, g), g.name) : g \in ToSet(f.fields)}
  <2>1. want = IF Bulk(f) THEN (IF {} \in seen THEN {} ELSE UNION seen) ELSE token(f, "")
    <3>1. place # "whole" /\ place # "member" /\ ~NoForm(p, ps, path, request)
      BY <1>5, <1>7
    <3> QED BY <3>1 DEF Wanted
  <2>2. ASSUME NEW g, NEW name, g.kind = f.kind PROVE token(g, name) = Token(g, name, got)
    BY <1>3, <1>4, <2>2 DEF Token, IsMissing
  <2>3. \A g : Part(f, g).kind = f.kind
    BY DEF Part
  <2>4. seen = tokens
    <3>1. \A g \in ToSet(f.fields) : token(Part(f, g), g.name) = Token(Part(f, g), g.name, got)
      BY <2>2, <2>3
    <3> HIDE DEF token, got, f
    <3> QED BY <3>1
  <2>5. token(f, "") = Token(f, "", got)
    BY <2>2
  <2> HIDE DEF tokens, seen
  <2>6. want = IF Bulk(f) THEN (IF {} \in tokens THEN {} ELSE UNION tokens) ELSE Token(f, "", got)
    BY <2>1, <2>4, <2>5
  <2> QED BY <1>3, <1>4, <1>5, <1>7, <2>6 DEF tokens
<1> QED BY <1>6, <1>7

\* A parameter with a place of its own is read as Wanted says.
LEMMA OneLemma ==
  ASSUME NEW ps, NEW path, NEW request, NEW p \in ToSet(ps), p \in Parameter,
         ~Unusual(p, ps, path, request), Place(p, ps, path) \notin {"whole", "member"}
  PROVE  Resolve(FieldOf(p, path), request) = Answer(p.name, Wanted(p, ps, path, request))
<1> DEFINE f      == FieldOf(p, path)
           got    == IF f.kind \in {"body", "form", "file"} THEN request.form ELSE request[f.kind]
           tokens == {Token(Part(f, g), g.name, got) : g \in ToSet(f.fields)}
           want   == Wanted(p, ps, path, request)
<1>1. /\ f.kind = KindOf(p, path) /\ f.kind \in ParameterKind /\ f.name = p.name /\ f.type = p.type
      /\ f.fields = p.fields /\ f.default \in DefaultKind /\ (f.kind = "path" => f.default = "required")
  BY FieldLemma
<1>2. request[Place(p, ps, path)] = got
  BY WantedLemma
<1>3. Single(p, ps, path) <=> f.kind \in {"path", "cookie", "body"}
  BY WantedLemma
<1>4. /\ Bulk(f) /\ f.kind = "form" => f.grouped
      /\ Single(p, ps, path) => \A g \in Parts(f) :
           g.default # "value" \/ g.alias \in DOMAIN (IF NoForm(p, ps, path, request) THEN Parsed(request).has ELSE got)
  BY <1>2 DEF Unusual
<1>9. NoForm(p, ps, path, request) <=> f.kind = "body" /\ request.form = <<>>
  BY WantedLemma
<1>5. want = IF f.kind = "body" /\ request.form = <<>>
             THEN (IF Parsed(request).is # "object" THEN {} ELSE MemberToken(f, Parsed(request).has))
             ELSE IF Bulk(f) THEN (IF {} \in tokens THEN {} ELSE UNION tokens)
             ELSE Token(f, "", got)
  BY WantedLemma
<1>6. CASE f.kind = "body" /\ request.form = <<>>
  <2>1. ~Bulk(f) /\ NoForm(p, ps, path, request) /\ Parts(f) = {f}
    BY <1>6, <1>9 DEF Bulk, Parts
  <2>2. Resolve(f, request) = Read(f, request)
    BY <2>1 DEF Resolve
  <2>3. f.default # "value" \/ f.alias \in DOMAIN Parsed(request).has
    BY <1>3, <1>4, <1>6, <2>1
  <2>4. Read(f, request) = Answer(f.name, want)
    <3> HIDE DEF f, want
    <3> QED BY <1>1, <1>5, <1>6, <2>3, ReadAgainLemma
  <2> QED BY <1>1, <2>2, <2>4
<1>7. CASE ~(f.kind = "body" /\ request.form = <<>>) /\ ~Bulk(f)
  <2>1. Resolve(f, request) = Read(f, request)
    BY <1>7 DEF Resolve
  <2>2. f.kind = "body" => request.form # <<>>
    BY <1>7
  <2>3. f.kind \in {"path", "cookie", "body"} => f.default # "value" \/ f.alias \in DOMAIN got
    BY <1>3, <1>4, <1>7, <1>9 DEF Parts
  <2>4. Read(f, request) = Answer(f.name, Token(f, "", got))
    <3> HIDE DEF f
    <3> QED BY <1>1, <2>2, <2>3, ReadLemma DEF got
  <2> QED BY <1>1, <1>5, <1>7, <2>1, <2>4
<1>8. CASE Bulk(f)
  <2>1. f.kind \in ParameterKind \ {"body", "file"} /\ f.type = "model"
    BY <1>1, <1>8 DEF Bulk
  <2>2. f.fields \in Seq(ModelField) /\ f.fields # <<>>
    BY <1>1, <2>1 DEF Parameter
  <2>3. f.kind = "form" => f.grouped
    BY <1>4, <1>8
  <2>4. Resolve(f, request) = ReadParts(f, request)
    BY <1>8, <2>3 DEF Resolve
  <2>5. \A g \in ToSet(f.fields) : f.kind \in {"path", "cookie"} =>
          Part(f, g).default # "value" \/ Part(f, g).alias \in DOMAIN request[f.kind]
    BY <1>3, <1>4, <1>8, <1>9, <2>1 DEF Parts
  <2>6. got = IF f.kind = "form" THEN request.form ELSE request[f.kind]
    BY <2>1
  <2>7. ReadParts(f, request) = Answer(f.name, IF {} \in tokens THEN {} ELSE UNION tokens)
    <3> HIDE DEF f
    <3>1. LET got_ == IF f.kind = "form" THEN request.form ELSE request[f.kind]
              tokens_ == {Token(Part(f, g), g.name, got_) : g \in ToSet(f.fields)}
          IN  ReadParts(f, request) = Answer(f.name, IF {} \in tokens_ THEN {} ELSE UNION tokens_)
      BY <2>1, <2>2, <2>5, PartsLemma
    <3> HIDE DEF got
    <3> QED BY <2>6, <3>1
  <2>8. want = IF {} \in tokens THEN {} ELSE UNION tokens
    <3>1. f.kind # "body"
      BY <2>1
    <3> HIDE DEF tokens, want, got, f
    <3> QED BY <1>5, <1>8, <3>1
  <2> QED BY <1>1, <2>4, <2>7, <2>8
<1> QED BY <1>6, <1>7, <1>8

-----------------------------------------------------------------------------
\* A result has the values of the parameters at the places I, or errors when one
\* of them has none.
Binds(r, I, ps, path, request) ==
  /\ ~r.crash
  /\ r.errors \in BOOLEAN /\ (r.errors <=> \E i \in I : Wanted(ps[i], ps, path, request) = {})
  /\ ~r.errors =>
       /\ DOMAIN r.values = {ps[i].name : i \in I}
       /\ r.values = [n \in DOMAIN r.values |-> r.values[n]]
       /\ \A i \in I : r.values[ps[i].name] = Wanted(ps[i], ps, path, request)

Distinct(ps) == \A i, j \in DOMAIN ps : ps[i].name = ps[j].name => i = j

LEMMA SoleMax == ASSUME NEW i \in Int PROVE Max({i}) = i
  BY DEF Max

\* Parameters that are resolved one by one.
LEMMA TogetherLemma ==
  ASSUME NEW ps, NEW path, NEW request, DOMAIN ps \subseteq Int, Distinct(ps), NEW I \in SUBSET DOMAIN ps,
         NEW rs, DOMAIN rs = I,
         \A i \in I : rs[i] = Answer(ps[i].name, Wanted(ps[i], ps, path, request))
  PROVE  Binds(Together(rs), I, ps, path, request)
<1> DEFINE r == Together(rs)
           w(i) == Wanted(ps[i], ps, path, request)
           having(n) == {i \in DOMAIN rs : n \in DOMAIN rs[i].values}
<1>1. \A i \in I : /\ ~rs[i].crash /\ (rs[i].errors <=> w(i) = {})
                   /\ w(i) # {} => rs[i].values = [n \in {ps[i].name} |-> w(i)]
  <2> TAKE i \in I
  <2>1. rs[i] = Answer(ps[i].name, w(i))
    OBVIOUS
  <2> DEFINE value == w(i)
  <2> HIDE DEF value
  <2>2. /\ Answer(ps[i].name, value).crash = FALSE
        /\ Answer(ps[i].name, value).errors <=> value = {}
    BY AnswerLemma
  <2>3. value # {} => Answer(ps[i].name, value).values = [n \in {ps[i].name} |-> value]
    BY DEF Answer, Give, Values
  <2>4. rs[i] = Answer(ps[i].name, value)
    BY <2>1 DEF value
  <2>5. /\ ~rs[i].crash /\ (rs[i].errors <=> value = {})
        /\ value # {} => rs[i].values = [n \in {ps[i].name} |-> value]
    BY <2>2, <2>3, <2>4
  <2> QED BY <2>5 DEF value
<1>2. /\ r.crash = (\E i \in I : rs[i].crash)
      /\ r.errors = (\E i \in I : rs[i].errors)
      /\ r.values = [n \in UNION {DOMAIN rs[i].values : i \in I} |-> rs[Max(having(n))].values[n]]
  BY DEF Together
<1> HIDE DEF w
<1>3. ~r.crash /\ r.errors \in BOOLEAN /\ (r.errors <=> \E i \in I : w(i) = {})
  BY <1>1, <1>2
<1>4. ASSUME ~r.errors
      PROVE  /\ DOMAIN r.values = {ps[i].name : i \in I}
             /\ r.values = [n \in DOMAIN r.values |-> r.values[n]]
             /\ \A i \in I : r.values[ps[i].name] = w(i)
  <2>1. \A i \in I : rs[i].values = [n \in {ps[i].name} |-> w(i)]
    BY <1>1, <1>3, <1>4
  <2>2. \A i \in I : DOMAIN rs[i].values = {ps[i].name}
    BY <2>1
  <2>3. UNION {DOMAIN rs[i].values : i \in I} = {ps[i].name : i \in I}
    BY <2>2
  <2>4. ASSUME NEW i \in I PROVE rs[Max(having(ps[i].name))].values[ps[i].name] = w(i)
    <3>1. having(ps[i].name) = {i}
      BY <2>2 DEF Distinct
    <3>2. Max({i}) = i
      BY SoleMax
    <3>3. rs[i].values[ps[i].name] = w(i)
      BY <2>1
    <3> HIDE DEF having
    <3> QED BY <3>1, <3>2, <3>3
  <2>5. /\ DOMAIN r.values = {ps[i].name : i \in I}
        /\ \A n \in {ps[i].name : i \in I} : r.values[n] = rs[Max(having(n))].values[n]
    BY <1>2, <2>3
  <2>6. r.values = [n \in DOMAIN r.values |-> r.values[n]]
    BY <1>2
  <2> HIDE DEF r, having
  <2> QED BY <2>4, <2>5, <2>6
<1> QED BY <1>3, <1>4 DEF Binds, w

\* Two results for different parameters.
LEMMA JoinLemma ==
  ASSUME NEW ps, NEW path, NEW request, Distinct(ps),
         NEW I \in SUBSET DOMAIN ps, NEW J \in SUBSET DOMAIN ps, I \cap J = {},
         NEW a, NEW b, Binds(a, I, ps, path, request), Binds(b, J, ps, path, request)
  PROVE  Binds(Together(<<a, b>>), I \cup J, ps, path, request)
<1> DEFINE rs == <<a, b>>
           r == Together(rs)
           w(i) == Wanted(ps[i], ps, path, request)
           having(n) == {i \in DOMAIN rs : n \in DOMAIN rs[i].values}
           names(K) == {ps[i].name : i \in K}
<1>1. DOMAIN rs = {1, 2} /\ rs[1] = a /\ rs[2] = b
  OBVIOUS
<1>2. /\ ~a.crash /\ a.errors \in BOOLEAN /\ (a.errors <=> \E i \in I : w(i) = {})
      /\ ~a.errors => DOMAIN a.values = names(I) /\ \A i \in I : a.values[ps[i].name] = w(i)
  BY DEF Binds
<1>3. /\ ~b.crash /\ b.errors \in BOOLEAN /\ (b.errors <=> \E i \in J : w(i) = {})
      /\ ~b.errors => DOMAIN b.values = names(J) /\ \A i \in J : b.values[ps[i].name] = w(i)
  BY DEF Binds
<1> HIDE DEF rs, w
<1>4. /\ r.crash = (\E i \in {1, 2} : rs[i].crash)
      /\ r.errors = (\E i \in {1, 2} : rs[i].errors)
      /\ r.values = [n \in UNION {DOMAIN rs[i].values : i \in {1, 2}} |-> rs[Max(having(n))].values[n]]
  BY <1>1 DEF Together
<1>5. ~r.crash /\ r.errors \in BOOLEAN /\ (r.errors <=> a.errors \/ b.errors)
  BY <1>1, <1>2, <1>3, <1>4
<1>6. r.errors <=> \E i \in I \cup J : w(i) = {}
  BY <1>2, <1>3, <1>5
<1>7. ASSUME ~r.errors
      PROVE  /\ DOMAIN r.values = names(I \cup J)
             /\ r.values = [n \in DOMAIN r.values |-> r.values[n]]
             /\ \A i \in I \cup J : r.values[ps[i].name] = w(i)
  <2>1. DOMAIN rs[1].values = names(I) /\ DOMAIN rs[2].values = names(J)
    BY <1>1, <1>2, <1>3, <1>5, <1>7
  <2>2. UNION {DOMAIN rs[i].values : i \in {1, 2}} = names(I \cup J)
    BY <2>1
  <2>3. ASSUME NEW i \in I \cup J PROVE rs[Max(having(ps[i].name))].values[ps[i].name] = w(i)
    <3>1. CASE i \in I
      <4>1. having(ps[i].name) = {1}
        BY <1>1, <2>1, <3>1 DEF Distinct
      <4>2. Max({1}) = 1
        BY SoleMax
      <4> QED BY <1>1, <1>2, <1>5, <1>7, <3>1, <4>1, <4>2
    <3>2. CASE i \in J
      <4>1. having(ps[i].name) = {2}
        BY <1>1, <2>1, <3>2 DEF Distinct
      <4>2. Max({2}) = 2
        BY SoleMax
      <4> QED BY <1>1, <1>3, <1>5, <1>7, <3>2, <4>1, <4>2
    <3> QED BY <3>1, <3>2
  <2>4. /\ DOMAIN r.values = names(I \cup J)
        /\ \A n \in names(I \cup J) : r.values[n] = rs[Max(having(n))].values[n]
    BY <1>4, <2>2
  <2>5. r.values = [n \in DOMAIN r.values |-> r.values[n]]
    BY <1>4
  <2> HIDE DEF r, having
  <2> QED BY <2>3, <2>4, <2>5
<1> QED BY <1>5, <1>6, <1>7 DEF Binds, w, rs

-----------------------------------------------------------------------------
\* The bodies: one that is the whole body, members of one object, or fields of a
\* form.
LEMMA LastLemma ==
  ASSUME NEW F, F # {}, \A f \in F : f.kind \in {"body", "form", "file"}
  PROVE  LET last == CHOOSE f \in F : \A g \in F : Media(g.kind) <= Media(f.kind)
         IN  /\ last \in F
             /\ IsJson(last) <=> (\E f \in F : f.kind = "body") /\ ~\E f \in F : f.kind = "file"
<1> DEFINE highest(f) == f \in F /\ \A g \in F : Media(g.kind) <= Media(f.kind)
           last == CHOOSE f \in F : \A g \in F : Media(g.kind) <= Media(f.kind)
<1>1. Media("form") = 1 /\ Media("body") = 2 /\ Media("file") = 3
  BY DEF Media
<1>2. \E f \in F : \A g \in F : Media(g.kind) <= Media(f.kind)
  <2>1. CASE \E f \in F : f.kind = "file"
    BY <1>1, <2>1
  <2>2. CASE ~(\E f \in F : f.kind = "file") /\ \E f \in F : f.kind = "body"
    BY <1>1, <2>2
  <2>3. CASE ~(\E f \in F : f.kind = "file") /\ ~\E f \in F : f.kind = "body"
    BY <1>1, <2>3
  <2> QED BY <2>1, <2>2, <2>3
<1>3. last \in F /\ \A g \in F : Media(g.kind) <= Media(last.kind)
  BY <1>2
<1> HIDE DEF last
<1>4. IsJson(last) <=> (\E f \in F : f.kind = "body") /\ ~\E f \in F : f.kind = "file"
  BY <1>1, <1>3 DEF IsJson
<1> QED BY <1>3, <1>4 DEF last

LEMMA WholeLemma ==
  ASSUME NEW ps, NEW path, NEW request, NEW p \in ToSet(ps), p \in Parameter, Place(p, ps, path) = "whole"
  PROVE  ReadWhole(FieldOf(p, path), Parsed(request)) = Answer(p.name, Wanted(p, ps, path, request))
<1> DEFINE f == FieldOf(p, path)
           object == Parsed(request)
           want == Wanted(p, ps, path, request)
<1>1. f.name = p.name
  BY FieldLemma
<1>2. Parsed(request).is = object.is
  BY DEF Parsed
<1>3. want = IF object.is = "valid" THEN {<<"", "body", Key("")>>}
             ELSE IF object.is = "null" /\ f.default = Unset THEN Default ELSE {}
  <2>1. f.kind = KindOf(p, path) /\ f.kind \in ParameterKind
    BY FieldLemma
  <2>2. f.kind \in {"body", "form", "file"}
    BY <2>1, PlaceLemma DEF ParameterKind
  <2>3. Bodies(ps, path) = {p} /\ "body" \in {KindOf(q, path) : q \in Bodies(ps, path)}
    BY <2>1, <2>2, PlaceLemma
  <2>4. f.kind = "body"
    BY <2>1, <2>3
  <2>5. ~Bulk(f) /\ ~NoForm(p, ps, path, request)
    BY <2>4 DEF Bulk, NoForm
  <2> QED BY <2>5 DEF Wanted
<1> HIDE DEF f, want, object
<1>4. ReadWhole(f, Parsed(request)) = Answer(f.name, want)
  BY <1>2, <1>3 DEF ReadWhole, Answer, Default
<1> QED BY <1>1, <1>4 DEF f, want

LEMMA MemberLemma ==
  ASSUME NEW ps, NEW path, NEW request, NEW p \in ToSet(ps), p \in Parameter,
         Place(p, ps, path) = "member", ~Unusual(p, ps, path, request)
  PROVE  /\ Parsed(request).is # "null"
         /\ IF Parsed(request).is = "object"
            THEN Member(FieldOf(p, path), Parsed(request).has) = Answer(p.name, Wanted(p, ps, path, request))
            ELSE Wanted(p, ps, path, request) = {}
<1> DEFINE f == FieldOf(p, path)
           object == Parsed(request)
           want == Wanted(p, ps, path, request)
           as == [f EXCEPT !.name = f.alias[2]]
           token == IF f.alias \notin DOMAIN object.has
                    THEN (IF f.default = "required" THEN {} ELSE {<<"", "default", Key("")>>})
                    ELSE IF object.has[f.alias] = "ok" THEN {<<"", "body", f.alias>>} ELSE {}
<1>1. p.alias = Unset /\ request.json.is # "null"
  BY DEF Unusual
<1>2. Parsed(request).is = object.is /\ (object.is = "object" => Parsed(request).has = object.has)
  BY DEF Parsed
<1>3. object.is # "null"
  BY <1>1 DEF Parsed
<1>4. f.kind \in {"body", "form", "file"}
  <2>1. f.kind = KindOf(p, path) /\ f.kind \in ParameterKind
    BY FieldLemma
  <2> QED BY <2>1, PlaceLemma DEF ParameterKind
<1>5. f.alias = Key(p.name)
  BY <1>1, <1>4 DEF FieldOf
<1>6. as.name = p.name /\ as.default = f.default
  BY <1>5 DEF FieldOf, Key
<1>7. ~Single(p, ps, path)
  BY DEF Single
<1>8. want = IF object.is # "object" THEN {} ELSE token
  BY <1>7 DEF Wanted
<1>9. ASSUME object.is = "object" PROVE Member(f, object.has) = Answer(p.name, token)
  <2>1. Member(f, object.has) =
          IF f.alias \notin DOMAIN object.has THEN OrDefault(as)
          ELSE IF object.has[f.alias] = "ok" THEN Give(as.name, {<<"", "body", f.alias>>}) ELSE Fail
    BY DEF Member
  <2>2. OrDefault(as) = Answer(p.name, IF f.default = "required" THEN {} ELSE {<<"", "default", Key("")>>})
    <3> HIDE DEF as, f
    <3> QED BY <1>6 DEF OrDefault, Answer, Default
  <2> HIDE DEF as, f
  <2> QED BY <1>6, <2>1, <2>2 DEF Answer
<1> HIDE DEF token, f, want, object
<1>10. IF object.is = "object" THEN Member(f, object.has) = Answer(p.name, want) ELSE want = {}
  BY <1>8, <1>9
<1> QED BY <1>2, <1>3, <1>10 DEF f, want

LEMMA BindsOne ==
  ASSUME NEW ps, NEW path, NEW request, NEW i
  PROVE  Binds(Answer(ps[i].name, Wanted(ps[i], ps, path, request)), {i}, ps, path, request)
<1> DEFINE w == Wanted(ps[i], ps, path, request)
           r == Answer(ps[i].name, w)
<1> HIDE DEF w
<1>1. /\ ~r.crash /\ r.errors \in BOOLEAN /\ (r.errors <=> w = {})
      /\ w # {} => r.values = [n \in {ps[i].name} |-> w]
  BY DEF Answer, Fail, Give, Values
<1> HIDE DEF r
<1>2. ASSUME ~r.errors
      PROVE  /\ DOMAIN r.values = {ps[j].name : j \in {i}}
             /\ r.values = [n \in DOMAIN r.values |-> r.values[n]]
             /\ r.values[ps[i].name] = w
  BY <1>1, <1>2
<1> QED BY <1>1, <1>2 DEF Binds, r, w

LEMMA BodyLemma ==
  ASSUME NEW ps \in Seq(Parameter), NEW path, NEW request, Distinct(ps),
         \A p \in ToSet(ps) : ~Unusual(p, ps, path, request),
         NEW D, D = {i \in DOMAIN ps : In(FieldOf(ps[i], path).kind) = "body"}
  PROVE  Binds(ReadBody([i \in D |-> FieldOf(ps[i], path)], request), D, ps, path, request)
<1> DEFINE fs == [i \in D |-> FieldOf(ps[i], path)]
           F  == ToSet(fs)
           last == CHOOSE f \in F : \A g \in F : Media(g.kind) <= Media(f.kind)
           body == ReadBody(fs, request)
           w(i) == Wanted(ps[i], ps, path, request)
           place(i) == Place(ps[i], ps, path)
           kinds == {KindOf(q, path) : q \in Bodies(ps, path)}
           alone == Cardinality(D) = 1
<1>1. /\ \A i \in DOMAIN ps : ps[i] \in Parameter /\ ps[i] \in ToSet(ps)
      /\ DOMAIN ps \subseteq Int /\ D \subseteq DOMAIN ps /\ IsFiniteSet(DOMAIN ps)
  <2>1. DOMAIN ps = 1..Len(ps) /\ Len(ps) \in Nat
    OBVIOUS
  <2>2. IsFiniteSet(DOMAIN ps)
    BY <2>1, FS_Interval
  <2>3. \A i \in DOMAIN ps : ps[i] \in Parameter /\ ps[i] \in ToSet(ps)
    BY DEF ToSet
  <2> QED BY <2>1, <2>2, <2>3
<1>2. DOMAIN fs = D /\ \A i \in D : fs[i] = FieldOf(ps[i], path)
  OBVIOUS
<1>3. F = {FieldOf(ps[i], path) : i \in D}
  BY DEF ToSet
<1>4. \A i \in D : /\ FieldOf(ps[i], path).kind = KindOf(ps[i], path)
                   /\ KindOf(ps[i], path) \in ParameterKind
                   /\ In(KindOf(ps[i], path)) = "body"
  BY <1>1, FieldLemma
<1>5. Bodies(ps, path) = {ps[i] : i \in D} /\ kinds = {KindOf(ps[i], path) : i \in D}
  <2>1. \A i \in DOMAIN ps : FieldOf(ps[i], path).kind = KindOf(ps[i], path)
    BY <1>1, FieldLemma
  <2> QED BY <2>1 DEF Bodies, ToSet
<1>6. \A i \in D : /\ KindOf(ps[i], path) \in {"body", "form", "file"}
                   /\ place(i) = IF "file" \in kinds \/ "body" \notin kinds THEN "form"
                                 ELSE IF Bodies(ps, path) = {ps[i]} /\ ~ps[i].embed THEN "whole" ELSE "member"
  BY <1>1, <1>4, PlaceLemma DEF ParameterKind
<1>7. alone <=> \E i : D = {i}
  <2>1. IsFiniteSet(D)
    BY <1>1, FS_Subset
  <2> QED BY <2>1, FS_Singleton
<1>8. ASSUME D # {}
      PROVE  last \in F /\ (IsJson(last) <=> "body" \in kinds /\ "file" \notin kinds)
  <2>1. F # {} /\ \A f \in F : f.kind \in {"body", "form", "file"}
    <3>1. \A i \in D : FieldOf(ps[i], path) \in F
      BY <1>3
    <3>2. \A i \in D : FieldOf(ps[i], path).kind \in {"body", "form", "file"}
      BY <1>4, <1>6
    <3> HIDE DEF F
    <3> QED BY <1>3, <1>8, <3>1, <3>2
  <2>2. last \in F /\ (IsJson(last) <=> (\E f \in F : f.kind = "body") /\ ~\E f \in F : f.kind = "file")
    <3> HIDE DEF F
    <3> QED BY <2>1, LastLemma
  <2>3. \A k : (\E f \in F : f.kind = k) <=> k \in kinds
    BY <1>3, <1>4, <1>5
  <2> HIDE DEF last, F, kinds
  <2> QED BY <2>2, <2>3
<1>9. body = CASE D = {} -> Values(<<>>)
               [] alone /\ ~(IsJson(last) /\ last.embed) ->
                    IF IsJson(last) THEN ReadWhole(last, Parsed(request)) ELSE Resolve(last, request)
               [] OTHER ->
                    IF IsJson(last) THEN ReadMembers(fs, Parsed(request))
                    ELSE Together([i \in D |-> Resolve(fs[i], request)])
  BY <1>2 DEF ReadBody
<1>10. CASE D = {}
  <2>1. ~alone
    BY <1>7, <1>10
  <2>2. body = Values(<<>>)
    BY <1>9, <1>10, <2>1
  <2>3. Values(<<>>).values = [n \in {} |-> {}] /\ ~Values(<<>>).errors /\ ~Values(<<>>).crash
    BY DEF Values
  <2> HIDE DEF body
  <2>4. DOMAIN body.values = {} /\ body.values = [n \in DOMAIN body.values |-> body.values[n]]
    BY <2>2, <2>3
  <2>5. ~body.crash /\ body.errors = FALSE
    BY <2>2 DEF Values
  <2>6. {ps[i].name : i \in {}} = {}
    OBVIOUS
  <2>7. Binds(body, {}, ps, path, request)
    BY <2>4, <2>5, <2>6 DEF Binds
  <2> QED BY <1>10, <2>7 DEF body
<1>11. ASSUME D # {}, ~IsJson(last) PROVE Binds(body, D, ps, path, request)
  <2>1. \A i \in D : place(i) = "form"
    BY <1>6, <1>8, <1>11
  <2>2. \A i \in D : Resolve(FieldOf(ps[i], path), request) = Answer(ps[i].name, w(i))
    BY <1>1, <2>1, OneLemma
  <2>3. CASE alone
    <3>1. PICK i : D = {i}
      BY <1>7, <2>3
    <3>2. last = FieldOf(ps[i], path)
      BY <1>3, <1>8, <3>1
    <3>3. body = Resolve(last, request)
      BY <1>9, <1>11, <2>3
    <3>4. body = Answer(ps[i].name, w(i))
      BY <2>2, <3>1, <3>2, <3>3
    <3> QED BY <3>1, <3>4, BindsOne
  <2>4. CASE ~alone
    <3> DEFINE rs == [i \in D |-> Resolve(fs[i], request)]
    <3>1. body = Together(rs)
      BY <1>9, <1>11, <2>4
    <3>2. DOMAIN rs = D /\ \A i \in D : rs[i] = Answer(ps[i].name, w(i))
      BY <1>2, <2>2
    <3> HIDE DEF rs
    <3> QED BY <1>1, <3>1, <3>2, TogetherLemma
  <2> QED BY <2>3, <2>4
<1>12. ASSUME D # {}, IsJson(last), alone, ~last.embed PROVE Binds(body, D, ps, path, request)
  <2>1. PICK i : D = {i}
    BY <1>7, <1>12
  <2>2. last = FieldOf(ps[i], path)
    BY <1>3, <1>8, <1>12, <2>1
  <2>3. last.kind = "body"
    BY <1>12 DEF IsJson
  <2>4. ~ps[i].embed
    <3>1. LET f == FieldOf(ps[i], path) IN f.kind = "body" => (f.embed <=> ps[i].embed)
      BY <1>1, <2>1, FieldLemma
    <3> QED BY <1>12, <2>2, <2>3, <3>1
  <2>5. place(i) = "whole"
    BY <1>5, <1>6, <1>8, <1>12, <2>1, <2>4
  <2>6. body = ReadWhole(last, Parsed(request))
    BY <1>9, <1>12
  <2>7. body = Answer(ps[i].name, w(i))
    BY <1>1, <2>1, <2>2, <2>5, <2>6, WholeLemma
  <2> QED BY <2>1, <2>7, BindsOne
<1>13. ASSUME D # {}, IsJson(last), ~(alone /\ ~last.embed) PROVE Binds(body, D, ps, path, request)
  <2>1. ASSUME NEW i \in D PROVE place(i) = "member"
    <3>1. Bodies(ps, path) = {ps[i]} => D = {i}
      <4>1. ASSUME Bodies(ps, path) = {ps[i]}, NEW j \in D PROVE j = i
        <5>1. ps[j] = ps[i]
          BY <1>5, <4>1
        <5> QED BY <1>1, <2>1, <5>1 DEF Distinct
      <4> QED BY <2>1, <4>1
    <3>2. D = {i} => last = FieldOf(ps[i], path) /\ alone
      BY <1>3, <1>7, <1>8, <1>13
    <3>3. D = {i} => ps[i].embed
      <4>1. D = {i} => last.kind = "body" /\ last.embed
        BY <1>13, <3>2 DEF IsJson
      <4>2. LET f == FieldOf(ps[i], path) IN f.kind = "body" => (f.embed <=> ps[i].embed)
        BY <1>1, <2>1, FieldLemma
      <4> QED BY <3>2, <4>1, <4>2
    <3> QED BY <1>6, <1>8, <1>13, <3>1, <3>3
  <2>2. body = ReadMembers(fs, Parsed(request))
    BY <1>9, <1>13
  <2> DEFINE json == Parsed(request)
  <2>3. \A i \in D : /\ json.is # "null"
                     /\ IF json.is = "object" THEN Member(FieldOf(ps[i], path), json.has) = Answer(ps[i].name, w(i))
                        ELSE w(i) = {}
    BY <1>1, <2>1, MemberLemma
  <2>4. json.is # "null"
    BY <1>13, <2>3
  <2>5. CASE json.is = "object"
    <3> DEFINE rs == [i \in D |-> Member(fs[i], json.has)]
    <3>1. body = Together(rs)
      BY <1>2, <2>2, <2>5 DEF ReadMembers
    <3>2. DOMAIN rs = D /\ \A i \in D : rs[i] = Answer(ps[i].name, w(i))
      BY <1>2, <2>3, <2>5
    <3> HIDE DEF rs
    <3> QED BY <1>1, <3>1, <3>2, TogetherLemma
  <2>6. CASE json.is # "object"
    <3>1. body = Fail
      BY <2>2, <2>4, <2>6 DEF ReadMembers
    <3>2. \A i \in D : w(i) = {}
      BY <2>3, <2>6
    <3>3. ~Fail.crash /\ Fail.errors = TRUE
      BY DEF Fail
    <3> QED BY <1>13, <3>1, <3>2, <3>3 DEF Binds
  <2> QED BY <2>5, <2>6
<1> QED BY <1>10, <1>11, <1>12, <1>13

\* All parameters of an endpoint.
LEMMA ResolvedLemma ==
  ASSUME NEW ps \in Seq(Parameter), NEW path, NEW request,
         \A i, j \in DOMAIN ps : ps[i].name = ps[j].name => i = j,
         \A p \in ToSet(ps) : ~Unusual(p, ps, path, request)
  PROVE  Binds(ResolveDependencies(ps, path, request), DOMAIN ps, ps, path, request)
<1> DEFINE D  == {i \in DOMAIN ps : In(FieldOf(ps[i], path).kind) = "body"}
           body == ReadBody([i \in D |-> FieldOf(ps[i], path)], request)
           others == [i \in DOMAIN ps \ D |-> Resolve(FieldOf(ps[i], path), request)]
           r == ResolveDependencies(ps, path, request)
           w(i) == Wanted(ps[i], ps, path, request)
<1>1. Distinct(ps)
  BY DEF Distinct
<1>2. /\ \A i \in DOMAIN ps : ps[i] \in Parameter /\ ps[i] \in ToSet(ps)
      /\ DOMAIN ps \subseteq Int
  BY DEF ToSet
<1>3. Binds(body, D, ps, path, request)
  BY <1>1, BodyLemma
<1>4. Binds(Together(others), DOMAIN ps \ D, ps, path, request)
  <2>1. ASSUME NEW i \in DOMAIN ps \ D PROVE others[i] = Answer(ps[i].name, w(i))
    <3>1. FieldOf(ps[i], path).kind = KindOf(ps[i], path) /\ KindOf(ps[i], path) \in ParameterKind
      BY <1>2, FieldLemma
    <3>2. KindOf(ps[i], path) \notin {"body", "form", "file"}
      BY <3>1 DEF In
    <3>3. Place(ps[i], ps, path) \notin {"whole", "member"}
      BY <1>2, <3>1, <3>2, PlaceLemma DEF ParameterKind
    <3> QED BY <1>2, <3>3, OneLemma
  <2>2. DOMAIN others = DOMAIN ps \ D
    OBVIOUS
  <2> HIDE DEF others, D
  <2> QED BY <1>1, <1>2, <2>1, <2>2, TogetherLemma
<1>5. r = IF body.errors \/ body.crash THEN body ELSE Together(<<body, Together(others)>>)
  BY DEF ResolveDependencies
<1> HIDE DEF body, others, r
<1>6. Binds(r, DOMAIN ps, ps, path, request)
  <2>1. CASE body.errors
    <3>1. r = body
      BY <1>5, <2>1
    <3>2. D \subseteq DOMAIN ps
      OBVIOUS
    <3> HIDE DEF D
    <3> QED BY <1>3, <2>1, <3>1, <3>2 DEF Binds
  <2>2. CASE ~body.errors
    <3>1. r = Together(<<body, Together(others)>>)
      BY <1>3, <1>5, <2>2 DEF Binds
    <3>2. D \cup (DOMAIN ps \ D) = DOMAIN ps /\ D \cap (DOMAIN ps \ D) = {} /\ D \subseteq DOMAIN ps
      OBVIOUS
    <3> HIDE DEF D
    <3>3. Binds(Together(<<body, Together(others)>>), D \cup (DOMAIN ps \ D), ps, path, request)
      BY <1>1, <1>3, <1>4, <3>2, JoinLemma
    <3> QED BY <3>1, <3>2, <3>3
  <2> QED BY <2>1, <2>2
<1> QED BY <1>6 DEF r

\* Every parameter gets what Wanted says of it alone.
THEOREM ArgumentsRight ==
  ASSUME NEW ps \in Seq(Parameter), NEW path, NEW request,
         \A i, j \in DOMAIN ps : ps[i].name = ps[j].name => i = j,
         \A p \in ToSet(ps) : ~Unusual(p, ps, path, request)
  PROVE  ArgumentsFound(ps, path, request)
<1> DEFINE r == ResolveDependencies(ps, path, request)
           w(i) == Wanted(ps[i], ps, path, request)
<1>1. Distinct(ps)
  BY DEF Distinct
<1>2. \A i \in DOMAIN ps : ps[i] \in ToSet(ps)
  BY DEF ToSet
<1>3. Binds(r, DOMAIN ps, ps, path, request)
  BY ResolvedLemma
<1> HIDE DEF r
<1> DEFINE names == {p.name : p \in ToSet(ps)}
           wanted == [n \in names |-> Wanted(CHOOSE p \in ToSet(ps) : p.name = n, ps, path, request)]
<1>4. names = {ps[i].name : i \in DOMAIN ps}
  BY DEF ToSet
<1>5. \A i \in DOMAIN ps : ps[i].name \in names /\ wanted[ps[i].name] = w(i)
  <2> TAKE i \in DOMAIN ps
  <2> DEFINE named == CHOOSE p \in ToSet(ps) : p.name = ps[i].name
  <2>1. named \in ToSet(ps) /\ named.name = ps[i].name
    BY <1>2
  <2>2. named = ps[i]
    BY <1>1, <2>1 DEF ToSet, Distinct
  <2>3. ps[i].name \in names
    BY <1>4
  <2> HIDE DEF names
  <2>4. wanted[ps[i].name] = Wanted(named, ps, path, request)
    BY <2>3
  <2> QED BY <2>2, <2>3, <2>4
<1>6. DOMAIN wanted = names
  OBVIOUS
<1>7. wanted = [n \in DOMAIN wanted |-> wanted[n]]
  OBVIOUS
<1> HIDE DEF wanted, names, w
<1>8. r.errors = (\E n \in DOMAIN wanted : wanted[n] = {})
  <2>1. (\E n \in DOMAIN wanted : wanted[n] = {}) <=> \E i \in DOMAIN ps : w(i) = {}
    BY <1>4, <1>5, <1>6
  <2> QED BY <1>3, <2>1 DEF Binds, w
<1>9. ASSUME ~r.errors PROVE r.values = wanted
  <2>1. /\ DOMAIN r.values = DOMAIN wanted
        /\ r.values = [n \in DOMAIN r.values |-> r.values[n]]
        /\ \A i \in DOMAIN ps : r.values[ps[i].name] = w(i)
    BY <1>3, <1>4, <1>6, <1>9 DEF Binds, w
  <2>2. \A n \in DOMAIN wanted : r.values[n] = wanted[n]
    BY <1>4, <1>5, <1>6, <2>1
  <2> QED BY <1>7, <2>1, <2>2
<1> QED BY <1>8, <1>9 DEF ArgumentsFound, r, wanted, names

-----------------------------------------------------------------------------
(***************************************************************************)
(* Documents.                                                              *)
(***************************************************************************)
LEMMA MaxLemma ==
  ASSUME NEW n \in Nat, NEW S, S \subseteq 1..n, S # {}
  PROVE  Max(S) \in S
<1> DEFINE T == {n - i : i \in S}
           k == n - Min(T)
<1>1. T \subseteq Nat /\ T # {}
  <2>1. \A i \in S : n - i \in Nat
    OBVIOUS
  <2>2. \E i \in S : TRUE
    OBVIOUS
  <2> QED BY <2>1, <2>2
<1>2. Min(T) \in T /\ \A j \in T : Min(T) <= j
  BY <1>1, MinLemma
<1> HIDE DEF T
<1>3. k \in S /\ \A i \in S : n - k <= n - i
  BY <1>2 DEF T
<1> HIDE DEF k
<1>4. k \in S /\ \A i \in S : k >= i
  <2>1. k \in Int /\ \A i \in S : i \in Int
    BY <1>3
  <2> QED BY <1>3, <2>1
<1> QED BY <1>4 DEF Max

LEMMA ConcatLemma ==
  ASSUME NEW S, NEW s \in Seq(S), NEW t \in Seq(S)
  PROVE  s \o t \in Seq(S) /\ ToSet(s \o t) = ToSet(s) \cup ToSet(t)
<1>1. /\ s \o t \in Seq(S) /\ DOMAIN (s \o t) = 1..(Len(s) + Len(t))
      /\ DOMAIN s = 1..Len(s) /\ DOMAIN t = 1..Len(t) /\ Len(s) \in Nat /\ Len(t) \in Nat
      /\ \A i \in 1..Len(s) : (s \o t)[i] = s[i]
      /\ \A i \in 1..Len(t) : (s \o t)[Len(s) + i] = t[i]
  OBVIOUS
<1>2. \A i \in DOMAIN (s \o t) : (s \o t)[i] \in ToSet(s) \cup ToSet(t)
  <2> TAKE i \in DOMAIN (s \o t)
  <2>1. CASE i <= Len(s)
    BY <1>1, <2>1 DEF ToSet
  <2>2. CASE i > Len(s)
    <3>1. i - Len(s) \in 1..Len(t) /\ i = Len(s) + (i - Len(s))
      BY <1>1, <2>2
    <3> QED BY <1>1, <3>1 DEF ToSet
  <2> QED BY <1>1, <2>1, <2>2
<1>3. \A i \in DOMAIN s : s[i] \in ToSet(s \o t)
  <2>1. \A i \in DOMAIN s : i \in DOMAIN (s \o t)
    BY <1>1
  <2> QED BY <1>1, <2>1 DEF ToSet
<1>4. \A i \in DOMAIN t : t[i] \in ToSet(s \o t)
  <2>1. \A i \in DOMAIN t : Len(s) + i \in DOMAIN (s \o t)
    BY <1>1
  <2> QED BY <1>1, <2>1 DEF ToSet
<1>5. ToSet(s \o t) \subseteq ToSet(s) \cup ToSet(t)
  BY <1>2 DEF ToSet
<1>6. ToSet(s) \cup ToSet(t) \subseteq ToSet(s \o t)
  BY <1>3, <1>4 DEF ToSet
<1> QED BY <1>1, <1>5, <1>6

\* The parameters that are shown are in the places of the fields, when no two of
\* them share a name.
LEMMA ParametersLemma ==
  ASSUME NEW S, NEW fields \in Seq(S),
         \A f, g \in UNION ToSet(fields) : f.alias = g.alias => f.kind = g.kind
  PROVE  LET shown == OperationParameters(fields)
         IN  {<<a, shown[a].in>> : a \in DOMAIN shown} = {<<f.alias, f.kind>> : f \in UNION ToSet(fields)}
<1> DEFINE having(a) == {i \in DOMAIN fields : \E f \in fields[i] : f.alias = a}
           one(a) == CHOOSE f \in fields[Max(having(a))] : f.alias = a
           all == UNION ToSet(fields)
           shown == OperationParameters(fields)
<1>1. DOMAIN shown = {f.alias : f \in all} /\ \A a \in DOMAIN shown : shown[a].in = one(a).kind
  BY DEF OperationParameters
<1>2. ASSUME NEW f \in all PROVE one(f.alias).kind = f.kind
  <2> DEFINE a == f.alias
             n == Max(having(a))
  <2>1. having(a) # {} /\ having(a) \subseteq 1..Len(fields) /\ Len(fields) \in Nat
    BY DEF ToSet
  <2>2. n \in having(a)
    BY <2>1, MaxLemma
  <2>3. n \in DOMAIN fields /\ \E g \in fields[n] : g.alias = a
    BY <2>2
  <2> HIDE DEF n
  <2>4. one(a) \in fields[n] /\ one(a).alias = a
    BY <2>3 DEF n
  <2>5. one(a) \in all
    BY <2>3, <2>4 DEF ToSet
  <2> QED BY <2>4, <2>5
<1> HIDE DEF one, all, shown
<1>3. \A f \in all : f.alias \in DOMAIN shown /\ shown[f.alias].in = f.kind
  BY <1>1, <1>2
<1>4. \A a \in DOMAIN shown : \E f \in all : a = f.alias
  BY <1>1
<1>5. {<<a, shown[a].in>> : a \in DOMAIN shown} = {<<f.alias, f.kind>> : f \in all}
  <2>1. ASSUME NEW a \in DOMAIN shown PROVE <<a, shown[a].in>> \in {<<f.alias, f.kind>> : f \in all}
    <3>1. PICK f \in all : a = f.alias
      BY <1>4
    <3> QED BY <1>3, <3>1
  <2>2. ASSUME NEW f \in all PROVE <<f.alias, f.kind>> \in {<<a, shown[a].in>> : a \in DOMAIN shown}
    BY <1>3
  <2> QED BY <2>1, <2>2
<1> QED BY <1>5 DEF all, shown

\* Which fields are shown as parameters.
LEMMA InputsShown ==
  ASSUME NEW route, NEW mount, NEW n \in Nat, DOMAIN route.params = 1..n
  PROVE  LET fields == InputFields(route, mount)
             field(i) == FieldOf(route.params[i], route.inPath)
             read == {PathField(m) : m \in mount.inPath}
                       \cup UNION {Parts(field(i)) : i \in {i \in 1..n : field(i).kind \in {"header", "path", "query", "cookie"}}}
             taken == {f.name : f \in read} \cup {route.params[i].name : i \in 1..n}
         IN  /\ fields \in Seq(SUBSET UNION ToSet(fields))
             /\ UNION ToSet(fields) = read \cup {PathField(m) : m \in route.inPath \ taken}
<1> DEFINE field(i) == FieldOf(route.params[i], route.inPath)
           of(kind) == [i \in 1..n |-> IF field(i).kind = kind THEN Parts(field(i)) ELSE {}]
           named(names) == {PathField(m) : m \in names}
           parts(kinds) == UNION {Parts(field(i)) : i \in {i \in 1..n : field(i).kind \in kinds}}
           four == {"header", "path", "query", "cookie"}
           read == named(mount.inPath) \cup parts(four)
           params == {route.params[i].name : i \in 1..n}
           taken == {f.name : f \in read} \cup params
           rest == named(route.inPath \ taken)
           all == read \cup rest
           S == SUBSET all
           s0 == <<named(mount.inPath)>>
           s4 == s0 \o of("header") \o of("path") \o of("query") \o of("cookie")
<1>1. s0 \in Seq(S) /\ ToSet(s0) = {named(mount.inPath)}
  <2>1. named(mount.inPath) \in S
    OBVIOUS
  <2> HIDE DEF S, named
  <2> QED BY <2>1 DEF ToSet
<1>2. ASSUME NEW kind \in four
      PROVE  of(kind) \in Seq(S) /\ UNION ToSet(of(kind)) = parts({kind})
  <2>1. \A i \in 1..n : of(kind)[i] \subseteq parts(four)
    BY DEF four
  <2>2. of(kind) \in [1..n -> S]
    <3> HIDE DEF named, rest, parts
    <3> QED BY <2>1
  <2>3. of(kind) \in Seq(S)
    <3> HIDE DEF of, S
    <3> QED BY <2>2
  <2>4. UNION ToSet(of(kind)) \subseteq parts({kind})
    BY DEF ToSet
  <2>5. parts({kind}) \subseteq UNION ToSet(of(kind))
    <3>1. ASSUME NEW i \in 1..n, field(i).kind = kind PROVE Parts(field(i)) \in ToSet(of(kind))
      BY <3>1 DEF ToSet
    <3> HIDE DEF of, field
    <3> QED BY <3>1
  <2> QED BY <2>3, <2>4, <2>5
<1> HIDE DEF of, S, s0
<1>3. s4 \in Seq(S) /\ ToSet(s4) = ToSet(s0) \cup ToSet(of("header")) \cup ToSet(of("path"))
                                     \cup ToSet(of("query")) \cup ToSet(of("cookie"))
  <2>1. /\ of("header") \in Seq(S) /\ of("path") \in Seq(S) /\ of("query") \in Seq(S) /\ of("cookie") \in Seq(S)
    BY <1>2
  <2>2. s0 \o of("header") \in Seq(S) /\ ToSet(s0 \o of("header")) = ToSet(s0) \cup ToSet(of("header"))
    BY <1>1, <2>1, ConcatLemma
  <2> DEFINE s2 == s0 \o of("header") \o of("path")
             s3 == s2 \o of("query")
  <2>3. s2 \in Seq(S) /\ ToSet(s2) = ToSet(s0 \o of("header")) \cup ToSet(of("path"))
    <3> DEFINE s1 == s0 \o of("header")
    <3>1. s1 \in Seq(S) /\ s2 = s1 \o of("path")
      BY <2>2
    <3> HIDE DEF s1
    <3>2. s1 \o of("path") \in Seq(S) /\ ToSet(s1 \o of("path")) = ToSet(s1) \cup ToSet(of("path"))
      BY <2>1, <3>1, ConcatLemma
    <3> HIDE DEF s2
    <3> QED BY <3>1, <3>2 DEF s1
  <2> HIDE DEF s2
  <2>4. s3 \in Seq(S) /\ ToSet(s3) = ToSet(s2) \cup ToSet(of("query"))
    BY <2>1, <2>3, ConcatLemma
  <2> HIDE DEF s3
  <2>5. s3 \o of("cookie") \in Seq(S) /\ ToSet(s3 \o of("cookie")) = ToSet(s3) \cup ToSet(of("cookie"))
    BY <2>1, <2>4, ConcatLemma
  <2> QED BY <2>2, <2>3, <2>4, <2>5 DEF s2, s3
<1>4. UNION ToSet(s4) = read
  <2>1. UNION ToSet(s4) = (UNION ToSet(s0)) \cup (UNION ToSet(of("header"))) \cup (UNION ToSet(of("path")))
                            \cup (UNION ToSet(of("query"))) \cup (UNION ToSet(of("cookie")))
    BY <1>3
  <2>2. UNION ToSet(s0) = named(mount.inPath)
    BY <1>1
  <2>3. parts(four) = parts({"header"}) \cup parts({"path"}) \cup parts({"query"}) \cup parts({"cookie"})
    <3> HIDE DEF field
    <3> QED OBVIOUS
  <2> HIDE DEF s4, parts, named
  <2> QED BY <1>2, <2>1, <2>2, <2>3
<1>5. InputFields(route, mount) = s4 \o <<rest>>
  <2>1. ToSet(route.params) = {route.params[i] : i \in 1..n}
    BY DEF ToSet
  <2>2. {p.name : p \in ToSet(route.params)} = params
    BY <2>1
  <2>3. \A i \in 1..n : Fields(route)[i] = field(i)
    BY DEF Fields
  <2>4. \A kind : of(kind) = [i \in DOMAIN route.params |->
                               IF Fields(route)[i].kind = kind THEN Parts(Fields(route)[i]) ELSE {}]
    BY <2>3 DEF of
  <2>5. InputFields(route, mount) =
          s4 \o <<named(route.inPath \ ({f.name : f \in UNION ToSet(s4)} \cup {p.name : p \in ToSet(route.params)}))>>
    BY <2>4 DEF InputFields, s0
  <2> HIDE DEF s4, named, read, params
  <2> QED BY <1>4, <2>2, <2>5
<1>6. <<rest>> \in Seq(S) /\ ToSet(<<rest>>) = {rest}
  <2>1. rest \in S
    BY DEF S
  <2> HIDE DEF rest
  <2> QED BY <2>1 DEF ToSet
<1> DEFINE s5 == <<rest>>
<1> HIDE DEF s4, s5, rest, read
<1>7. InputFields(route, mount) \in Seq(S) /\ ToSet(InputFields(route, mount)) = ToSet(s4) \cup {rest}
  <2>1. s5 \in Seq(S) /\ ToSet(s5) = {rest}
    BY <1>6 DEF s5
  <2>2. s4 \o s5 \in Seq(S) /\ ToSet(s4 \o s5) = ToSet(s4) \cup ToSet(s5)
    BY <1>3, <2>1, ConcatLemma
  <2> QED BY <1>5, <2>1, <2>2 DEF s5
<1>8. UNION ToSet(InputFields(route, mount)) = all
  BY <1>4, <1>7
<1>9. InputFields(route, mount) \in Seq(SUBSET UNION ToSet(InputFields(route, mount)))
  BY <1>7, <1>8 DEF S
<1> QED BY <1>8, <1>9 DEF rest, read

LEMMA TokenLemma ==
  ASSUME NEW a, NEW b, NEW c
  PROVE  <<a, b, c>>[2] = b /\ <<a, b, c>>[3] = c
OBVIOUS

\* A request with a good value for each of these names, and for nothing else.
SendsAll(request, aliases) ==
  LET all == [a \in aliases |-> "ok"]
  IN  /\ request.query = all /\ request.header = all /\ request.cookie = all
      /\ request.content = "form" => request.form = all
      /\ \A a \in DOMAIN request.path : request.path[a] = "ok"
      /\ request.json.is \in {"valid", "object"} /\ (request.json.is = "object" => request.json.has = all)

\* A parameter whose name is sent everywhere is read where it was declared.
LEMMA SourcesLemma ==
  ASSUME NEW ps, NEW path, NEW req, NEW aliases, SendsAll(req, aliases), NEW p \in ToSet(ps), p \in Parameter,
         FieldOf(p, path).alias \in aliases, \A g \in Parts(FieldOf(p, path)) : g.alias \in aliases,
         Place(p, ps, path) = "form" => req.content = "form"
  PROVE  LET f == FieldOf(p, path)
             w == Wanted(p, ps, path, req)
         IN  w # {} =>
               /\ f.kind \notin {"body", "form", "file"} =>
                    {<<t[3], t[2]>> : t \in w} = {<<g.alias, g.kind>> : g \in Parts(f)}
               /\ f.kind \in {"body", "form", "file"} => \A t \in w : t[2] \in {"body", "form", "file"}
<1> DEFINE f == FieldOf(p, path)
           w == Wanted(p, ps, path, req)
           place == Place(p, ps, path)
           got == IF f.kind \in {"body", "form", "file"} THEN req.form ELSE req[f.kind]
           tokens == {Token(Part(f, g), g.name, got) : g \in ToSet(f.fields)}
           all == [a \in aliases |-> "ok"]
<1>1. place \notin {"whole", "member"} =>
        w = IF f.kind = "body" /\ req.form = <<>>
            THEN (IF Parsed(req).is # "object" THEN {} ELSE MemberToken(f, Parsed(req).has))
            ELSE IF Bulk(f) THEN (IF {} \in tokens THEN {} ELSE UNION tokens)
            ELSE Token(f, "", got)
  BY WantedLemma
<1>2. /\ f.kind = KindOf(p, path) /\ f.kind \in ParameterKind /\ f.default \in DefaultKind
      /\ f.kind = "path" => f.default = "required"
  BY FieldLemma
<1>3. f.alias \in aliases /\ \A g \in Parts(f) : g.alias \in aliases
  OBVIOUS
<1>4. /\ req.query = all /\ req.header = all /\ req.cookie = all
      /\ req.content = "form" => req.form = all
      /\ \A a \in DOMAIN req.path : req.path[a] = "ok"
      /\ req.json.is \in {"valid", "object"} /\ (req.json.is = "object" => req.json.has = all)
  BY DEF SendsAll
<1>5. \A a \in DOMAIN all : all[a] = "ok"
  OBVIOUS
<1>6. DOMAIN all = aliases
  OBVIOUS
<1>7. \A g \in ToSet(f.fields) : /\ Part(f, g).kind = f.kind /\ (f.kind = "path" => Part(f, g).default = "required")
                                 /\ Bulk(f) => Part(f, g) \in Parts(f)
  BY DEF Part, Parts
<1>8. Bulk(f) => Parts(f) = {Part(f, g) : g \in ToSet(f.fields)}
  BY DEF Parts
<1>9. ~Bulk(f) => Parts(f) = {f}
  BY DEF Parts
<1>0. place \notin {"whole", "member"} /\ f.kind \in {"body", "form", "file"} => req.form = all /\ req.form # <<>>
  <2>1. place \notin {"whole", "member"} /\ f.kind \in {"body", "form", "file"} => place = "form"
    BY <1>2, PlaceLemma
  <2>2. all # <<>>
    BY <1>3, <1>6
  <2> QED BY <1>4, <2>1, <2>2
<1> HIDE DEF f, all
<1>10. ASSUME NEW g, NEW name, g \in Parts(f), g.kind = f.kind, f.kind = "path" => g.default = "required",
              place \notin {"whole", "member"}
       PROVE  Token(g, name, got) = {} \/ Token(g, name, got) = {<<name, f.kind, g.alias>>}
  <2>1. CASE f.kind = "path"
    <3>1. IsMissing(g, got) => g.default = "required"
      BY <1>10, <2>1
    <3> QED BY <1>10, <3>1 DEF Token
  <2>2. CASE f.kind # "path"
    <3>1. got = all
      BY <1>0, <1>2, <1>4, <1>10, <2>2 DEF ParameterKind
    <3>2. g.alias \in DOMAIN got /\ got[g.alias] = "ok"
      BY <1>3, <1>5, <1>6, <1>10, <3>1
    <3>3. ~IsMissing(g, got)
      BY <3>2 DEF IsMissing
    <3> QED BY <1>10, <3>3 DEF Token
  <2> QED BY <2>1, <2>2
<1>11. \A g \in ToSet(f.fields) : Bulk(f) /\ place \notin {"whole", "member"} =>
         LET t == Token(Part(f, g), g.name, got) IN t = {} \/ t = {<<g.name, f.kind, Part(f, g).alias>>}
  BY <1>7, <1>10
<1>12. ~Bulk(f) /\ place \notin {"whole", "member"} => LET t == Token(f, "", got) IN t = {} \/ t = {<<"", f.kind, f.alias>>}
  BY <1>2, <1>9, <1>10
<1> HIDE DEF got, place, w
<1>13. ASSUME place \notin {"whole", "member"}, w # {}
       PROVE  IF Bulk(f) THEN w = {<<g.name, f.kind, Part(f, g).alias>> : g \in ToSet(f.fields)}
                         ELSE w = {<<"", f.kind, f.alias>>}
  <2>1. w = IF Bulk(f) THEN (IF {} \in tokens THEN {} ELSE UNION tokens) ELSE Token(f, "", got)
    BY <1>0, <1>1, <1>13
  <2>2. CASE Bulk(f)
    <3>1. {} \notin tokens /\ w = UNION tokens
      BY <1>13, <2>1, <2>2
    <3>2. \A g \in ToSet(f.fields) : Token(Part(f, g), g.name, got) = {<<g.name, f.kind, Part(f, g).alias>>}
      BY <1>11, <1>13, <2>2, <3>1
    <3>3. tokens = {{<<g.name, f.kind, Part(f, g).alias>>} : g \in ToSet(f.fields)}
      BY <3>2
    <3> HIDE DEF tokens
    <3> QED BY <2>2, <3>1, <3>3
  <2>3. CASE ~Bulk(f)
    BY <1>12, <1>13, <2>1, <2>3
  <2> QED BY <2>2, <2>3
<1>14. ASSUME f.kind \notin {"body", "form", "file"}, w # {}
       PROVE  {<<t[3], t[2]>> : t \in w} = {<<g.alias, g.kind>> : g \in Parts(f)}
  <2>1. place \notin {"whole", "member"}
    BY <1>2, <1>14, PlaceLemma DEF place, ParameterKind
  <2>2. CASE Bulk(f)
    <3>1. w = {<<g.name, f.kind, Part(f, g).alias>> : g \in ToSet(f.fields)}
      BY <1>13, <1>14, <2>1, <2>2
    <3> DEFINE token(g) == <<g.name, f.kind, Part(f, g).alias>>
    <3>2. {<<t[3], t[2]>> : t \in w} = {<<Part(f, g).alias, f.kind>> : g \in ToSet(f.fields)}
      <4>1. \A g : token(g)[2] = f.kind /\ token(g)[3] = Part(f, g).alias
        BY TokenLemma
      <4> HIDE DEF token
      <4>2. {<<t[3], t[2]>> : t \in {token(g) : g \in ToSet(f.fields)}} =
              {<<token(g)[3], token(g)[2]>> : g \in ToSet(f.fields)}
        OBVIOUS
      <4> QED BY <3>1, <4>1, <4>2 DEF token
    <3>3. {<<h.alias, h.kind>> : h \in Parts(f)} = {<<Part(f, g).alias, f.kind>> : g \in ToSet(f.fields)}
      BY <1>7, <1>8, <2>2
    <3> QED BY <3>2, <3>3
  <2>3. CASE ~Bulk(f)
    <3>1. w = {<<"", f.kind, f.alias>>}
      BY <1>13, <1>14, <2>1, <2>3
    <3> DEFINE token == <<"", f.kind, f.alias>>
    <3>2. token[2] = f.kind /\ token[3] = f.alias
      BY TokenLemma
    <3>3. w = {token}
      BY <3>1
    <3> HIDE DEF token
    <3>4. {<<t[3], t[2]>> : t \in w} = {<<f.alias, f.kind>>}
      BY <3>2, <3>3
    <3> QED BY <1>9, <2>3, <3>4
  <2> QED BY <2>2, <2>3
<1>15. ASSUME f.kind \in {"body", "form", "file"}, w # {}, NEW t \in w
       PROVE  t[2] \in {"body", "form", "file"}
  <2>1. CASE place \notin {"whole", "member"}
    <3>1. \E a, c : t = <<a, f.kind, c>>
      <4>1. CASE Bulk(f)
        <5>1. PICK g \in ToSet(f.fields) : t = <<g.name, f.kind, Part(f, g).alias>>
          BY <1>13, <1>15, <2>1, <4>1
        <5> QED BY <5>1
      <4>2. CASE ~Bulk(f)
        <5>1. w = {<<"", f.kind, f.alias>>}
          BY <1>13, <1>15, <2>1, <4>2
        <5> QED BY <1>15, <5>1
      <4> QED BY <4>1, <4>2
    <3>2. t[2] = f.kind
      BY <3>1, TokenLemma
    <3> QED BY <1>15, <3>2
  <2> DEFINE object == Parsed(req)
  <2>2. CASE place = "whole"
    <3>1. w = IF object.is = "valid" THEN {<<"", "body", Key("")>>}
              ELSE IF object.is = "null" /\ f.default = Unset THEN Default ELSE {}
      <4>1. ~NoForm(p, ps, path, req)
        BY <2>2 DEF NoForm, place
      <4>2. ~Bulk(f)
        <5>1. f.kind = "body"
          BY <1>2, <1>15, <2>2, PlaceLemma DEF place
        <5> QED BY <5>1 DEF Bulk
      <4> QED BY <2>2, <4>1, <4>2 DEF Wanted, w, place, f
    <3>2. object.is # "null"
      BY <1>4 DEF Parsed
    <3>3. w = {<<"", "body", Key("")>>}
      BY <1>15, <3>1, <3>2
    <3>4. t = <<"", "body", Key("")>>
      BY <1>15, <3>3
    <3> QED BY <3>4, TokenLemma
  <2>3. CASE place = "member"
    <3> DEFINE token == IF f.alias \notin DOMAIN object.has
                        THEN (IF f.default = "required" THEN {} ELSE {<<"", "default", Key("")>>})
                        ELSE IF object.has[f.alias] = "ok" THEN {<<"", "body", f.alias>>} ELSE {}
    <3>1. ~Single(p, ps, path)
      BY <2>3 DEF Single, place
    <3>2. w = IF object.is # "object" THEN {} ELSE token
      BY <2>3, <3>1 DEF Wanted, w, place, f
    <3>3. object.is = "object"
      BY <1>15, <3>2
    <3>4. object.has = all
      BY <1>4, <3>3 DEF Parsed
    <3>5. token = {<<"", "body", f.alias>>}
      BY <1>3, <1>5, <1>6, <3>4
    <3> HIDE DEF token, object
    <3>6. t = <<"", "body", f.alias>>
      BY <1>15, <3>2, <3>3, <3>5
    <3> QED BY <3>6, TokenLemma
  <2> QED BY <2>1, <2>2, <2>3
<1> QED BY <1>14, <1>15 DEF f, w


LEMMA PlaceOf ==
  ASSUME NEW a, NEW b
  PROVE  <<a, b>>[1] = a /\ <<a, b>>[2] = b
OBVIOUS

LEMMA KeyLemma ==
  ASSUME NEW name
  PROVE  Key(name)[2] = name /\ Dashed(name)[2] = name
BY DEF Key, Dashed

LEMMA PartsKind == ASSUME NEW f, NEW g \in Parts(f) PROVE g.kind = f.kind
BY DEF Parts, Part

\* A parameter of the path is a value of its own.
LEMMA PathLemma ==
  ASSUME NEW p \in Parameter, NEW path, p.name \in path, Accepted(p, path)
  PROVE  LET f == FieldOf(p, path) IN f.kind = "path" /\ Parts(f) = {f}
<1> DEFINE f == FieldOf(p, path)
<1>1. f.kind = "path" /\ f.type = p.type
  BY FieldLemma DEF KindOf
<1>2. f.type # "model"
  <2> HIDE DEF f
  <2> QED BY <1>1 DEF Accepted, f
<1> QED BY <1>1, <1>2 DEF Parts, Bulk

\* What an endpoint that is sent everything is read from: the places of its
\* parameters, and the body when it has one.
LEMMA AllRead ==
  ASSUME NEW route, NEW mount, Signature(route.params), ~Misread(route, mount), ~Result(route, mount).errors
  PROVE  LET field(i) == FieldOf(route.params[i], route.inPath)
             D == DOMAIN route.params
             sources == Sources(route, mount)
             body == {"body", "form", "file"}
         IN  /\ \A s \in sources : ~InBody(s) => \E i \in D : field(i).kind \notin body /\ \E g \in Parts(field(i)) : s = <<g.alias, g.kind>>
             /\ \A i \in D : field(i).kind \notin body => \A g \in Parts(field(i)) :
                  <<g.alias, g.kind>> \in sources /\ ~InBody(<<g.alias, g.kind>>)
             /\ (\E s \in sources : InBody(s)) <=> \E i \in D : field(i).kind \in body
<1> DEFINE ps == route.params path == route.inPath req == Everything(route, mount)
           D == DOMAIN ps
           field(i) == FieldOf(ps[i], path)
           w(i) == Wanted(ps[i], ps, path, req)
           r == Result(route, mount)
           sources == Sources(route, mount)
           body == {"body", "form", "file"}
           place(t) == <<t[3], t[2]>>
<1>1. ps \in Seq(Parameter) /\ (\A i, j \in D : ps[i].name = ps[j].name => i = j)
      /\ \A i \in D : ps[i] \in ToSet(ps) /\ ps[i] \in Parameter
  BY DEF Signature, ToSet
<1>2. \A p \in ToSet(ps) : ~Unusual(p, ps, path, req)
  BY DEF Misread
<1>3. Binds(r, D, ps, path, req)
  <2> HIDE DEF ps, path, req
  <2>1. Binds(ResolveDependencies(ps, path, req), DOMAIN ps, ps, path, req)
    BY <1>1, <1>2, ResolvedLemma
  <2> QED BY <2>1 DEF Result, ps, path, req
<1>4. DOMAIN r.values = {ps[i].name : i \in D} /\ \A i \in D : w(i) # {} /\ r.values[ps[i].name] = w(i)
  BY <1>3 DEF Binds
<1>5. sources = {place(t) : t \in UNION {w(i) : i \in D}}
  <2>1. sources = {place(t) : t \in UNION {r.values[n] : n \in DOMAIN r.values}}
    BY DEF Sources
  <2>2. {r.values[n] : n \in DOMAIN r.values} = {w(i) : i \in D}
    <3> HIDE DEF r, w
    <3> QED BY <1>4
  <2> HIDE DEF r, w, sources
  <2> QED BY <2>1, <2>2
<1> DEFINE fields == ToSet(Fields(route))
           aliases == {g.alias : g \in fields \cup UNION {Parts(h) : h \in fields}}
<1>6. SendsAll(req, aliases)
  <2> HIDE DEF aliases
  <2>1. Everything(route, mount).query = [a \in aliases |-> "ok"]
    BY DEF Everything, aliases
  <2> QED BY DEF SendsAll, Everything, aliases
<1>21. \A i \in D : Place(ps[i], ps, path) = "form" => req.content = "form"
  <2> DEFINE bodies == {f \in fields : In(f.kind) = "body"}
             json == bodies # {} /\ \A f \in bodies : f.kind # "file" /\ \E g \in bodies : g.kind = "body"
             kinds == {KindOf(q, path) : q \in Bodies(ps, path)}
  <2>1. req.content = IF json THEN "json" ELSE "form"
    BY DEF Everything
  <2>2. fields = {FieldOf(q, path) : q \in ToSet(ps)} /\ \A q \in ToSet(ps) : q \in Parameter
    BY <1>1 DEF Fields, ToSet
  <2>3. \A q \in ToSet(ps) : FieldOf(q, path).kind = KindOf(q, path) /\ KindOf(q, path) \in ParameterKind
    BY <2>2, FieldLemma
  <2>4. {f.kind : f \in bodies} = kinds
    <3> HIDE DEF fields, ps, path
    <3> QED BY <2>2, <2>3 DEF Bodies
  <2>5. ASSUME NEW p \in ToSet(ps), json PROVE Place(p, ps, path) # "form"
    <3>1. "file" \notin kinds /\ "body" \in kinds
      <4> HIDE DEF bodies, kinds
      <4> QED BY <2>4, <2>5
    <3>2. Place(p, ps, path) = "form" => KindOf(p, path) \in {"body", "form", "file"}
      BY <2>3, PlaceLemma DEF ParameterKind
    <3> HIDE DEF kinds, ps, path
    <3> QED BY <2>3, <3>1, <3>2, PlaceLemma DEF kinds
  <2> HIDE DEF json, fields
  <2> QED BY <1>1, <2>1, <2>5
<1>7. \A i \in D : field(i).alias \in aliases /\ \A g \in Parts(field(i)) : g.alias \in aliases
  <2> TAKE i \in D
  <2>1. field(i) \in fields
    BY DEF Fields, ToSet
  <2> HIDE DEF field, fields
  <2> QED BY <2>1
<1> HIDE DEF aliases
<1>8. \A i \in D : 
         /\ field(i).kind \notin body => {place(t) : t \in w(i)} = {<<g.alias, g.kind>> : g \in Parts(field(i))}
         /\ field(i).kind \in body => \A t \in w(i) : t[2] \in body
  <2> HIDE DEF ps, path, req
  <2> QED BY <1>1, <1>4, <1>6, <1>7, <1>21, SourcesLemma
<1>9. \A i \in D : field(i).kind \notin body => {place(t) : t \in w(i)} = {<<g.alias, g.kind>> : g \in Parts(field(i))}
  BY <1>8
<1>10. \A i \in D : field(i).kind \in body => \A t \in w(i) : t[2] \in body
  BY <1>8
<1>11. \A i \in D : \A g \in Parts(field(i)) : g.kind = field(i).kind
  BY PartsKind
<1> HIDE DEF w, field, sources, D
<1>12. \A t : InBody(place(t)) <=> t[2] \in body
  BY PlaceOf DEF InBody
<1>13. \A g : InBody(<<g.alias, g.kind>>) <=> g.kind \in body
  BY PlaceOf DEF InBody
<1> HIDE DEF place, body
<1>14. \A s : s \in sources <=> \E i \in D : \E t \in w(i) : s = place(t)
  BY <1>5
<1>15. \A i \in D : \A t \in w(i) : field(i).kind \notin body => \E g \in Parts(field(i)) : place(t) = <<g.alias, g.kind>>
  BY <1>9
<1>16. \A i \in D : field(i).kind \notin body => \A g \in Parts(field(i)) : \E t \in w(i) : place(t) = <<g.alias, g.kind>>
  BY <1>9
<1>17. ASSUME NEW s \in sources, ~InBody(s)
       PROVE  \E i \in D : field(i).kind \notin body /\ \E g \in Parts(field(i)) : s = <<g.alias, g.kind>>
  <2>0. PICK i \in D : \E t \in w(i) : s = place(t)
    BY <1>14
  <2>1. PICK t \in w(i) : s = place(t)
    BY <2>0
  <2>2. field(i).kind \notin body
    BY <1>10, <1>12, <1>17, <2>1
  <2> QED BY <1>15, <2>1, <2>2
<1>18. ASSUME NEW i \in D, field(i).kind \notin body, NEW g \in Parts(field(i))
       PROVE  <<g.alias, g.kind>> \in sources /\ ~InBody(<<g.alias, g.kind>>)
  BY <1>11, <1>13, <1>14, <1>16, <1>18
<1>19. ASSUME NEW s \in sources, InBody(s) PROVE \E i \in D : field(i).kind \in body
  <2>0. PICK i \in D : \E t \in w(i) : s = place(t)
    BY <1>14
  <2>1. PICK t \in w(i) : s = place(t)
    BY <2>0
  <2>2. SUFFICES ASSUME field(i).kind \notin body PROVE FALSE
    OBVIOUS
  <2>3. PICK g \in Parts(field(i)) : s = <<g.alias, g.kind>>
    BY <1>15, <2>1, <2>2
  <2> QED BY <1>11, <1>13, <1>19, <2>2, <2>3
<1>20. ASSUME NEW i \in D, field(i).kind \in body PROVE \E s \in sources : InBody(s)
  <2>1. PICK t \in w(i) : TRUE
    BY <1>4 DEF w
  <2> QED BY <1>10, <1>12, <1>14, <1>20, <2>1
<1> QED BY <1>17, <1>18, <1>19, <1>20 DEF D, field, sources, body

\* The places that are shown are those of the fields that are shown.
LEMMA PlacesLemma ==
  ASSUME NEW route, NEW mount, Signature(route.params), ~Misread(route, mount), ~Result(route, mount).errors,
         \A p \in ToSet(route.params) : Accepted(p, route.inPath),
         OneByName(ShownPlaces(route, mount))
  PROVE  {<<f.alias, f.kind>> : f \in UNION ToSet(InputFields(route, mount))} = ShownPlaces(route, mount)
<1> DEFINE ps == route.params path == route.inPath above == mount.inPath
           n == Len(ps)
           field(i) == FieldOf(ps[i], path)
           four == {"header", "path", "query", "cookie"}
           own == UNION {Parts(field(i)) : i \in {i \in 1..n : field(i).kind \in four}}
           read == {PathField(m) : m \in above} \cup own
           taken == {f.name : f \in read} \cup {ps[i].name : i \in 1..n}
           all == UNION ToSet(InputFields(route, mount))
           place(f) == <<f.alias, f.kind>>
           places == ShownPlaces(route, mount)
           sources == Sources(route, mount)
<1>1. DOMAIN ps = 1..n /\ n \in Nat /\ \A i \in 1..n : ps[i] \in Parameter /\ ps[i] \in ToSet(ps)
  BY DEF Signature, ToSet
<1>2. all = read \cup {PathField(m) : m \in path \ taken}
  BY <1>1, InputsShown
<1>3. \A i \in 1..n : field(i).name = ps[i].name /\ (field(i).kind \in four <=> field(i).kind \notin {"body", "form", "file"})
  BY <1>1, FieldLemma DEF ParameterKind
<1>4. \A m : PathField(m).name = m /\ place(PathField(m)) = <<Key(m), "path">>
  BY DEF PathField
<1>5. places = {<<Key(m), "path">> : m \in above \cup path} \cup {s \in sources : ~InBody(s)}
  BY DEF ShownPlaces
<1> HIDE DEF all, places, sources, field
<1>6. \A i \in 1..n : \A g \in Parts(field(i)) : field(i).kind \in four => g \in own /\ g \in all
  BY <1>2
<1>7. \A g \in own : \E i \in 1..n : field(i).kind \in four /\ g \in Parts(field(i))
  OBVIOUS
<1>8. \A g \in own : place(g) \in places
  <2>1. \A i \in 1..n : field(i).kind \notin {"body", "form", "file"} => \A g \in Parts(field(i)) :
          place(g) \in sources /\ ~InBody(place(g))
    BY <1>1, AllRead DEF sources, field
  <2> HIDE DEF place, own, four
  <2> QED BY <1>3, <1>5, <1>7, <2>1
<1>9. \A s \in places : (\E m \in above \cup path : s = <<Key(m), "path">>) \/ \E g \in own : s = place(g)
  <2>1. \A s \in sources : ~InBody(s) =>
          \E i \in 1..n : field(i).kind \notin {"body", "form", "file"} /\ \E g \in Parts(field(i)) : s = place(g)
    BY <1>1, AllRead DEF sources, field
  <2> HIDE DEF place, own, four
  <2> QED BY <1>3, <1>5, <1>6, <2>1
<1>10. \A m \in above \cup path : <<Key(m), "path">> \in places
  BY <1>5
<1>11. \A i \in 1..n : ps[i].name \in path =>
         /\ field(i).kind = "path" /\ Parts(field(i)) = {field(i)} /\ place(field(i)) = <<Key(ps[i].name), "path">>
  <2> TAKE i \in 1..n
  <2> HAVE ps[i].name \in path
  <2>1. field(i).kind = "path" /\ Parts(field(i)) = {field(i)}
    BY <1>1, PathLemma DEF field
  <2>2. field(i).alias = Key(ps[i].name)
    BY <1>1 DEF Misread, field
  <2> QED BY <2>1, <2>2
<1> HIDE DEF own
<1>12. ASSUME NEW m \in path PROVE \E f \in all : place(f) = <<Key(m), "path">>
  <2>1. CASE m \notin taken
    <3>1. PathField(m) \in all
      BY <1>2, <2>1
    <3> QED BY <1>4, <3>1
  <2>2. ASSUME NEW i \in 1..n, ps[i].name = m PROVE \E f \in all : place(f) = <<Key(m), "path">>
    <3>1. /\ field(i).kind = "path" /\ Parts(field(i)) = {field(i)}
          /\ place(field(i)) = <<Key(m), "path">>
      BY <1>11, <2>2
    <3>2. field(i) \in all
      BY <1>6, <3>1
    <3> QED BY <3>1, <3>2
  <2>3. ASSUME NEW f \in own, f.name = m PROVE \E g \in all : place(g) = <<Key(m), "path">>
    <3>1. PICK i \in 1..n : field(i).kind \in four /\ f \in Parts(field(i))
      BY <1>7
    <3>2. CASE ~Bulk(field(i))
      <4>1. f = field(i)
        BY <3>1, <3>2 DEF Parts
      <4> QED BY <1>3, <2>2, <2>3, <4>1
    <3>3. CASE Bulk(field(i))
      <4>1. PICK g \in ToSet(field(i).fields) : f = Part(field(i), g)
        BY <3>1, <3>3 DEF Parts
      <4>2. f.alias[2] = m
        <5>1. f.alias = Dashed(m) \/ f.alias = Key(m)
          BY <2>3, <4>1 DEF Part
        <5> QED BY <5>1, KeyLemma
      <4>3. place(f) \in places /\ <<Key(m), "path">> \in places
        BY <1>8, <1>10
      <4>4. place(f)[1] = f.alias /\ <<Key(m), "path">>[1] = Key(m)
        BY PlaceOf
      <4>5. place(f)[1][2] = <<Key(m), "path">>[1][2]
        BY <4>2, <4>4, KeyLemma
      <4>6. place(f) = <<Key(m), "path">>
        <5> HIDE DEF place
        <5> QED BY <4>3, <4>5 DEF OneByName, places
      <4> QED BY <1>6, <3>1, <4>6
    <3> QED BY <3>2, <3>3
  <2>4. CASE m \in taken
    <3>1. \/ \E f \in read : f.name = m
          \/ \E i \in 1..n : ps[i].name = m
      BY <2>4
    <3>2. CASE \E f \in read : f.name = m
      <4>1. PICK f \in read : f.name = m
        BY <3>2
      <4>2. CASE f \in own
        BY <2>3, <4>1, <4>2
      <4>3. CASE \E k \in above : f = PathField(k)
        <5>1. f = PathField(m)
          BY <1>4, <4>1, <4>3
        <5>2. f \in all
          BY <1>2, <4>1
        <5> QED BY <1>4, <5>1, <5>2
      <4> QED BY <4>1, <4>2, <4>3
    <3> QED BY <2>2, <3>1, <3>2
  <2> QED BY <2>1, <2>4
<1>13. \A f \in all : place(f) \in places
  <2> TAKE f \in all
  <2>1. f \in own \/ \E m \in above \cup path : f = PathField(m)
    BY <1>2
  <2> HIDE DEF place
  <2> QED BY <1>4, <1>8, <1>10, <2>1
<1>14. \A s \in places : \E f \in all : s = place(f)
  <2> TAKE s \in places
  <2>1. CASE \E g \in own : s = place(g)
    BY <1>2, <2>1
  <2>2. CASE \E m \in path : s = <<Key(m), "path">>
    BY <1>12, <2>2
  <2>3. ASSUME NEW m \in above, s = <<Key(m), "path">> PROVE \E f \in all : s = place(f)
    <3>1. PathField(m) \in all
      BY <1>2
    <3> HIDE DEF place
    <3> QED BY <1>4, <2>3, <3>1
  <2> QED BY <1>9, <2>1, <2>2, <2>3
<1> HIDE DEF place
<1>15. {place(f) : f \in all} = places
  BY <1>13, <1>14
<1> QED BY <1>15 DEF place, all, places

\* An operation describes the route it is made of.
LEMMA OperationLemma ==
  ASSUME NEW route, NEW mount, NEW method, NEW application, Signature(route.params),
         \A p \in ToSet(route.params) : Accepted(p, route.inPath)
  PROVE  ReadRightly(Operation(route, mount, method, application), route, mount, method)
<1> DEFINE op == Operation(route, mount, method, application)
           fields == InputFields(route, mount)
           all == UNION ToSet(fields)
           places == ShownPlaces(route, mount)
           place(f) == <<f.alias, f.kind>>
<1>1. SUFFICES ASSUME ~Misread(route, mount), ~Result(route, mount).errors
               PROVE  /\ OneByName(places) => {<<a, op.parameters[a].in>> : a \in DOMAIN op.parameters} = places
                      /\ method \in WithBody => (op.body # {}) = (\E s \in Sources(route, mount) : InBody(s))
  BY DEF ReadRightly
<1>2. op.parameters = OperationParameters(fields) /\ (method \in WithBody => op.body = RequestBody(route))
  BY DEF Operation
<1> HIDE DEF op
<1>3. ASSUME OneByName(places) PROVE {<<a, op.parameters[a].in>> : a \in DOMAIN op.parameters} = places
  <2>1. {place(f) : f \in all} = places
    BY <1>1, <1>3, PlacesLemma
  <2>2. fields \in Seq(SUBSET all)
    <3>1. DOMAIN route.params = 1..Len(route.params) /\ Len(route.params) \in Nat
      BY DEF Signature
    <3> QED BY <3>1, InputsShown
  <2> HIDE DEF all, places, fields
  <2>3. ASSUME NEW f \in all, NEW g \in all, f.alias = g.alias PROVE f.kind = g.kind
    <3>1. place(f) \in places /\ place(g) \in places
      BY <2>1
    <3>2. place(f)[1] = f.alias /\ place(g)[1] = g.alias /\ place(f)[2] = f.kind /\ place(g)[2] = g.kind
      BY PlaceOf
    <3> HIDE DEF place
    <3>3. place(f) = place(g)
      BY <1>3, <2>3, <3>1, <3>2 DEF OneByName
    <3> QED BY <3>2, <3>3
  <2>4. {<<a, OperationParameters(fields)[a].in>> : a \in DOMAIN OperationParameters(fields)} = {place(f) : f \in all}
    BY <2>2, <2>3, ParametersLemma DEF all
  <2> QED BY <1>2, <2>1, <2>4
<1>4. ASSUME method \in WithBody PROVE (op.body # {}) = (\E s \in Sources(route, mount) : InBody(s))
  <2> DEFINE has == \E i \in DOMAIN route.params : FieldOf(route.params[i], route.inPath).kind \in {"body", "form", "file"}
  <2>1. (\E s \in Sources(route, mount) : InBody(s)) <=> has
    BY <1>1, AllRead
  <2>2. RequestBody(route) # {} <=> \E f \in ToSet(Fields(route)) : In(f.kind) = "body"
    BY DEF RequestBody
  <2>3. (\E f \in ToSet(Fields(route)) : In(f.kind) = "body") <=>
          \E i \in DOMAIN route.params : In(FieldOf(route.params[i], route.inPath).kind) = "body"
    BY DEF Fields, ToSet
  <2>4. \A i \in DOMAIN route.params : In(FieldOf(route.params[i], route.inPath).kind) = "body" <=>
          FieldOf(route.params[i], route.inPath).kind \in {"body", "form", "file"}
    <3> TAKE i \in DOMAIN route.params
    <3>1. FieldOf(route.params[i], route.inPath).kind \in ParameterKind
      <4>1. route.params[i] \in Parameter
        BY DEF Signature
      <4> QED BY <4>1, FieldLemma
    <3> QED BY <3>1 DEF In, ParameterKind
  <2> QED BY <1>2, <1>4, <2>1, <2>2, <2>3, <2>4
<1> QED BY <1>3, <1>4

\* The guards that are shown are those in force, but for a handler with an empty list.
LEMMA SecurityLemma ==
  ASSUME NEW route, NEW mount, NEW application, <<>> \notin route.guards,
         \A a, b \in mount.guards : a = b
  PROVE  GuardsShown(route, mount, application) = InForce(route.guards, mount.guards, application)
<1>1. route.guards \ {<<>>} = route.guards
  OBVIOUS
<1>2. CASE mount.guards \subseteq {<<>>}
  <2>1. mount.guards \ {<<>>} = {}
    BY <1>2
  <2>2. GuardsShown(route, mount, application) = InForce(route.guards, {}, application)
    BY <1>1, <2>1 DEF GuardsShown
  <2>3. CASE route.guards = {}
    BY <1>2, <2>2, <2>3 DEF InForce
  <2>4. CASE route.guards # {}
    BY <2>2, <2>4 DEF InForce
  <2> QED BY <2>3, <2>4
<1>3. CASE ~(mount.guards \subseteq {<<>>})
  <2>1. mount.guards \ {<<>>} = mount.guards
    BY <1>3
  <2> QED BY <1>1, <2>1 DEF GuardsShown
<1> QED BY <1>2, <1>3

\* What is described last of a path and a method is what the document has.
LEMMA LastDescribed ==
  ASSUME NEW mounts, NEW application, DOMAIN mounts \subseteq Nat,
         \A i \in DOMAIN mounts : DOMAIN mounts[i].routes \subseteq Nat,
         NEW at \in Shown(mounts), NEW k \in Keys(mounts, at),
         \A other \in Shown(mounts) : k \in Keys(mounts, other) => ~Follows(other, at)
  PROVE  Document(mounts, application)[k] = Operation(RouteAt(mounts, at), mounts[at[1]], k[2], application)
<1> DEFINE described == {a \in Shown(mounts) : k \in Keys(mounts, a)}
           last == CHOOSE a \in described : \A other \in described : ~Follows(other, a)
<1>1. \A a \in Shown(mounts) : \E i, j \in Nat : a = <<i, j>>
  <2>1. \A a \in Shown(mounts) : \E i \in DOMAIN mounts : \E j \in DOMAIN mounts[i].routes : a = <<i, j>>
    BY DEF Shown
  <2> QED BY <2>1
<1>2. \A a, b \in Shown(mounts) : ~Follows(a, b) /\ ~Follows(b, a) => a = b
  <2> TAKE a, b \in Shown(mounts)
  <2> HAVE ~Follows(a, b) /\ ~Follows(b, a)
  <2>1. PICK i, j \in Nat : a = <<i, j>>
    BY <1>1
  <2>2. PICK m, n \in Nat : b = <<m, n>>
    BY <1>1
  <2>3. a[1] = i /\ a[2] = j /\ b[1] = m /\ b[2] = n
    BY <2>1, <2>2, PlaceOf
  <2>4. ~(i > m \/ (i = m /\ j > n)) /\ ~(m > i \/ (m = i /\ n > j))
    BY <2>3 DEF Follows
  <2>5. i = m /\ j = n
    BY <2>4
  <2> QED BY <2>1, <2>2, <2>5
<1>3. at \in described /\ \A other \in described : ~Follows(other, at)
  OBVIOUS
<1>4. last \in described /\ \A other \in described : ~Follows(other, last)
  BY <1>3
<1>5. last = at
  <2> HIDE DEF last
  <2> QED BY <1>2, <1>3, <1>4
<1>6. k \in UNION {Keys(mounts, a) : a \in Shown(mounts)}
  OBVIOUS
<1>7. Document(mounts, application)[k] = Operation(RouteAt(mounts, last), mounts[last[1]], k[2], application)
  BY <1>6 DEF Document
<1> QED BY <1>5, <1>7

\* A document describes every route as it is called.
THEOREM DocumentsRight ==
  ASSUME NEW mounts, NEW application, DOMAIN mounts \subseteq Nat,
         \A i \in DOMAIN mounts :
           /\ DOMAIN mounts[i].routes \subseteq Nat
           /\ \A a, b \in mounts[i].guards : a = b
           /\ \A j \in DOMAIN mounts[i].routes :
                LET route == mounts[i].routes[j]
                IN  Signature(route.params) /\ \A p \in ToSet(route.params) : Accepted(p, route.inPath)
  PROVE  DescribedRightly(mounts, application)
<1> SUFFICES ASSUME NEW at \in Shown(mounts), NEW k \in Keys(mounts, at),
                    \A other \in Shown(mounts) : k \in Keys(mounts, other) => ~Follows(other, at)
             PROVE  LET route == RouteAt(mounts, at) mount == mounts[at[1]]
                        op == Document(mounts, application)[k]
                        models == ModelsOf(route.responses, route.override)
                    IN  /\ op.id = route.id
                        /\ ReadRightly(op, route, mount, k[2])
                        /\ <<>> \notin route.guards => op.security = Schemes(InForce(route.guards, mount.guards, application))
                        /\ \A s \in DOMAIN models \ {422} : op.responses[s] = models[s]
  BY DEF DescribedRightly
<1> DEFINE route == RouteAt(mounts, at)
           mount == mounts[at[1]]
           op == Document(mounts, application)[k]
           models == ModelsOf(route.responses, route.override)
<1>1. op = Operation(route, mount, k[2], application)
  BY LastDescribed
<1>2. at[1] \in DOMAIN mounts /\ at[2] \in DOMAIN mount.routes /\ route = mount.routes[at[2]]
  <2>1. PICK i \in DOMAIN mounts : \E j \in DOMAIN mounts[i].routes : at = <<i, j>>
    BY DEF Shown
  <2>2. PICK j \in DOMAIN mounts[i].routes : at = <<i, j>>
    BY <2>1
  <2>3. at[1] = i /\ at[2] = j
    BY <2>2, PlaceOf
  <2> QED BY <2>1, <2>2, <2>3 DEF RouteAt
<1>3. /\ Signature(route.params) /\ \A p \in ToSet(route.params) : Accepted(p, route.inPath)
      /\ \A a, b \in mount.guards : a = b
  BY <1>2
<1> HIDE DEF route, mount, op
<1>4. ReadRightly(op, route, mount, k[2])
  BY <1>1, <1>3, OperationLemma
<1>5. /\ op.id = route.id
      /\ op.security = Schemes(GuardsShown(route, mount, application))
      /\ \E validated : op.responses = OperationResponses(route, validated)
  BY <1>1 DEF Operation
<1>6. <<>> \notin route.guards => op.security = Schemes(InForce(route.guards, mount.guards, application))
  BY <1>3, <1>5, SecurityLemma
<1>7. \A s \in DOMAIN models \ {422} : op.responses[s] = models[s]
  <2> TAKE s \in DOMAIN models \ {422}
  <2>1. PICK validated : op.responses = OperationResponses(route, validated)
    BY <1>5
  <2> HIDE DEF models
  <2>2. op.responses = [t \in DOMAIN models \cup (IF validated THEN {422} ELSE {}) |->
                          IF t = 422 /\ validated THEN [kind |-> "validation", accepts |-> {}] ELSE models[t]]
    BY <2>1 DEF OperationResponses, models
  <2> QED BY <2>2
<1> QED BY <1>4, <1>5, <1>6, <1>7 DEF route, mount, op

-----------------------------------------------------------------------------
(***************************************************************************)
(* The decisions, whatever they are made about.                            *)
(***************************************************************************)
\* What a case may be about: an input of one of the algorithms, or nothing.
Inputs ==
  \/ case = <<"none">>
  \/ \E e \in Endpoints, r \in Received : case = <<"parameters", e.params, e.path, r>>
  \/ \E t \in Tables, r \in Asked, s \in {"none", "header"}, d \in Versions : case = <<"route", t, s, d, r>>
  \/ \E d \in Models, o \in Overrides, r \in Returned, i \in Injected : case = <<"response", d, o, r, i>>
  \/ \E app \in Apps : \E e \in app.routes, r \in app.requests : case = <<"access", e, app.schemes, r>>
  \/ \E app \in Documented : case = <<"document", app.mounts, app.guards>>
  \/ \E before, now \in Settings, owner, password \in Word, algorithm, preferred \in Algorithm, salt \in Salt :
       case = <<"password", before, owner, algorithm, salt, now, password, preferred>>

LEMMA InputsLemma == CaseSpec => []Inputs
<1>1. CaseInit => Inputs
  BY DEF CaseInit, Inputs
<1>2. Inputs /\ [CaseNext]_case => Inputs'
  BY DEF Inputs, CaseNext, Decide, AParameters, ARoute, AResponse, AnAccess, ADocument, APassword, NoCase
<1> QED BY <1>1, <1>2, PTL DEF CaseSpec

\* Every argument is bound as ArgumentsFound says, but for Unusual.
THEOREM ArgumentsGiven == CaseSpec => []ArgumentsBound
<1>1. ASSUME Inputs PROVE ArgumentsBound
  <2>1. CASE \E e \in Endpoints, r \in Received : case = <<"parameters", e.params, e.path, r>>
    <3>1. PICK e \in Endpoints, r \in Received : case = <<"parameters", e.params, e.path, r>>
      BY <2>1
    <3>2. \/ \E p \in ToSet(e.params) : Unusual(p, e.params, e.path, r)
          \/ ArgumentsFound(e.params, e.path, r)
      BY ParameterAssumption, ArgumentsRight DEF Signature
    <3> QED BY <3>1, <3>2 DEF ArgumentsBound
  <2> QED BY <1>1, <2>1 DEF Inputs, ArgumentsBound
<1> QED BY <1>1, InputsLemma, PTL

\* Every request is answered as RightAnswer says, whatever the strings of the
\* segments are: one that comes after a parameter is not promised to go before it.
THEOREM RoutesAnswered == CaseSpec => []RouteChosen
<1>1. ASSUME Inputs PROVE RouteChosen
  <2>1. CASE \E t \in Tables, r \in Asked, s \in {"none", "header"}, d \in Versions : case = <<"route", t, s, d, r>>
    <3>1. PICK t \in Tables, r \in Asked, s \in {"none", "header"}, d \in Versions : case = <<"route", t, s, d, r>>
      BY <2>1
    <3>2. t \in Seq(Mounted) /\ r \in Asking /\ d \in STRING \ {NotSet}
      BY RouteAssumption
    <3>3. RightAnswer(t, s, d, r)
      BY <3>2, RoutesRight
    <3> QED BY <3>1, <3>3 DEF RouteChosen
  <2> QED BY <1>1, <2>1 DEF Inputs, RouteChosen
<1> QED BY <1>1, InputsLemma, PTL

\* Every returned value is sent as SentAsDeclared says, but for StatusLost.
THEOREM ResponsesSent == CaseSpec => []ResponseSent
<1>1. ASSUME Inputs PROVE ResponseSent
  <2>1. CASE \E d \in Models, o \in Overrides, r \in Returned, i \in Injected : case = <<"response", d, o, r, i>>
    <3>1. PICK d \in Models, o \in Overrides, r \in Returned, i \in Injected : case = <<"response", d, o, r, i>>
      BY <2>1
    <3>2. StatusLost(d, o, r, i) \/ SentAsDeclared(d, o, r, i)
      BY ResponseAssumption, ResponsesRight
    <3> QED BY <3>1, <3>2 DEF ResponseSent
  <2> QED BY <1>1, <2>1 DEF Inputs, ResponseSent
<1> QED BY <1>1, InputsLemma, PTL

\* Every request of every user enters an endpoint exactly as RightlyEntered says,
\* but where the declarations are Entangled, and but for being TurnedAway.
THEOREM RequestsAdmitted == CaseSpec => []RightlyAdmitted
<1>1. ASSUME Inputs PROVE RightlyAdmitted
  <2>1. CASE \E app \in Apps : \E e \in app.routes, r \in app.requests : case = <<"access", e, app.schemes, r>>
    <3>1. PICK app \in Apps : \E e \in app.routes, r \in app.requests : case = <<"access", e, app.schemes, r>>
      BY <2>1
    <3>2. PICK e \in app.routes, r \in app.requests : case = <<"access", e, app.schemes, r>>
      BY <3>1
    <3>3. \/ Entangled(e, app.schemes)
          \/ TurnedAway(e, app.schemes, Users, r)
          \/ RightlyEntered(e, app.schemes, Users, r)
      BY AccessAssumption, AccessRight
    <3> QED BY <3>2, <3>3 DEF RightlyAdmitted
  <2> QED BY <1>1, <2>1 DEF Inputs, RightlyAdmitted
<1> QED BY <1>1, InputsLemma, PTL

\* Every document describes its endpoints as DescribedRightly says.
THEOREM DocumentsDescribed == CaseSpec => []DocumentRight
<1>1. ASSUME Inputs PROVE DocumentRight
  <2>1. CASE \E app \in Documented : case = <<"document", app.mounts, app.guards>>
    <3>1. PICK app \in Documented : case = <<"document", app.mounts, app.guards>>
      BY <2>1
    <3> DEFINE mounts == app.mounts
    <3>2. /\ mounts \in Seq(ToSet(mounts))
          /\ \A m \in ToSet(mounts) :
               /\ m.routes \in Seq(ToSet(m.routes)) /\ \A a, b \in m.guards : a = b
               /\ \A route \in ToSet(m.routes) :
                    Signature(route.params) /\ \A p \in ToSet(route.params) : Accepted(p, route.inPath)
      BY DocumentAssumption
    <3> HIDE DEF mounts
    <3>3. ASSUME NEW s, s \in Seq(ToSet(s))
          PROVE  DOMAIN s \subseteq Nat /\ \A i \in DOMAIN s : s[i] \in ToSet(s)
      BY <3>3 DEF ToSet
    <3>4. DescribedRightly(mounts, app.guards)
      BY <3>2, <3>3, DocumentsRight
    <3> QED BY <3>1, <3>4 DEF DocumentRight, mounts
  <2> QED BY <1>1, <2>1 DEF Inputs, DocumentRight
<1> QED BY <1>1, InputsLemma, PTL

\* Every login, with any word under any settings, is as LoggedInRightly says.
THEOREM LoginsChecked == CaseSpec => []PasswordsChecked
<1>1. ASSUME Inputs PROVE PasswordsChecked
  <2>1. CASE \E before, now \in Settings, owner, password \in Word, algorithm, preferred \in Algorithm, salt \in Salt :
               case = <<"password", before, owner, algorithm, salt, now, password, preferred>>
    <3>1. PICK before \in Settings, now \in Settings, owner \in Word, password \in Word,
               algorithm \in Algorithm, preferred \in Algorithm, salt \in Salt :
                 case = <<"password", before, owner, algorithm, salt, now, password, preferred>>
      BY <2>1
    <3>2. LoggedInRightly(before, owner, algorithm, salt, now, password, preferred)
      BY LoginsRight
    <3> QED BY <3>1, <3>2 DEF PasswordsChecked
  <2> QED BY <1>1, <2>1 DEF Inputs, PasswordsChecked
<1> QED BY <1>1, InputsLemma, PTL
=============================================================================
