------------------------------ MODULE Passwords ------------------------------
(***************************************************************************)
(* Hashed passwords (core/security/hashers): how one is made, checked      *)
(* against what is stored, and made anew when the preferred algorithm, its *)
(* cost or its salt is no longer that of the stored one.                   *)
(*                                                                         *)
(* A table takes the algorithms that are installed to their cost.  A       *)
(* password is a record [head, tail, bytes], where head stands for the 72  *)
(* bytes that bcrypt looks at, or NoPassword.  A salt is Random or a given *)
(* one: "weak", "strong", "dollar", which is short and has a $ in it, or   *)
(* "name", with the name of the algorithm in it.  A hash is a record       *)
(* [algorithm, cost, salt, of].                                            *)
(***************************************************************************)
EXTENDS TLC

NoPassword == [none |-> TRUE]
Random     == "random"
Unusable   == [unusable |-> TRUE] \* make_password(None)
Raises     == [raises |-> TRUE]

\* add_hasher
AddHasher(table, algorithm, cost) == (algorithm :> cost) @@ table

\* get_hasher and identify_hasher: the hashes of two algorithms begin differently.
IsInstalled(table, algorithm) == algorithm \in DOMAIN table

Bcrypt == {"bcrypt", "bcrypt_sha256"}

\* _check_encode_args: argon2 turns its salt into bytes, which are not looked at;
\* scrypt takes no bytes for a password, bcrypt no salt of another length.
Refuses(algorithm, password, salt) ==
  \/ salt = "dollar" /\ algorithm # "argon2"
  \/ salt \in {"weak", "name"} /\ algorithm \in Bcrypt
  \/ password.bytes /\ algorithm = "scrypt"

\* What of a password an algorithm distinguishes.
Seen(algorithm, password) ==
  IF algorithm = "bcrypt" THEN <<password.head>> ELSE <<password.head, password.tail>>

\* BaseHasher.encode
Encode(table, algorithm, password, salt) ==
  [algorithm |-> algorithm, cost |-> table[algorithm], salt |-> salt, of |-> Seen(algorithm, password)]

MakePassword(table, password, algorithm, salt) ==
  IF password = NoPassword THEN Unusable
  ELSE IF ~IsInstalled(table, algorithm) \/ Refuses(algorithm, password, salt) THEN Raises
  ELSE Encode(table, algorithm, password, salt)

-----------------------------------------------------------------------------
\* must_update_salt, of the algorithms that ask it.
WeakSalt(hash) ==
  /\ hash.algorithm \in {"pbkdf2_sha256", "pbkdf2_sha1", "argon2", "md5"}
  /\ hash.salt \in {"weak", "dollar"} \/ (hash.salt = "name" /\ hash.algorithm # "md5")

\* must_update of the hashers
OtherCost(table, hash) == hash.algorithm # "md5" /\ hash.cost # table[hash.algorithm]

\* verify: md5 removes its name wherever it is in the hash.
Verify(hash, password) ==
  /\ ~(hash.algorithm = "md5" /\ hash.salt = "name")
  /\ hash.of = Seen(hash.algorithm, password)

BugMustUpdate(table, hash, preferred) == \* mutant: the stored algorithm is asked
  OtherCost(table, hash) \/ WeakSalt(hash)
MustUpdate(table, hash, preferred) ==
  hash.algorithm # preferred \/ OtherCost(table, hash) \/ WeakSalt(hash)

\* check_password: whether it is correct, and whether the setter is called.
Checked(correct, update) == [correct |-> correct, update |-> update]
CheckPassword(table, password, hash, preferred) ==
  IF password = NoPassword \/ hash = Unusable THEN Checked(FALSE, FALSE)
  ELSE IF ~IsInstalled(table, preferred) THEN Raises
  ELSE IF ~IsInstalled(table, hash.algorithm) THEN Checked(FALSE, FALSE)
  ELSE IF password.bytes /\ hash.algorithm = "scrypt" THEN Raises
  ELSE LET correct == Verify(hash, password)
       IN  Checked(correct, correct /\ MustUpdate(table, hash, preferred))

\* What is stored after a login whose setter makes a new hash.
AfterLogin(table, password, hash, preferred) ==
  LET r == CheckPassword(table, password, hash, preferred)
      again == MakePassword(table, password, preferred, Random)
  IN  IF r # Raises /\ r.update /\ again # Raises THEN again ELSE hash

-----------------------------------------------------------------------------
(***************************************************************************)
(* What logins should do: no password but the one that was set is ever     *)
(* accepted, as far as its algorithm can tell, and a login that fails      *)
(* leaves everything alone.  The one that was set is accepted unless its   *)
(* algorithm is gone, and the login then leaves a hash of it that the      *)
(* present settings would make, in which the next login finds nothing to   *)
(* do; only a preferred algorithm that is not there raises.                *)
(***************************************************************************)
\* Where the code is known to do something else (README, section 5): the name of
\* md5 in the salt of its hash, and bytes where scrypt made the hash or is to make
\* the new one.
Unlucky(algorithm, salt, password, preferred) ==
  \/ algorithm = "md5" /\ salt = "name"
  \/ password # NoPassword /\ password.bytes /\ "scrypt" \in {algorithm, preferred}

LoggedInRightly(before, owner, algorithm, salt, table, password, preferred) ==
  LET hash     == MakePassword(before, owner, algorithm, salt)
      r        == CheckPassword(table, password, hash, preferred)
      after    == AfterLogin(table, password, hash, preferred)
      accepted == r # Raises /\ r.correct
      given    == owner # NoPassword /\ password # NoPassword
      same     == given /\ Seen(algorithm, owner) = Seen(algorithm, password)
  IN  hash # Raises =>
        /\ accepted => same /\ algorithm \in DOMAIN table
        /\ ~accepted => after = hash
        /\ ~Unlucky(algorithm, salt, password, preferred) =>
             /\ r = Raises <=> given /\ preferred \notin DOMAIN table
             /\ same /\ {algorithm, preferred} \subseteq DOMAIN table => accepted
             /\ accepted =>
                  /\ after.of = Seen(preferred, password)
                  /\ CheckPassword(table, password, after, preferred) = Checked(TRUE, FALSE)
                  /\ AfterLogin(table, password, after, preferred) = after
=============================================================================
