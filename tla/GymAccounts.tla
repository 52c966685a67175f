----------------------------- MODULE GymAccounts ----------------------------
(***************************************************************************)
(* The gym accounts of the operators and the cookie they share             *)
(* (gyms/service.py, gyms/discovery.py, persistence/cookie_store.py): the  *)
(* paste of a cookie (cookie/routes.py) and the sign-in                    *)
(* (auth/routes.py) find the gyms WodBuster's selector shows it.           *)
(*                                                                         *)
(* Both are coroutines that do not await between their first read and      *)
(* their commit, so they do not overlap each other; what the gym does      *)
(* meanwhile is in the outcomes they may have.                             *)
(***************************************************************************)
EXTENDS Integers, Sequences, FiniteSets

CONSTANTS
  Operators,     \* rows of operator_profile, by identifier
  Gyms,          \* slugs of gyms at a trusted address
  Links,         \* the links of WodBuster's selector page, in their order
  MaxAccounts,   \* bound on the identifiers of gym accounts drawn
  Cookies,       \* the sessions at WodBuster an operator may paste
  MaxKeys        \* bound on the rotations of the encryption key

ASSUME GymAccountsAssumption ==
  /\ Operators \subseteq Nat \ {0} /\ Gyms \subseteq Nat
  /\ IsFiniteSet(Operators) /\ IsFiniteSet(Gyms)
  /\ Links \in Seq(Nat) /\ \E i \in DOMAIN Links : Links[i] \in Gyms
  /\ Cookies \subseteq Nat \ {0}
  /\ {MaxAccounts, MaxKeys} \subseteq Nat

VARIABLES
  registered,   \* operators whose row exists
  account,      \* tables gym_account and cookie_credential, by identifier
  drawn,        \* the identifier sequence of gym_account
  key,          \* the encryption key in use
  pasted        \* history: the last cookie of each operator that was stored

gymVars == <<registered, account, drawn, key, pasted>>

NoOwner   == 0
NoCookie  == 0
NoAccount == [owner |-> NoOwner, gym |-> 0, cookie |-> NoCookie, key |-> 0]

Accounts == {i \in 1..MaxAccounts : account[i].owner # NoOwner}
Owned(o) == {i \in Accounts : account[i].owner = o}
Least(S) == CHOOSE i \in S : \A j \in S : i <= j

GymTypeOK ==
  /\ registered \subseteq Operators
  /\ account \in [1..MaxAccounts ->
       {NoAccount} \cup [owner : registered, gym : Gyms, cookie : Cookies, key : 0..MaxKeys]]
  /\ drawn \in 0..MaxAccounts /\ \A i \in Accounts : i <= drawn
  /\ key \in 0..MaxKeys
  /\ pasted \in [Operators -> Cookies \cup {NoCookie}]

GymInit ==
  /\ registered = Operators
  /\ account = [i \in 1..MaxAccounts |-> NoAccount] /\ drawn = 0 /\ key = 0
  /\ pasted = [o \in Operators |-> NoCookie]

-----------------------------------------------------------------------------
(* Discovery. *)

\* discover_gyms: the trusted gyms among the links, each once.
Selector == {Links[i] : i \in DOMAIN Links} \cap Gyms

\* The place of a gym on the page is that of its first link.
Precedes(g, h) == \E i \in DOMAIN Links : Links[i] = g /\ \A j \in 1..i : Links[j] # h

\* The gyms of the selector the operator does not own an account of yet.
Missing(o) == Selector \ {account[i].gym : i \in Owned(o)}

\* The table with accounts of the gyms found, in the order of the selector.
Added(table, o, found, cookie) ==
  [i \in 1..MaxAccounts |->
     IF i \in drawn + 1..drawn + Cardinality(found)
     THEN [owner |-> o, cookie |-> cookie, key |-> key,
           gym |-> CHOOSE g \in found :
                     Cardinality({h \in found : h # g /\ Precedes(h, g)}) = i - drawn - 1]
     ELSE table[i]]

\* A discovery keeps the gyms before its first failure.
BestEffort(o) ==
  {found \in SUBSET Missing(o) :
     \A g \in found, h \in Missing(o) : Precedes(h, g) => h \in found}

\* Does the table have room for them?
Room(n) == drawn + n <= MaxAccounts

-----------------------------------------------------------------------------
(* The paste of a cookie. *)

\* Mutant of Stored: the cookie goes to the first account alone.
StoredFirst(o, cookie) ==
  [i \in 1..MaxAccounts |->
     IF Owned(o) # {} /\ i = Least(Owned(o))
     THEN [account[i] EXCEPT !.cookie = cookie, !.key = key] ELSE account[i]]

\* store_cookie_for_all_gyms.
Stored(o, cookie) ==
  [i \in 1..MaxAccounts |->
     IF i \in Owned(o) THEN [account[i] EXCEPT !.cookie = cookie, !.key = key] ELSE account[i]]

\* The handler, when CookieValidator finds the cookie valid: it is stored for
\* every account, and the gyms it opens are added as far as that goes.  Another verdict leaves everything as it is.
Paste(o, cookie) ==
  /\ \E found \in BestEffort(o) :
       /\ Room(Cardinality(found))
       /\ account' = Added(Stored(o, cookie), o, found, cookie)
       /\ drawn' = drawn + Cardinality(found)
  /\ pasted' = [pasted EXCEPT ![o] = cookie]
  /\ UNCHANGED <<registered, key>>

-----------------------------------------------------------------------------
(* The sign-in. *)

\* Cipher.decrypt: only what was encrypted with the key in use.
Readable(i) == account[i].key = key

\* The accounts whose cookie can be decrypted (CookieStore.load).
Loaded(o) == {i \in Owned(o) : Readable(i)}

\* _refresh_accessible_gyms: with the cookie of the first account that has
\* one; any failure rolls back every gym of this sign-in.
Refresh(o) ==
  /\ Loaded(o) # {}
  /\ LET n == Cardinality(Missing(o)) IN
     /\ Room(n)
     /\ \/ /\ account' = Added(account, o, Missing(o), account[Least(Loaded(o))].cookie)
           /\ drawn' = drawn + n
        \/ UNCHANGED account /\ drawn' \in drawn..drawn + n
  /\ UNCHANGED <<registered, key, pasted>>

-----------------------------------------------------------------------------
(* The administrator deletes an operator; the key is replaced. *)

\* The gym accounts go with their operator.
DeleteOperator(o) ==
  /\ o \in registered /\ registered' = registered \ {o}
  /\ account' = [i \in 1..MaxAccounts |-> IF i \in Owned(o) THEN NoAccount ELSE account[i]]
  /\ UNCHANGED <<drawn, key, pasted>>

\* The worker comes back with another encryption key.
RotateKey ==
  /\ key < MaxKeys /\ key' = key + 1
  /\ UNCHANGED <<registered, account, drawn, pasted>>

-----------------------------------------------------------------------------
(* Properties. *)

\* Every account of an operator holds the cookie of the last paste that was
\* stored: none misses a renewal, and no gym found later brings an older one.
RenewedEverywhere ==
  \A o \in Operators : \A i \in Owned(o) : account[i].cookie = pasted[o]

\* The accounts of an operator can be read all or none, so that the renewal of
\* an unreadable cookie leaves no gym behind.
ReadableTogether ==
  \A o \in Operators : \A i, j \in Owned(o) : account[i].key = account[j].key

\* An operator has one account per gym, whatever failed in earlier discoveries.
OneAccountPerGym ==
  \A i, j \in Accounts :
    account[i].owner = account[j].owner /\ account[i].gym = account[j].gym => i = j

=============================================================================
