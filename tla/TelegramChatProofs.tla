-------------------------- MODULE TelegramChatProofs ------------------------
(***************************************************************************)
(* Proofs of the safety properties of TelegramChat and of the gym accounts *)
(* it stands on, for any operators, gyms, selector page, chats and bounds. *)
(***************************************************************************)
EXTENDS TelegramChat, FiniteSetTheorems, WellFoundedInduction, TLAPS

GymInv == GymTypeOK /\ OneAccountPerGym /\ RenewedEverywhere /\ ReadableTogether

\* The store holds tokens that were minted; a token yet to be has no history.
StoreOfMinted ==
  /\ store \subseteq [token : 1..minted, owner : Operators, expires : Nat]
  /\ \A t \in Tokens : minted < t => uses[t] = 0

\* Nothing is remembered of an account that is gone: its identifier is not
\* drawn again, and no booking of another is laid to whoever cancelled there.
NoTraceLeft == \A i \in 1..MaxAccounts \ Accounts : canceller[i] = NoOwner

IInv == GymInv /\ TypeOK /\ StoreOfMinted /\ NoTraceLeft /\ TokenBindsOnce /\ CancelReachesOwn

-----------------------------------------------------------------------------
(* The order of the gyms on the selector page. *)

\* A set of naturals has a least member.
LEMMA LeastNatural ==
  ASSUME NEW S \in SUBSET Nat, S # {}
  PROVE  \E i \in S : \A j \in S : i <= j
<1>1. IsWellFoundedOn(OpToRel(<, Nat), Nat)
  BY NatLessThanWellFounded
<1>2. PICK i \in S : \A j \in S : ~(<<j, i>> \in OpToRel(<, Nat))
  BY <1>1, WFMin
<1>3. ASSUME NEW j \in S PROVE i <= j
  <2>1. <<j, i>> \in Nat \X Nat /\ <<j, i>>[1] = j /\ <<j, i>>[2] = i
    OBVIOUS
  <2>2. ~(j < i)
    BY <1>2, <2>1 DEF OpToRel
  <2> QED
    BY <2>2
<1> QED
  BY <1>3

\* Of two gyms the selector shows, one comes before the other, and a gym does
\* not come before itself.
LEMMA PrecedesOrders ==
  /\ \A g, h \in Selector : g # h => Precedes(g, h) \/ Precedes(h, g)
  /\ \A g \in Selector : ~Precedes(g, g)
  /\ \A g, h, k \in Selector : Precedes(g, h) /\ Precedes(h, k) => Precedes(g, k)
<1> USE GymAccountsAssumption
<1>1. DOMAIN Links \subseteq Nat \ {0} /\ \A i \in DOMAIN Links : 1..i \subseteq DOMAIN Links
  <2>1. DOMAIN Links = 1..Len(Links) /\ Len(Links) \in Nat
    OBVIOUS
  <2> QED
    BY <2>1
<1>2. ASSUME NEW g \in Selector, NEW h \in Selector, g # h
      PROVE  Precedes(g, h) \/ Precedes(h, g)
  <2> DEFINE S == {i \in DOMAIN Links : Links[i] \in {g, h}}
  <2>1. S \in SUBSET Nat /\ S # {}
    BY <1>1, <1>2 DEF Selector
  <2>2. PICK i \in S : \A j \in S : i <= j
    BY <2>1, LeastNatural
  <2>3. ASSUME NEW j \in 1..i, Links[j] \in {g, h} PROVE j = i
    <3>1. j \in S /\ i \in Nat
      BY <1>1, <2>3
    <3> QED
      BY <2>2, <3>1
  <2> QED
    BY <1>2, <2>2, <2>3 DEF Precedes
<1>3. ASSUME NEW g \in Selector, Precedes(g, g) PROVE FALSE
  <2>1. PICK i \in DOMAIN Links : Links[i] = g /\ \A j \in 1..i : Links[j] # g
    BY <1>3 DEF Precedes
  <2>2. i \in 1..i
    BY <1>1
  <2> QED
    BY <2>1, <2>2
<1>4. ASSUME NEW g \in Selector, NEW h \in Selector, NEW k \in Selector,
             Precedes(g, h), Precedes(h, k)
      PROVE  Precedes(g, k)
  <2>1. PICK i \in DOMAIN Links : Links[i] = g /\ \A j \in 1..i : Links[j] # h
    BY <1>4 DEF Precedes
  <2>2. PICK m \in DOMAIN Links : Links[m] = h /\ \A j \in 1..m : Links[j] # k
    BY <1>4 DEF Precedes
  <2>3. i \in Nat \ {0} /\ m \in Nat \ {0}
    BY <1>1
  <2>4. m \notin 1..i
    BY <2>1, <2>2
  <2>5. 1..i \subseteq 1..m
    BY <2>3, <2>4
  <2> QED
    BY <2>1, <2>2, <2>5 DEF Precedes
<1> QED
  BY <1>2, <1>3, <1>4

\* The places of the gyms found are 0, 1, 2, ..., each taken by one gym.
LEMMA PlacesFilled ==
  ASSUME NEW found \in SUBSET Selector
  PROVE  /\ IsFiniteSet(found) /\ Cardinality(found) \in Nat
         /\ \A k \in 0..Cardinality(found) - 1 : \E g \in found :
              Cardinality({h \in found : h # g /\ Precedes(h, g)}) = k
<1> DEFINE n         == Cardinality(found)
           Before(g) == {h \in found : h # g /\ Precedes(h, g)}
           place     == [g \in found |-> Cardinality(Before(g))]
<1>1. IsFiniteSet(found) /\ n \in Nat
  <2>1. IsFiniteSet(Gyms) /\ found \in SUBSET Gyms
    BY GymAccountsAssumption DEF Selector
  <2> QED
    BY <2>1, FS_Subset, FS_CardinalityType
<1>2. ASSUME NEW g \in found
      PROVE  IsFiniteSet(Before(g)) /\ Cardinality(Before(g)) \in 0..n - 1
  <2>1. Before(g) \in SUBSET found /\ Before(g) # found
    OBVIOUS
  <2>2. /\ IsFiniteSet(Before(g)) /\ Cardinality(Before(g)) <= n
        /\ n = Cardinality(Before(g)) => found = Before(g)
    BY <1>1, <2>1, FS_Subset
  <2>3. Cardinality(Before(g)) \in Nat
    BY <2>2, FS_CardinalityType
  <2> HIDE DEF Before, n
  <2> QED
    BY <1>1, <2>1, <2>2, <2>3
<1>3. ASSUME NEW g \in found, NEW h \in found, Precedes(g, h)
      PROVE  Cardinality(Before(g)) # Cardinality(Before(h))
  <2>1. Before(g) \in SUBSET Before(h)
    BY <1>3, PrecedesOrders
  <2>2. g \in Before(h) /\ g \notin Before(g)
    BY <1>3, PrecedesOrders
  <2>3. IsFiniteSet(Before(h))
    BY <1>2
  <2>4. Cardinality(Before(h)) = Cardinality(Before(g)) => Before(h) = Before(g)
    BY <2>1, <2>3, FS_Subset
  <2> QED
    BY <2>2, <2>4
<1>4. place \in Injection(found, 0..n - 1)
  <2>1. place \in [found -> 0..n - 1]
    BY <1>2
  <2>2. ASSUME NEW g \in found, NEW h \in found, place[g] = place[h] PROVE g = h
    BY <1>3, <2>2, PrecedesOrders
  <2> QED
    BY <2>1, <2>2 DEF Injection, IsInjective
<1>5. IsFiniteSet(0..n - 1) /\ Cardinality(0..n - 1) = n
  <2>1. IsFiniteSet(0..n - 1) /\ Cardinality(0..n - 1) = IF 0 > n - 1 THEN 0 ELSE n - 1 - 0 + 1
    BY <1>1, FS_Interval
  <2> QED
    BY <1>1, <2>1
<1>6. place \in Surjection(found, 0..n - 1)
  BY <1>4, <1>5, FS_Injection
<1>7. \A k \in 0..n - 1 : \E g \in found : place[g] = k
  BY <1>6 DEF Surjection
<1> QED
  BY <1>1, <1>7

\* Added leaves the rows drawn before alone and gives each gym found one of the
\* next identifiers.
LEMMA AddedRows ==
  ASSUME GymTypeOK, NEW table, NEW o, NEW cookie, NEW found \in SUBSET Selector,
         Room(Cardinality(found)), NEW after, after = Added(table, o, found, cookie)
  PROVE  LET n     == Cardinality(found)
             fresh == drawn + 1..drawn + n
         IN  /\ n \in Nat /\ drawn + n \in 0..MaxAccounts /\ drawn \in Nat
             /\ fresh \subseteq 1..MaxAccounts
             /\ DOMAIN after = 1..MaxAccounts /\ after = [i \in 1..MaxAccounts |-> after[i]]
             /\ \A i \in 1..MaxAccounts \ fresh : after[i] = table[i]
             /\ \A i \in fresh :
                  /\ after[i] \in [owner : {o}, gym : found, cookie : {cookie}, key : {key}]
                  /\ \A j \in fresh : after[i].gym = after[j].gym => i = j
<1> DEFINE n         == Cardinality(found)
           fresh     == drawn + 1..drawn + n
           Before(g) == Cardinality({h \in found : h # g /\ Precedes(h, g)})
           pick(i)    == CHOOSE g \in found : Before(g) = i - drawn - 1
<1>1. n \in Nat /\ \A k \in 0..n - 1 : \E g \in found : Before(g) = k
  BY PlacesFilled
<1>2. drawn \in Nat /\ drawn + n \in 0..MaxAccounts /\ fresh \subseteq 1..MaxAccounts
  BY <1>1, GymAccountsAssumption DEF GymTypeOK, Room
<1>3. /\ DOMAIN after = 1..MaxAccounts /\ after = [i \in 1..MaxAccounts |-> after[i]]
      /\ \A i \in 1..MaxAccounts \ fresh : after[i] = table[i]
  BY <1>2 DEF Added
<1>3a. \A i \in fresh : after[i] = [owner |-> o, cookie |-> cookie, key |-> key, gym |-> pick(i)]
  BY <1>2 DEF Added
<1> HIDE DEF n, Before
<1>4. ASSUME NEW i \in fresh PROVE pick(i) \in found /\ Before(pick(i)) = i - drawn - 1
  <2>1. i - drawn - 1 \in 0..n - 1
    BY <1>1, <1>2, <1>4
  <2>2. \E g \in found : Before(g) = i - drawn - 1
    BY <1>1, <2>1
  <2> QED
    BY <2>2
<1>5. ASSUME NEW i \in fresh, NEW j \in fresh, pick(i) = pick(j) PROVE i = j
  <2>1. i - drawn - 1 = j - drawn - 1
    BY <1>4, <1>5
  <2> QED
    BY <1>1, <1>2, <2>1
<1> HIDE DEF pick, fresh
<1>6. \A i \in fresh : after[i].gym = pick(i)
  <2> SUFFICES ASSUME NEW i \in fresh PROVE after[i].gym = pick(i)
    OBVIOUS
  <2>1. after[i] = [owner |-> o, cookie |-> cookie, key |-> key, gym |-> pick(i)]
    BY <1>3a
  <2> QED
    BY <2>1
<1>7. \A i \in fresh : after[i] \in [owner : {o}, gym : found, cookie : {cookie}, key : {key}]
  <2> SUFFICES ASSUME NEW i \in fresh
               PROVE  after[i] \in [owner : {o}, gym : found, cookie : {cookie}, key : {key}]
    OBVIOUS
  <2>1. after[i] = [owner |-> o, cookie |-> cookie, key |-> key, gym |-> pick(i)]
    BY <1>3a
  <2> QED
    BY <1>4, <2>1
<1>8. \A i, j \in fresh : after[i].gym = after[j].gym => i = j
  BY <1>5, <1>6
<1> QED
  BY <1>1, <1>2, <1>3, <1>7, <1>8 DEF n, fresh

-----------------------------------------------------------------------------
(* The gym accounts. *)

\* A row with an owner is an account of a registered operator.
LEMMA AccountRows ==
  ASSUME GymTypeOK, NEW i \in 1..MaxAccounts
  PROVE  /\ account[i].owner # NoOwner =>
              account[i] \in [owner : registered, gym : Gyms, cookie : Cookies, key : 0..MaxKeys]
         /\ i \in Accounts <=> account[i] # NoAccount
         /\ i \in Accounts => i <= drawn /\ account[i].owner \in Operators \ {NoOwner}
<1> USE GymAccountsAssumption
<1>1. account[i] \in {NoAccount} \cup
        [owner : registered, gym : Gyms, cookie : Cookies, key : 0..MaxKeys]
  BY DEF GymTypeOK
<1>2. NoAccount.owner = NoOwner
  BY DEF NoAccount
<1>3. registered \subseteq Operators /\ NoOwner \notin Operators
  BY DEF GymTypeOK, NoOwner
<1>4. i \in Accounts <=> account[i].owner # NoOwner
  BY DEF Accounts
<1>5. i \in Accounts => i <= drawn
  BY DEF GymTypeOK
<1> QED
  BY <1>1, <1>2, <1>3, <1>4, <1>5

\* The table is the accounts with those of o on the cookie and the present key;
\* it is extended by accounts of o in the gyms found.
Adding(o, cookie, table, found) ==
  /\ DOMAIN table = 1..MaxAccounts
  /\ \A i \in 1..MaxAccounts \ Owned(o) : table[i] = account[i]
  /\ \A i \in Owned(o) : table[i] = [account[i] EXCEPT !.cookie = cookie, !.key = key]
  /\ account' = Added(table, o, found, cookie)
  /\ drawn' = drawn + Cardinality(found)
  /\ pasted' = [pasted EXCEPT ![o] = cookie]
  /\ UNCHANGED <<registered, key>>

\* Accounts added to the gyms an operator lacks, with the cookie all his others
\* hold and the key they are encrypted with, stay together.
LEMMA AddingKeepsTogether ==
  ASSUME GymTypeOK, OneAccountPerGym,
         NEW o \in registered, NEW cookie \in Cookies,
         NEW table, NEW found \in SUBSET Missing(o), Room(Cardinality(found)),
         Adding(o, cookie, table, found),
         RenewedEverywhere, ReadableTogether
  PROVE  GymInv' /\ \A i \in Accounts : i \in Accounts' /\ account'[i].owner = account[i].owner
<1> DEFINE n     == Cardinality(found)
           fresh == drawn + 1..drawn + n
           Row   == [owner : registered, gym : Gyms, cookie : Cookies, key : 0..MaxKeys]
<1>1. found \in SUBSET Selector /\ found \subseteq Gyms
  BY DEF Missing, Selector
<1>2. /\ n \in Nat /\ drawn + n \in 0..MaxAccounts /\ drawn \in Nat
      /\ fresh \subseteq 1..MaxAccounts
      /\ DOMAIN account' = 1..MaxAccounts /\ account' = [i \in 1..MaxAccounts |-> account'[i]]
      /\ \A i \in 1..MaxAccounts \ fresh : account'[i] = table[i]
      /\ \A i \in fresh :
           /\ account'[i] \in [owner : {o}, gym : found, cookie : {cookie}, key : {key}]
           /\ \A j \in fresh : account'[i].gym = account'[j].gym => i = j
  <2>1. account' = Added(table, o, found, cookie)
    BY DEF Adding
  <2> QED
    BY <1>1, <2>1, AddedRows
<1> HIDE DEF n
<1>2a. /\ n \in Nat /\ drawn \in Nat /\ fresh \subseteq 1..MaxAccounts
       /\ \A i \in fresh : i \in Nat /\ drawn < i /\ i <= drawn + n
  <2>1. n \in Nat /\ drawn \in Nat /\ fresh \subseteq 1..MaxAccounts
    BY <1>2
  <2>2. ASSUME NEW i \in fresh PROVE i \in Nat /\ drawn < i /\ i <= drawn + n
    BY <2>1
  <2> QED
    BY <2>1, <2>2
<1> HIDE DEF fresh
<1>3. key \in 0..MaxKeys /\ o \in Operators /\ o # NoOwner /\ registered \subseteq Operators
  BY GymAccountsAssumption DEF GymTypeOK, NoOwner
<1>4. \A i \in fresh : account'[i] \in Row /\ i \notin Accounts
  <2> SUFFICES ASSUME NEW i \in fresh PROVE account'[i] \in Row /\ i \notin Accounts
    OBVIOUS
  <2>1. account'[i] \in Row
    BY <1>1, <1>2, <1>3
  <2>2. i \in Nat /\ drawn \in Nat /\ drawn < i /\ i \in 1..MaxAccounts
    BY <1>2a
  <2>3. ~(i <= drawn)
    BY <2>2
  <2> QED
    BY <2>1, <2>2, <2>3, AccountRows
<1>5. ASSUME NEW i \in Owned(o)
      PROVE  /\ i \in 1..MaxAccounts \ fresh /\ account'[i] \in Row
             /\ account'[i].owner = o /\ account[i].owner = o /\ account'[i].gym = account[i].gym
             /\ account'[i].cookie = cookie /\ account'[i].key = key
  <2>1. i \in 1..MaxAccounts /\ account[i].owner = o /\ i \in Accounts
    BY <1>5 DEF Owned, Accounts
  <2>2. account[i] \in Row
    BY <1>3, <2>1, AccountRows
  <2>3. i \notin fresh
    BY <1>4, <2>1
  <2>4. account'[i] = [account[i] EXCEPT !.cookie = cookie, !.key = key]
    BY <1>2, <2>1, <2>3 DEF Adding
  <2> QED
    BY <1>3, <2>1, <2>2, <2>3, <2>4
<1>6. ASSUME NEW i \in (1..MaxAccounts \ fresh) \ Owned(o)
      PROVE  account'[i] = account[i] /\ account[i].owner # o
  <2>1. account'[i] = account[i]
    BY <1>2 DEF Adding
  <2>2. account[i].owner # o
    BY <1>3 DEF Owned, Accounts
  <2> QED
    BY <2>1, <2>2
<1>7. \A i \in 1..MaxAccounts : i \in fresh \/ i \in Owned(o)
                                  \/ i \in (1..MaxAccounts \ fresh) \ Owned(o)
  OBVIOUS
<1>8. \A i \in 1..MaxAccounts : account'[i].owner = o => account'[i].cookie = cookie /\ account'[i].key = key
  BY <1>2, <1>5, <1>6, <1>7
<1>9. Accounts' = Accounts \cup fresh
  <2>1. ASSUME NEW i \in 1..MaxAccounts
        PROVE  account'[i].owner # NoOwner <=> i \in Accounts \/ i \in fresh
    BY <1>2, <1>3, <1>5, <1>6, <1>7 DEF Accounts
  <2>2. Accounts' = {i \in 1..MaxAccounts : account'[i].owner # NoOwner}
    BY DEF Accounts
  <2>3. Accounts \subseteq 1..MaxAccounts
    BY DEF Accounts
  <2> QED
    BY <1>2, <2>1, <2>2, <2>3
<1>10. GymTypeOK'
  <2>1. \A i \in 1..MaxAccounts : account'[i] \in {NoAccount} \cup Row
    <3>1. \A i \in 1..MaxAccounts : account[i] \in {NoAccount} \cup Row
      BY DEF GymTypeOK
    <3> QED
      BY <1>4, <1>5, <1>6, <1>7, <3>1
  <2>2. account' \in [1..MaxAccounts -> {NoAccount} \cup Row]
    BY <1>2, <2>1
  <2>3. \A i \in Accounts' : i <= drawn'
    <3>1. \A i \in Accounts : i \in Nat /\ i <= drawn
      BY DEF GymTypeOK, Accounts
    <3>2. drawn' = drawn + n
      BY DEF n, Adding
    <3>3. ASSUME NEW i \in Accounts \cup fresh PROVE i <= drawn + n
      <4>1. CASE i \in Accounts
        <5>1. i \in Nat /\ i <= drawn
          BY <3>1, <4>1
        <5> QED
          BY <1>2a, <5>1
      <4>2. CASE i \in fresh
        BY <1>2a, <4>2
      <4> QED
        BY <3>3, <4>1, <4>2
    <3> QED
      BY <1>9, <3>2, <3>3
  <2>4. drawn' \in 0..MaxAccounts /\ registered' = registered /\ key' = key
    BY <1>2 DEF n, Adding
  <2>5. pasted' \in [Operators -> Cookies \cup {NoCookie}]
    BY DEF GymTypeOK, Adding
  <2> QED
    BY <2>2, <2>3, <2>4, <2>5 DEF GymTypeOK
<1>11. OneAccountPerGym'
  <2> SUFFICES ASSUME NEW i \in Accounts \cup fresh, NEW j \in Accounts \cup fresh,
                      account'[i].owner = account'[j].owner, account'[i].gym = account'[j].gym
               PROVE  i = j
    BY <1>9 DEF OneAccountPerGym
  <2>0. i \in 1..MaxAccounts /\ j \in 1..MaxAccounts
    BY <1>2 DEF Accounts
  <2>1. CASE i \in fresh /\ j \in fresh
    BY <1>2, <2>1
  <2>2. CASE i \notin fresh /\ j \notin fresh
    <3>1. account[i].owner = account[j].owner /\ account[i].gym = account[j].gym
      BY <1>5, <1>6, <1>7, <2>0, <2>2
    <3> QED
      BY <2>2, <3>1 DEF OneAccountPerGym
  <2>3. ASSUME NEW f \in fresh, NEW a \in 1..MaxAccounts \ fresh,
               account'[f].owner = account'[a].owner, account'[f].gym = account'[a].gym
        PROVE  FALSE
    <3>1. account'[f].owner = o /\ account'[f].gym \in found
      BY <1>2
    <3>2. a \in Owned(o) /\ account'[a].gym = account[a].gym
      BY <1>5, <1>6, <1>7, <2>3, <3>1
    <3>3. account'[f].gym \notin {account[k].gym : k \in Owned(o)}
      BY <3>1 DEF Missing
    <3> QED
      BY <2>3, <3>2, <3>3
  <2> QED
    BY <2>0, <2>1, <2>2, <2>3
<1>12. RenewedEverywhere'
  <2> SUFFICES ASSUME NEW p \in Operators, NEW i \in Accounts', account'[i].owner = p
               PROVE  account'[i].cookie = pasted'[p]
    BY DEF RenewedEverywhere, Owned
  <2>0. i \in 1..MaxAccounts
    BY DEF Accounts
  <2>1. CASE p = o
    <3>1. pasted'[o] = cookie
      BY <1>3 DEF GymTypeOK, Adding
    <3> QED
      BY <1>8, <2>0, <2>1, <3>1
  <2>2. CASE p # o
    <3>1. account'[i] = account[i] /\ i \in Owned(p)
      BY <1>2, <1>5, <1>6, <1>7, <1>9, <2>0, <2>2 DEF Owned
    <3>2. account[i].cookie = pasted[p]
      BY <3>1, Zenon DEF RenewedEverywhere
    <3>3. pasted'[p] = pasted[p]
      BY <2>2 DEF GymTypeOK, Adding
    <3> QED
      BY <3>1, <3>2, <3>3
  <2> QED
    BY <2>1, <2>2
<1>13. ReadableTogether'
  <2> SUFFICES ASSUME NEW p \in Operators, NEW i \in Accounts', NEW j \in Accounts',
                      account'[i].owner = p, account'[j].owner = p
               PROVE  account'[i].key = account'[j].key
    BY DEF ReadableTogether, Owned
  <2>0. i \in 1..MaxAccounts /\ j \in 1..MaxAccounts
    BY DEF Accounts
  <2>1. CASE p = o
    BY <1>8, <2>0, <2>1
  <2>2. CASE p # o
    <3>1. account'[i] = account[i] /\ i \in Owned(p) /\ account'[j] = account[j] /\ j \in Owned(p)
      BY <1>2, <1>5, <1>6, <1>7, <1>9, <2>0, <2>2 DEF Owned
    <3>2. account[i].key = account[j].key
      BY <3>1, Zenon DEF ReadableTogether
    <3> QED
      BY <3>1, <3>2
  <2> QED
    BY <2>1, <2>2
<1>14. \A i \in Accounts : i \in Accounts' /\ account'[i].owner = account[i].owner
  BY <1>4, <1>5, <1>6, <1>7, <1>9 DEF Accounts
<1> QED
  BY <1>10, <1>11, <1>12, <1>13, <1>14 DEF GymInv

\* A paste renews every account and adds gyms with the same cookie.
LEMMA PasteKeepsTogether ==
  ASSUME GymInv, NEW o \in registered, NEW cookie \in Cookies, Paste(o, cookie)
  PROVE  GymInv' /\ \A i \in Accounts : i \in Accounts' /\ account'[i].owner = account[i].owner
<1>1. PICK found \in BestEffort(o) :
        /\ Room(Cardinality(found))
        /\ account' = Added(Stored(o, cookie), o, found, cookie)
        /\ drawn' = drawn + Cardinality(found)
  BY DEF Paste
<1>2. found \in SUBSET Missing(o)
  BY DEF BestEffort
<1>3. DOMAIN Stored(o, cookie) = 1..MaxAccounts
  BY DEF Stored
<1>4. ASSUME NEW i \in 1..MaxAccounts \ Owned(o) PROVE Stored(o, cookie)[i] = account[i]
  BY DEF Stored
<1>5. ASSUME NEW i \in Owned(o)
      PROVE  Stored(o, cookie)[i] = [account[i] EXCEPT !.cookie = cookie, !.key = key]
  <2>1. i \in 1..MaxAccounts
    BY DEF Owned, Accounts
  <2> QED
    BY <2>1 DEF Stored
<1>6. Adding(o, cookie, Stored(o, cookie), found)
  BY <1>1, <1>3, <1>4, <1>5 DEF Adding, Paste
<1> QED
  BY <1>1, <1>2, <1>6, AddingKeepsTogether DEF GymInv

\* A sign-in adds gyms with the cookie it could decrypt, which is the one of
\* every account, and they are encrypted with the key in use.
LEMMA RefreshKeepsTogether ==
  ASSUME GymInv, NEW o \in registered, Refresh(o)
  PROVE  GymInv' /\ \A i \in Accounts : i \in Accounts' /\ account'[i].owner = account[i].owner
<1> DEFINE first  == Least(Loaded(o))
           cookie == account[first].cookie
<1>0. GymTypeOK /\ OneAccountPerGym /\ RenewedEverywhere /\ ReadableTogether
  BY DEF GymInv
<1>1. first \in Loaded(o)
  <2>1. Loaded(o) \in SUBSET Nat /\ Loaded(o) # {}
    BY DEF Refresh, Loaded, Owned, Accounts
  <2> QED
    BY <2>1, LeastNatural DEF Least
<1> HIDE DEF first
<1>2. first \in Owned(o) /\ account[first].key = key /\ first \in 1..MaxAccounts
  BY <1>1 DEF Loaded, Readable, Owned, Accounts
<1>3. o \in Operators
  BY <1>0 DEF GymTypeOK
<1>4. cookie = pasted[o] /\ cookie \in Cookies
  <2>1. account[first].owner # NoOwner
    BY <1>2 DEF Owned, Accounts
  <2> QED
    BY <1>0, <1>2, <1>3, <2>1, AccountRows DEF RenewedEverywhere
<1>5. CASE /\ account' = Added(account, o, Missing(o), cookie)
           /\ drawn' = drawn + Cardinality(Missing(o))
  <2>1. DOMAIN account = 1..MaxAccounts
    BY <1>0 DEF GymTypeOK
  <2>2. ASSUME NEW i \in Owned(o)
        PROVE  account[i] = [account[i] EXCEPT !.cookie = cookie, !.key = key]
    <3>1. account[i].cookie = cookie
      BY <1>0, <1>3, <1>4 DEF RenewedEverywhere
    <3>2. account[i].key = key
      BY <1>0, <1>2, <1>3 DEF ReadableTogether
    <3>3. i \in 1..MaxAccounts /\ account[i].owner # NoOwner
      BY DEF Owned, Accounts
    <3>4. account[i] \in [owner : registered, gym : Gyms, cookie : Cookies, key : 0..MaxKeys]
      BY <1>0, <3>3, AccountRows
    <3> HIDE DEF cookie
    <3> QED
      BY <3>1, <3>2, <3>4
  <2>3. pasted' = [pasted EXCEPT ![o] = cookie]
    <3>1. pasted' = pasted /\ pasted \in [Operators -> Cookies \cup {NoCookie}]
      BY <1>0 DEF GymTypeOK, Refresh
    <3> QED
      BY <1>3, <1>4, <3>1
  <2>4. UNCHANGED <<registered, key>> /\ Room(Cardinality(Missing(o)))
    BY DEF Refresh
  <2>5. Adding(o, cookie, account, Missing(o))
    BY <1>5, <2>1, <2>2, <2>3, <2>4 DEF Adding
  <2> QED
    BY <1>0, <1>4, <2>4, <2>5, AddingKeepsTogether
<1>6. CASE UNCHANGED account /\ drawn' \in drawn..drawn + Cardinality(Missing(o))
  <2>1. UNCHANGED <<registered, key, pasted, account>> /\ Room(Cardinality(Missing(o)))
    BY <1>6 DEF Refresh
  <2>2. Cardinality(Missing(o)) \in Nat
    <3>1. Missing(o) \in SUBSET Selector
      BY DEF Missing
    <3> QED
      BY <3>1, PlacesFilled
  <2>3. drawn \in Nat /\ drawn' \in 0..MaxAccounts /\ drawn <= drawn'
    BY <1>0, <1>6, <2>1, <2>2, GymAccountsAssumption DEF Room, GymTypeOK
  <2>4. \A i \in Accounts : i <= drawn'
    <3>1. \A i \in Accounts : i \in Nat /\ i <= drawn
      BY <1>0 DEF GymTypeOK, Accounts
    <3> QED
      BY <2>3, <3>1
  <2>5. Accounts' = Accounts /\ \A p : Owned(p)' = Owned(p)
    BY <2>1 DEF Accounts, Owned
  <2>6. GymTypeOK'
    BY <1>0, <2>1, <2>3, <2>4, <2>5 DEF GymTypeOK
  <2>7. OneAccountPerGym' /\ RenewedEverywhere' /\ ReadableTogether'
    BY <1>0, <2>1, <2>5 DEF OneAccountPerGym, RenewedEverywhere, ReadableTogether
  <2> QED
    BY <2>1, <2>5, <2>6, <2>7 DEF GymInv
<1> QED
  BY <1>5, <1>6 DEF Refresh, first

\* The accounts of an operator go with him, and no other.
LEMMA DeleteOperatorKeepsTogether ==
  ASSUME GymInv, NEW o \in registered, DeleteOperator(o)
  PROVE  /\ GymInv' /\ Accounts' = Accounts \ Owned(o)
         /\ \A i \in Accounts' : account'[i] = account[i]
<1>0. GymTypeOK /\ OneAccountPerGym /\ RenewedEverywhere /\ ReadableTogether
  BY DEF GymInv
<1>1. /\ registered' = registered \ {o} /\ UNCHANGED <<drawn, key, pasted>>
      /\ account' = [i \in 1..MaxAccounts |-> IF i \in Owned(o) THEN NoAccount ELSE account[i]]
  BY DEF DeleteOperator
<1>2. Accounts' = Accounts \ Owned(o)
  <2>1. Accounts' = {i \in 1..MaxAccounts : account'[i].owner # NoOwner}
    BY DEF Accounts
  <2>2. ASSUME NEW i \in 1..MaxAccounts
        PROVE  account'[i].owner # NoOwner <=> i \in Accounts /\ i \notin Owned(o)
    BY <1>1 DEF Accounts, NoAccount
  <2>3. Accounts \subseteq 1..MaxAccounts
    BY DEF Accounts
  <2> QED
    BY <2>1, <2>2, <2>3
<1>3. \A i \in Accounts' : account'[i] = account[i]
  BY <1>1, <1>2 DEF Accounts
<1>4. \A p : \A i \in Owned(p)' : i \in Owned(p) /\ account'[i] = account[i]
  BY <1>2, <1>3 DEF Owned
<1>5. GymTypeOK'
  <2>1. ASSUME NEW i \in 1..MaxAccounts
        PROVE  account'[i] \in {NoAccount} \cup
                 [owner : registered', gym : Gyms, cookie : Cookies, key : 0..MaxKeys]
    <3>1. CASE i \in Owned(o)
      BY <1>1, <3>1
    <3>2. CASE i \notin Owned(o)
      <4>1. account'[i] = account[i]
        BY <1>1, <3>2
      <4>2. account[i] \in {NoAccount} \cup
              [owner : registered, gym : Gyms, cookie : Cookies, key : 0..MaxKeys]
        BY <1>0 DEF GymTypeOK
      <4>3. CASE account[i] = NoAccount
        BY <4>1, <4>3
      <4>4. CASE account[i] # NoAccount
        <5>1. i \in Accounts
          BY <1>0, <4>4, AccountRows
        <5>2. account[i].owner # o
          BY <3>2, <5>1 DEF Owned
        <5> QED
          BY <1>1, <4>1, <4>2, <4>4, <5>2
      <4> QED
        BY <4>3, <4>4
    <3> QED
      BY <3>1, <3>2
  <2>2. account' \in [1..MaxAccounts -> {NoAccount} \cup
          [owner : registered', gym : Gyms, cookie : Cookies, key : 0..MaxKeys]]
    BY <1>1, <2>1
  <2> QED
    BY <1>0, <1>1, <1>2, <2>2 DEF GymTypeOK
<1>6. OneAccountPerGym'
  BY <1>0, <1>2, <1>3 DEF OneAccountPerGym
<1>7. RenewedEverywhere'
  BY <1>0, <1>1, <1>4 DEF RenewedEverywhere
<1>8. ReadableTogether'
  BY <1>0, <1>4 DEF ReadableTogether
<1> QED
  BY <1>2, <1>3, <1>5, <1>6, <1>7, <1>8 DEF GymInv

\* Another key leaves every cookie unreadable, together.
LEMMA RotateKeyKeepsTogether ==
  ASSUME GymInv, RotateKey
  PROVE  GymInv' /\ Accounts' = Accounts /\ account' = account
<1>1. GymTypeOK /\ OneAccountPerGym /\ RenewedEverywhere /\ ReadableTogether
  BY DEF GymInv
<1>2. UNCHANGED <<registered, account, drawn, pasted>> /\ key' \in 0..MaxKeys
  BY <1>1, GymAccountsAssumption DEF RotateKey, GymTypeOK
<1>3. Accounts' = Accounts /\ \A p : Owned(p)' = Owned(p)
  BY <1>2 DEF Accounts, Owned
<1>4. GymTypeOK'
  BY <1>1, <1>2, <1>3 DEF GymTypeOK
<1>5. OneAccountPerGym' /\ RenewedEverywhere' /\ ReadableTogether'
  BY <1>1, <1>2, <1>3 DEF OneAccountPerGym, RenewedEverywhere, ReadableTogether
<1> QED
  BY <1>2, <1>3, <1>4, <1>5 DEF GymInv

LEMMA GymFrame ==
  ASSUME GymInv, UNCHANGED gymVars
  PROVE  GymInv' /\ Accounts' = Accounts /\ account' = account /\ registered' = registered
<1>1. UNCHANGED <<registered, account, drawn, key, pasted>>
  BY DEF gymVars
<1>2. Accounts' = Accounts /\ \A p : Owned(p)' = Owned(p)
  BY <1>1 DEF Accounts, Owned
<1>3. GymTypeOK'
  BY <1>1, <1>2 DEF GymTypeOK, GymInv
<1>4. OneAccountPerGym' /\ RenewedEverywhere' /\ ReadableTogether'
  BY <1>1, <1>2 DEF OneAccountPerGym, RenewedEverywhere, ReadableTogether, GymInv
<1> QED
  BY <1>1, <1>2, <1>3, <1>4 DEF GymInv

-----------------------------------------------------------------------------
(* The invariant in three parts that steps disturb separately: the tokens,  *)
(* the chats, and what is kept by account.                                  *)

TokensInv ==
  /\ now \in 0..MaxNow /\ minted \in 0..MaxTokens
  /\ \A e \in store : e.token \in Tokens /\ e.owner \in Operators /\ e.expires <= now + Ttl
  /\ \A d, e \in store : d.token = e.token => d = e
  /\ uses \in [Tokens -> Nat]
  /\ StoreOfMinted /\ TokenBindsOnce

ChatsInv ==
  /\ chat \in [Operators -> Chats \cup {NoOwner}]
  /\ \A o \in Operators : chat[o] # NoOwner => o \in registered

RecordsInv ==
  /\ alert \in [1..MaxAccounts -> {"none", "open", "acknowledged"}]
  /\ booking \in [1..MaxAccounts -> {"granted", "cancelled"}]
  /\ {acked, canceller} \subseteq [1..MaxAccounts -> Operators \cup {NoOwner}]
  /\ \A i \in 1..MaxAccounts \ Accounts : alert[i] = "none"
  /\ NoTraceLeft /\ CancelReachesOwn

LEMMA IInvParts == IInv <=> GymInv /\ TokensInv /\ ChatsInv /\ RecordsInv
  BY DEF IInv, GymInv, TypeOK, TokensInv, ChatsInv, RecordsInv

LEMMA IInvPartsNext == IInv' <=> GymInv' /\ TokensInv' /\ ChatsInv' /\ RecordsInv'
  BY DEF IInv, GymInv, TypeOK, TokensInv, ChatsInv, RecordsInv

LEMMA TokensFrame ==
  ASSUME TokensInv, UNCHANGED <<now, minted, store, uses>>
  PROVE  TokensInv'
  BY DEF TokensInv, StoreOfMinted, TokenBindsOnce

LEMMA ChatsFrame ==
  ASSUME ChatsInv, UNCHANGED <<chat, registered>>
  PROVE  ChatsInv'
  BY DEF ChatsInv

\* What is kept by account stands while accounts come and keep their owners.
LEMMA RecordsFrame ==
  ASSUME RecordsInv, UNCHANGED <<alert, booking, acked, canceller>>,
         Accounts' \subseteq 1..MaxAccounts,
         \A i \in Accounts : i \in Accounts' /\ account'[i].owner = account[i].owner
  PROVE  RecordsInv'
<1>1. \A i \in 1..MaxAccounts \ Accounts' : i \notin Accounts
  OBVIOUS
<1>2. NoTraceLeft'
  BY <1>1 DEF RecordsInv, NoTraceLeft
<1>3. CancelReachesOwn'
  <2> SUFFICES ASSUME NEW i \in Accounts', canceller[i] # NoOwner
               PROVE  account'[i].owner = canceller[i]
    BY DEF CancelReachesOwn
  <2>1. i \in Accounts
    BY DEF RecordsInv, NoTraceLeft
  <2> QED
    BY <2>1 DEF RecordsInv, CancelReachesOwn
<1> QED
  BY <1>1, <1>2, <1>3 DEF RecordsInv

LEMMA InitIInv == Init => IInv
<1> SUFFICES ASSUME Init PROVE GymInv /\ TokensInv /\ ChatsInv /\ RecordsInv
  BY IInvParts
<1> USE GymAccountsAssumption, TelegramAssumption
<1>1. Accounts = {} /\ \A o : Owned(o) = {}
  BY DEF Init, GymInit, NoAccount, NoOwner, Accounts, Owned
<1>2. GymTypeOK
  BY <1>1 DEF Init, GymInit, GymTypeOK
<1>3. GymInv
  BY <1>1, <1>2 DEF GymInv, OneAccountPerGym, RenewedEverywhere, ReadableTogether
<1>4. TokensInv
  BY DEF Init, TokensInv, StoreOfMinted, TokenBindsOnce, Tokens
<1>5. ChatsInv
  BY DEF Init, ChatsInv
<1>6. RecordsInv
  BY <1>1 DEF Init, RecordsInv, NoTraceLeft, CancelReachesOwn
<1> QED
  BY <1>3, <1>4, <1>5, <1>6

-----------------------------------------------------------------------------
(* The tokens. *)

\* A link minted has a token of its own, which never bound a chat.
LEMMA GenerateKeeps ==
  ASSUME IInv, NEW o \in registered, Generate(o)
  PROVE  IInv'
<1> USE TelegramAssumption
<1>0. GymInv /\ TokensInv /\ ChatsInv /\ RecordsInv
  BY IInvParts
<1>1. UNCHANGED gymVars /\ UNCHANGED <<now, chat, alert, booking, uses, acked, canceller>>
  BY DEF Generate
<1>2. GymInv' /\ ChatsInv' /\ RecordsInv'
  BY <1>0, <1>1, GymFrame, ChatsFrame, RecordsFrame DEF Accounts
<1>3. o \in Operators
  BY <1>0 DEF GymInv, GymTypeOK
<1>4. /\ minted' = minted + 1 /\ minted' \in 0..MaxTokens /\ minted \in Nat /\ now \in Nat
      /\ minted' \in Tokens
  BY <1>0 DEF Generate, TokensInv, Tokens
<1> DEFINE new == [token |-> minted + 1, owner |-> o, expires |-> now + Ttl]
<1>5. store' \subseteq store \cup {new}
  BY DEF Generate, Issued, Unexpired
<1>6. store \subseteq [token : 1..minted, owner : Operators, expires : Nat]
  BY <1>0 DEF TokensInv, StoreOfMinted
<1>7. ASSUME NEW e \in store PROVE e.token \in 1..minted /\ e.token # minted + 1
  <2>1. e.token \in 1..minted
    BY <1>6
  <2> QED
    BY <1>4, <2>1
<1>8. /\ new \in [token : 1..minted + 1, owner : Operators, expires : Nat]
      /\ new.token = minted + 1 /\ new.owner = o /\ new.expires = now + Ttl
  BY <1>3, <1>4
<1> HIDE DEF new
<1>9. StoreOfMinted'
  <2>1. 1..minted \subseteq 1..minted + 1
    BY <1>4
  <2>2. store' \subseteq [token : 1..minted + 1, owner : Operators, expires : Nat]
    BY <1>5, <1>6, <1>8, <2>1
  <2>3. \A t \in Tokens : minted + 1 < t => uses[t] = 0
    <3>1. \A t \in Tokens : minted < t => uses[t] = 0
      BY <1>0 DEF TokensInv, StoreOfMinted
    <3> QED
      BY <1>4, <3>1 DEF Tokens
  <2> QED
    BY <1>1, <1>4, <2>2, <2>3 DEF StoreOfMinted
<1>10. uses[minted + 1] = 0
  BY <1>0, <1>4 DEF TokensInv, StoreOfMinted
<1>11. TokenBindsOnce'
  BY <1>0, <1>1, <1>5, <1>8, <1>10 DEF TokensInv, TokenBindsOnce
<1>12. \A e \in store' : e.token \in Tokens /\ e.owner \in Operators /\ e.expires <= now' + Ttl
  <2>1. new.token \in Tokens /\ new.owner \in Operators /\ new.expires <= now' + Ttl
    BY <1>1, <1>3, <1>4, <1>8
  <2> QED
    BY <1>0, <1>1, <1>5, <2>1 DEF TokensInv
<1>13. \A d, e \in store' : d.token = e.token => d = e
  BY <1>0, <1>5, <1>7, <1>8 DEF TokensInv
<1>14. TokensInv'
  BY <1>0, <1>1, <1>4, <1>9, <1>11, <1>12, <1>13 DEF TokensInv
<1> QED
  BY <1>2, <1>14, IInvPartsNext

\* A token that binds a chat has not done so before, and leaves the store.
LEMMA StartKeeps ==
  ASSUME IInv, NEW c \in Chats, NEW t \in 1..minted, Start(c, t)
  PROVE  IInv'
<1> USE TelegramAssumption
<1>0. GymInv /\ TokensInv /\ ChatsInv /\ RecordsInv
  BY IInvParts
<1>1. /\ UNCHANGED gymVars /\ UNCHANGED <<now, minted, alert, booking, acked, canceller>>
      /\ store' = Consumed(t)
  BY DEF Start
<1>2. GymInv' /\ RecordsInv' /\ registered' = registered
  BY <1>0, <1>1, GymFrame, RecordsFrame DEF Accounts
<1>3. store' \subseteq store /\ \A e \in store' : e.token # t
  BY <1>1 DEF Consumed, Unexpired
<1>4. t \in Tokens
  BY <1>0 DEF TokensInv, Tokens
<1>5. CASE UNCHANGED <<chat, uses>>
  <2>1. ChatsInv'
    BY <1>0, <1>2, <1>5, ChatsFrame
  <2>2. TokensInv'
    BY <1>0, <1>1, <1>3, <1>5 DEF TokensInv, StoreOfMinted, TokenBindsOnce
  <2> QED
    BY <1>2, <2>1, <2>2, IInvPartsNext
<1>6. CASE \E e \in Unexpired : e.token = t /\ e.owner \in registered
  <2> DEFINE chosen == CHOOSE e \in Unexpired : e.token = t
  <2>1. PICK e \in Unexpired : e.token = t /\ e.owner \in registered
    BY <1>6
  <2>2. chosen \in store /\ chosen.token = t /\ e \in store
    BY <2>1 DEF Unexpired
  <2>3. chosen = e
    BY <1>0, <2>1, <2>2 DEF TokensInv
  <2>4. chat' = [chat EXCEPT ![chosen.owner] = c] /\ uses' = [uses EXCEPT ![t] = @ + 1]
    BY <1>6 DEF Start
  <2> HIDE DEF chosen
  <2>5. chosen.owner \in registered /\ chosen.owner \in Operators
    BY <1>0, <2>1, <2>2, <2>3 DEF TokensInv
  <2>6. ChatsInv'
    BY <1>0, <1>2, <2>4, <2>5 DEF ChatsInv
  <2>7. uses[t] = 0
    BY <1>0, <2>2 DEF TokensInv, TokenBindsOnce
  <2>8. /\ uses' \in [Tokens -> Nat] /\ uses'[t] = 1
        /\ \A s \in Tokens : s # t => uses'[s] = uses[s]
    BY <1>0, <1>4, <2>4, <2>7 DEF TokensInv
  <2>9. StoreOfMinted'
    <3>1. store' \subseteq [token : 1..minted', owner : Operators, expires : Nat]
      BY <1>0, <1>1, <1>3 DEF TokensInv, StoreOfMinted
    <3>2. ASSUME NEW s \in Tokens, minted < s PROVE uses'[s] = 0
      <4>1. s # t
        BY <1>0, <3>2 DEF TokensInv, Tokens
      <4> QED
        BY <1>0, <2>8, <3>2, <4>1 DEF TokensInv, StoreOfMinted
    <3> QED
      BY <1>1, <3>1, <3>2 DEF StoreOfMinted
  <2>10. TokenBindsOnce'
    <3>1. ASSUME NEW s \in Tokens PROVE uses'[s] <= 1
      BY <1>0, <2>8 DEF TokensInv, TokenBindsOnce
    <3>2. ASSUME NEW d \in store' PROVE uses'[d.token] = 0
      BY <1>0, <1>3, <2>8 DEF TokensInv, TokenBindsOnce
    <3> QED
      BY <3>1, <3>2 DEF TokenBindsOnce
  <2>11. TokensInv'
    BY <1>0, <1>1, <1>3, <2>8, <2>9, <2>10 DEF TokensInv
  <2> QED
    BY <1>2, <2>6, <2>11, IInvPartsNext
<1> QED
  BY <1>5, <1>6 DEF Start

LEMMA RestartKeeps ==
  ASSUME IInv, Restart
  PROVE  IInv'
<1>0. GymInv /\ TokensInv /\ ChatsInv /\ RecordsInv
  BY IInvParts
<1>1. store' = {} /\ UNCHANGED <<now, minted, chat, alert, booking, uses, acked, canceller>>
  BY DEF Restart
<1>2. GymInv' /\ Accounts' = Accounts /\ account' = account /\ registered' = registered
  BY <1>0, RotateKeyKeepsTogether, GymFrame DEF Restart, RotateKey
<1>3. TokensInv'
  BY <1>0, <1>1 DEF TokensInv, StoreOfMinted, TokenBindsOnce
<1>4. ChatsInv' /\ RecordsInv'
  BY <1>0, <1>1, <1>2, ChatsFrame, RecordsFrame DEF Accounts
<1> QED
  BY <1>2, <1>3, <1>4, IInvPartsNext

LEMMA ClockKeeps ==
  ASSUME IInv, Clock
  PROVE  IInv'
<1> USE TelegramAssumption
<1>0. GymInv /\ TokensInv /\ ChatsInv /\ RecordsInv
  BY IInvParts
<1>1. /\ UNCHANGED gymVars /\ now' = now + 1 /\ now < MaxNow
      /\ UNCHANGED <<minted, store, chat, alert, booking, uses, acked, canceller>>
  BY DEF Clock
<1>2. GymInv' /\ ChatsInv' /\ RecordsInv'
  BY <1>0, <1>1, GymFrame, ChatsFrame, RecordsFrame DEF Accounts
<1>3. now \in Nat /\ now' \in 0..MaxNow
  BY <1>0, <1>1 DEF TokensInv
<1>4. \A e \in store : e.expires <= now' + Ttl
  <2> SUFFICES ASSUME NEW e \in store PROVE e.expires <= now' + Ttl
    OBVIOUS
  <2>1. e.expires \in Nat
    BY <1>0 DEF TokensInv, StoreOfMinted
  <2>2. e.expires <= now + Ttl
    BY <1>0 DEF TokensInv
  <2> QED
    BY <1>1, <1>3, <2>1, <2>2
<1>5. StoreOfMinted' /\ TokenBindsOnce'
  BY <1>0, <1>1 DEF TokensInv, StoreOfMinted, TokenBindsOnce
<1>6. TokensInv'
  BY <1>0, <1>1, <1>3, <1>4, <1>5 DEF TokensInv
<1> QED
  BY <1>2, <1>6, IInvPartsNext

-----------------------------------------------------------------------------
(* The chats and what they ask for. *)

LEMMA UnbindKeeps ==
  ASSUME IInv, NEW o \in registered, Unbind(o)
  PROVE  IInv'
<1>0. GymInv /\ TokensInv /\ ChatsInv /\ RecordsInv
  BY IInvParts
<1>1. /\ UNCHANGED gymVars /\ chat' = [chat EXCEPT ![o] = NoOwner]
      /\ UNCHANGED <<now, minted, store, alert, booking, uses, acked, canceller>>
  BY DEF Unbind
<1>2. GymInv' /\ TokensInv' /\ RecordsInv' /\ registered' = registered
  BY <1>0, <1>1, GymFrame, TokensFrame, RecordsFrame DEF Accounts
<1>3. ChatsInv'
  BY <1>0, <1>1, <1>2 DEF ChatsInv
<1> QED
  BY <1>2, <1>3, IInvPartsNext

\* Only what the operator of the chat owns is cancelled, and laid to him.
LEMMA CancelKeeps ==
  ASSUME IInv, NEW o \in Operators, NEW i \in Accounts, Cancel(o, i)
  PROVE  IInv'
<1>0. GymInv /\ TokensInv /\ ChatsInv /\ RecordsInv
  BY IInvParts
<1>1. UNCHANGED gymVars /\ UNCHANGED <<now, minted, store, chat, alert, uses, acked>>
  BY DEF Cancel
<1>2. /\ GymInv' /\ TokensInv' /\ ChatsInv'
      /\ Accounts' = Accounts /\ account' = account
  BY <1>0, <1>1, GymFrame, TokensFrame, ChatsFrame
<1>3. CASE UNCHANGED <<booking, canceller>>
  BY <1>0, <1>1, <1>2, <1>3, RecordsFrame, IInvPartsNext DEF Accounts
<1>4. CASE /\ i \in Owned(o) /\ booking' = [booking EXCEPT ![i] = "cancelled"]
           /\ canceller' = [canceller EXCEPT ![i] = o]
  <2>1. account[i].owner = o /\ i \in 1..MaxAccounts
    BY <1>4 DEF Owned, Accounts
  <2>2. /\ booking' \in [1..MaxAccounts -> {"granted", "cancelled"}]
        /\ canceller' \in [1..MaxAccounts -> Operators \cup {NoOwner}]
        /\ canceller'[i] = o
        /\ \A j \in 1..MaxAccounts : j # i => canceller'[j] = canceller[j]
    BY <1>0, <1>4, <2>1 DEF RecordsInv
  <2>3. NoTraceLeft'
    BY <1>0, <1>2, <2>2 DEF RecordsInv, NoTraceLeft
  <2>4. CancelReachesOwn'
    <3> SUFFICES ASSUME NEW j \in Accounts, canceller'[j] # NoOwner
                 PROVE  account[j].owner = canceller'[j]
      BY <1>2 DEF CancelReachesOwn
    <3>1. j \in 1..MaxAccounts
      BY DEF Accounts
    <3> QED
      BY <1>0, <2>1, <2>2, <3>1 DEF RecordsInv, CancelReachesOwn
  <2>5. RecordsInv'
    BY <1>0, <1>1, <1>2, <2>2, <2>3, <2>4 DEF RecordsInv
  <2> QED
    BY <1>2, <2>5, IInvPartsNext
<1> QED
  BY <1>3, <1>4 DEF Cancel, Cancellable

LEMMA AckKeeps ==
  ASSUME IInv, NEW o \in Operators, Ack(o)
  PROVE  IInv'
<1>0. GymInv /\ TokensInv /\ ChatsInv /\ RecordsInv
  BY IInvParts
<1>1. UNCHANGED gymVars /\ UNCHANGED <<now, minted, store, chat, booking, uses, canceller>>
  BY DEF Ack
<1>2. /\ GymInv' /\ TokensInv' /\ ChatsInv'
      /\ Accounts' = Accounts /\ account' = account
  BY <1>0, <1>1, GymFrame, TokensFrame, ChatsFrame
<1>3. /\ alert' \in [1..MaxAccounts -> {"none", "open", "acknowledged"}]
      /\ acked' \in [1..MaxAccounts -> Operators \cup {NoOwner}]
      /\ \A j \in 1..MaxAccounts : alert[j] = "none" => alert'[j] = "none"
  BY <1>0 DEF Ack, Acknowledge, RecordsInv
<1>4. RecordsInv'
  BY <1>0, <1>1, <1>2, <1>3 DEF RecordsInv, NoTraceLeft, CancelReachesOwn
<1> QED
  BY <1>2, <1>4, IInvPartsNext

LEMMA AnswerKeeps ==
  ASSUME IInv, Answer
  PROVE  IInv'
<1>0. GymInv /\ TokensInv /\ ChatsInv /\ RecordsInv
  BY IInvParts
<1>1. UNCHANGED <<gymVars, now, minted, store, chat, alert, booking, uses, acked, canceller>>
  BY DEF Answer, vars, chatVars
<1> QED
  BY <1>0, <1>1, GymFrame, TokensFrame, ChatsFrame, RecordsFrame, IInvPartsNext DEF Accounts

\* A command is carried out for the operator of the chat, or for nobody.
LEMMA HandleCases ==
  ASSUME NEW u, Handle(u)
  PROVE  \/ Answer
         \/ u.cmd = "start" /\ Start(u.chat, u.arg)
         \/ u.cmd = "cancel" /\ \E o \in Operators : Cancel(o, u.arg)
         \/ \E o \in Operators : Ack(o)
<1>1. Bound(u.chat) \subseteq Operators
  BY DEF Bound
<1> QED
  BY <1>1 DEF Handle

LEMMA CommandsKeep ==
  ASSUME IInv, Commands
  PROVE  IInv'
<1>1. PICK c \in Chats :
        \/ \E t \in 1..minted : Handle([chat |-> c, cmd |-> "start", arg |-> t])
        \/ \E i \in Accounts : Handle([chat |-> c, cmd |-> "cancel", arg |-> i])
        \/ Handle([chat |-> c, cmd |-> "ack", arg |-> NoOwner])
  BY DEF Commands
<1>2. CASE Answer
  BY <1>2, AnswerKeeps
<1>3. CASE \E o \in Operators : Ack(o)
  BY <1>3, AckKeeps
<1>4. ASSUME NEW t \in 1..minted, Handle([chat |-> c, cmd |-> "start", arg |-> t]) PROVE IInv'
  <2>1. Answer \/ Start(c, t) \/ \E o \in Operators : Ack(o)
    BY <1>4, HandleCases
  <2> QED
    BY <1>2, <1>3, <2>1, StartKeeps
<1>5. ASSUME NEW i \in Accounts, Handle([chat |-> c, cmd |-> "cancel", arg |-> i]) PROVE IInv'
  <2>1. Answer \/ \E o \in Operators : Cancel(o, i) \/ Ack(o)
    BY <1>5, HandleCases
  <2> QED
    BY <1>2, <1>3, <2>1, CancelKeeps
<1>6. ASSUME Handle([chat |-> c, cmd |-> "ack", arg |-> NoOwner]) PROVE IInv'
  <2>1. Answer \/ \E o \in Operators : Ack(o)
    BY <1>6, HandleCases
  <2> QED
    BY <1>2, <1>3, <2>1
<1> QED
  BY <1>1, <1>4, <1>5, <1>6

-----------------------------------------------------------------------------
(* The accounts under the chats. *)

LEMMA AlarmKeeps ==
  ASSUME IInv, NEW i \in 1..MaxAccounts, Alarm(i)
  PROVE  IInv'
<1>0. GymInv /\ TokensInv /\ ChatsInv /\ RecordsInv
  BY IInvParts
<1>1. /\ UNCHANGED gymVars /\ i \in Accounts /\ alert' = [alert EXCEPT ![i] = "open"]
      /\ UNCHANGED <<now, minted, store, chat, booking, uses, acked, canceller>>
  BY DEF Alarm
<1>2. /\ GymInv' /\ TokensInv' /\ ChatsInv'
      /\ Accounts' = Accounts /\ account' = account
  BY <1>0, <1>1, GymFrame, TokensFrame, ChatsFrame
<1>3. /\ alert' \in [1..MaxAccounts -> {"none", "open", "acknowledged"}]
      /\ \A j \in 1..MaxAccounts \ Accounts : alert'[j] = "none"
  BY <1>0, <1>1 DEF RecordsInv
<1>4. RecordsInv'
  BY <1>0, <1>1, <1>2, <1>3 DEF RecordsInv, NoTraceLeft, CancelReachesOwn
<1> QED
  BY <1>2, <1>4, IInvPartsNext

\* Sweep empties some of the alerts and of their marks.
LEMMA SweepTypes ==
  ASSUME RecordsInv, NEW closed, Sweep(closed)
  PROVE  /\ alert' \in [1..MaxAccounts -> {"none", "open", "acknowledged"}]
         /\ acked' \in [1..MaxAccounts -> Operators \cup {NoOwner}]
         /\ \A i \in 1..MaxAccounts : i \in closed \/ alert[i] = "none" => alert'[i] = "none"
  BY DEF RecordsInv, Sweep

LEMMA PasteAndCloseKeeps ==
  ASSUME IInv, NEW o \in registered, NEW cookie \in Cookies, PasteAndClose(o, cookie)
  PROVE  IInv'
<1>0. GymInv /\ TokensInv /\ ChatsInv /\ RecordsInv
  BY IInvParts
<1>1. /\ Paste(o, cookie) /\ Sweep(Owned(o)) /\ registered' = registered
      /\ UNCHANGED <<now, minted, store, chat, booking, uses, canceller>>
  BY DEF PasteAndClose, Paste
<1>2. GymInv' /\ \A i \in Accounts : i \in Accounts' /\ account'[i].owner = account[i].owner
  BY <1>0, <1>1, PasteKeepsTogether
<1>3. TokensInv' /\ ChatsInv'
  BY <1>0, <1>1, TokensFrame, ChatsFrame
<1>4. /\ alert' \in [1..MaxAccounts -> {"none", "open", "acknowledged"}]
      /\ acked' \in [1..MaxAccounts -> Operators \cup {NoOwner}]
      /\ \A i \in 1..MaxAccounts : alert[i] = "none" => alert'[i] = "none"
  BY <1>0, <1>1, SweepTypes
<1>5. \A i \in 1..MaxAccounts \ Accounts' : i \notin Accounts
  BY <1>2
<1>6. NoTraceLeft'
  BY <1>0, <1>1, <1>5 DEF RecordsInv, NoTraceLeft
<1>7. CancelReachesOwn'
  <2> SUFFICES ASSUME NEW i \in Accounts', canceller[i] # NoOwner
               PROVE  account'[i].owner = canceller[i]
    BY <1>1 DEF CancelReachesOwn
  <2>1. i \in Accounts
    BY <1>0 DEF RecordsInv, NoTraceLeft, Accounts
  <2> QED
    BY <1>0, <1>2, <2>1 DEF RecordsInv, CancelReachesOwn
<1>8. RecordsInv'
  BY <1>0, <1>1, <1>4, <1>5, <1>6, <1>7 DEF RecordsInv
<1> QED
  BY <1>2, <1>3, <1>8, IInvPartsNext

LEMMA RefreshKeeps ==
  ASSUME IInv, NEW o \in registered, Refresh(o), UNCHANGED chatVars
  PROVE  IInv'
<1>0. GymInv /\ TokensInv /\ ChatsInv /\ RecordsInv
  BY IInvParts
<1>1. UNCHANGED <<now, minted, store, chat, alert, booking, uses, acked, canceller, registered>>
  BY DEF chatVars, Refresh
<1>2. GymInv' /\ \A i \in Accounts : i \in Accounts' /\ account'[i].owner = account[i].owner
  BY <1>0, RefreshKeepsTogether
<1>3. Accounts' \subseteq 1..MaxAccounts
  BY DEF Accounts
<1>4. TokensInv' /\ ChatsInv' /\ RecordsInv'
  BY <1>0, <1>1, <1>2, <1>3, TokensFrame, ChatsFrame, RecordsFrame
<1> QED
  BY <1>2, <1>4, IInvPartsNext

\* With the operator go his accounts and all that is kept by them.
LEMMA DeletionKeeps ==
  ASSUME IInv, NEW o \in registered, Deletion(o)
  PROVE  IInv'
<1>0. GymInv /\ TokensInv /\ ChatsInv /\ RecordsInv
  BY IInvParts
<1>1. /\ DeleteOperator(o) /\ Sweep(Owned(o)) /\ registered' = registered \ {o}
      /\ canceller' = [i \in 1..MaxAccounts |-> IF i \in Owned(o) THEN NoOwner ELSE canceller[i]]
      /\ chat' = [chat EXCEPT ![o] = NoOwner]
      /\ UNCHANGED <<now, minted, store, booking, uses>>
  BY DEF Deletion, DeleteOperator
<1>2. /\ GymInv' /\ Accounts' = Accounts \ Owned(o)
      /\ \A i \in Accounts' : account'[i] = account[i]
  BY <1>0, <1>1, DeleteOperatorKeepsTogether
<1>3. TokensInv'
  BY <1>0, <1>1, TokensFrame
<1>4. ChatsInv'
  BY <1>0, <1>1 DEF ChatsInv
<1>5. /\ alert' \in [1..MaxAccounts -> {"none", "open", "acknowledged"}]
      /\ acked' \in [1..MaxAccounts -> Operators \cup {NoOwner}]
      /\ \A i \in 1..MaxAccounts : i \in Owned(o) \/ alert[i] = "none" => alert'[i] = "none"
  BY <1>0, <1>1, SweepTypes
<1>6. /\ canceller' \in [1..MaxAccounts -> Operators \cup {NoOwner}]
      /\ \A i \in 1..MaxAccounts :
           canceller'[i] = IF i \in Owned(o) THEN NoOwner ELSE canceller[i]
  BY <1>0, <1>1 DEF RecordsInv
<1>7. \A i \in 1..MaxAccounts \ Accounts' : i \in Owned(o) \/ i \notin Accounts
  BY <1>2
<1>8. NoTraceLeft'
  BY <1>0, <1>6, <1>7 DEF RecordsInv, NoTraceLeft
<1>9. CancelReachesOwn'
  BY <1>0, <1>2, <1>6 DEF RecordsInv, CancelReachesOwn, Accounts
<1>10. \A i \in 1..MaxAccounts \ Accounts' : alert'[i] = "none"
  BY <1>0, <1>5, <1>7 DEF RecordsInv
<1>11. RecordsInv'
  BY <1>0, <1>1, <1>5, <1>6, <1>8, <1>9, <1>10 DEF RecordsInv
<1> QED
  BY <1>2, <1>3, <1>4, <1>11, IInvPartsNext

-----------------------------------------------------------------------------
(* The theorems. *)

\* The invariant is inductive.
LEMMA IInvIsInductive == IInv /\ [Next]_vars => IInv'
<1> SUFFICES ASSUME IInv, [Next]_vars PROVE IInv'
  OBVIOUS
<1>1. ASSUME NEW o \in registered, Site(o) PROVE IInv'
  <2>1. CASE \E cookie \in Cookies : PasteAndClose(o, cookie)
    BY <2>1, PasteAndCloseKeeps
  <2>2. CASE Refresh(o) /\ UNCHANGED chatVars
    BY <2>2, RefreshKeeps
  <2>3. CASE Generate(o)
    BY <2>3, GenerateKeeps
  <2>4. CASE Unbind(o)
    BY <2>4, UnbindKeeps
  <2>5. CASE Deletion(o)
    BY <2>5, DeletionKeeps
  <2> QED
    BY <1>1, <2>1, <2>2, <2>3, <2>4, <2>5 DEF Site
<1>2. CASE Commands
  BY <1>2, CommandsKeep
<1>3. CASE Restart
  BY <1>3, RestartKeeps
<1>4. CASE Clock
  BY <1>4, ClockKeeps
<1>5. CASE \E i \in 1..MaxAccounts : Alarm(i)
  BY <1>5, AlarmKeeps
<1>6. CASE UNCHANGED vars
  BY <1>6, AnswerKeeps DEF Answer
<1> QED
  BY <1>1, <1>2, <1>3, <1>4, <1>5, <1>6 DEF Next

\* IInv holds in every reachable state.
THEOREM SpecIInv == Spec => []IInv
  BY InitIInv, IInvIsInductive, PTL DEF Spec

\* The accounts of an operator stay one per gym, with one cookie readable
\* everywhere or nowhere, through pastes, sign-ins that find more gyms, failed
\* discoveries, deletions and new keys (gyms/service.py).
THEOREM SpecGymsTogether == Spec => []GymsTogether
<1>1. IInv => GymsTogether
  BY DEF IInv, GymInv, GymsTogether
<1> QED
  BY <1>1, SpecIInv, PTL

\* A token binds a chat at most once, however often Telegram delivers the
\* update (TelegramBindStore.consume).
THEOREM SpecTokenBindsOnce == Spec => []TokenBindsOnce
<1>1. IInv => TokenBindsOnce
  BY DEF IInv
<1> QED
  BY <1>1, SpecIInv, PTL

\* A chat cancels bookings of the operator it is bound to and of nobody else,
\* whatever accounts come and go (resolve_owner_gym_account).
THEOREM SpecCancelReachesOwn == Spec => []CancelReachesOwn
<1>1. IInv => CancelReachesOwn
  BY DEF IInv
<1> QED
  BY <1>1, SpecIInv, PTL

=============================================================================
