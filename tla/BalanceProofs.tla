--------------------------- MODULE BalanceProofs ---------------------------
(***************************************************************************)
(* What a balance reply names, for any number of concurrent saves,         *)
(* deletions, imports and restarts, and any number of keys.                *)
(***************************************************************************)
EXTENDS Balance, CredentialsProofs, SequenceTheorems

Outcomes == {"pending", "ok", "error"}

\* Nothing is left of an earlier request.
IdleIsBlank == phase = "idle" => toBuild = <<>> /\ built = <<>> /\ results = <<>> /\ reply = NoReply

\* A reply ends the request.
RepliedOnce == reply.status # "none" => phase = "replied"

\* What is built and what is still to be built are in order, the one before
\* the other, and leave out no broker that has stayed connected.
ListInOrder ==
    /\ Ordered(built) /\ Ordered(toBuild)
    /\ \A m \in 1..Len(built), n \in 1..Len(toBuild) : Rank[built[m]] < Rank[toBuild[n]]

ListIsComplete ==
    /\ phase \in {"build", "fetch"} =>
          /\ alwaysConnected \subseteq ToSet(built) \union ToSet(toBuild)
          /\ ToSet(built) \union ToSet(toBuild) \subseteq everConnected
    /\ phase = "build" => alwaysConnected \subseteq Connected
    /\ phase = "fetch" => toBuild = <<>>

\* The inductive invariant, beside that of the credentials.
ListInv == TypeOK /\ IdleIsBlank /\ RepliedOnce /\ ListInOrder /\ ListIsComplete /\ ReplyCoversConnected
BInv == CInv /\ ListInv

-----------------------------------------------------------------------------
(* Lists of brokers. *)

LEMMA OrderedConcat ==
    ASSUME NEW a \in Seq(Brokers), NEW b \in Seq(Brokers), Ordered(a), Ordered(b),
           \A x \in ToSet(a), y \in ToSet(b) : Rank[x] < Rank[y]
    PROVE  a \o b \in Seq(Brokers) /\ Ordered(a \o b) /\ ToSet(a \o b) = ToSet(a) \union ToSet(b)
<1>1. /\ a \o b \in Seq(Brokers) /\ Len(a \o b) = Len(a) + Len(b)
      /\ Len(a) \in Nat /\ Len(b) \in Nat
      /\ \A n \in 1..Len(a) + Len(b) : (a \o b)[n] = IF n <= Len(a) THEN a[n] ELSE b[n - Len(a)]
  BY ConcatProperties
<1>2. ASSUME NEW m \in 1..Len(a \o b), NEW n \in 1..Len(a \o b), m < n
      PROVE  Rank[(a \o b)[m]] < Rank[(a \o b)[n]]
  <2>1. CASE n <= Len(a)
    BY <1>1, <1>2, <2>1 DEF Ordered
  <2>2. CASE m > Len(a)
    <3>1. /\ m - Len(a) \in 1..Len(b) /\ n - Len(a) \in 1..Len(b) /\ m - Len(a) < n - Len(a)
          /\ (a \o b)[m] = b[m - Len(a)] /\ (a \o b)[n] = b[n - Len(a)]
      BY <1>1, <1>2, <2>2
    <3> QED
      BY <3>1 DEF Ordered
  <2>3. CASE m <= Len(a) /\ n > Len(a)
    <3>1. /\ m \in 1..Len(a) /\ n - Len(a) \in 1..Len(b)
          /\ (a \o b)[m] = a[m] /\ (a \o b)[n] = b[n - Len(a)]
      BY <1>1, <2>3
    <3>2. a[m] \in ToSet(a) /\ b[n - Len(a)] \in ToSet(b)
      BY <3>1 DEF ToSet
    <3> QED
      BY <3>1, <3>2
  <2> QED
    BY <1>1, <2>1, <2>2, <2>3
<1>3. ASSUME NEW x \in ToSet(a \o b)
      PROVE  x \in ToSet(a) \union ToSet(b)
  <2>1. PICK n \in 1..Len(a) + Len(b) : x = (a \o b)[n]
    BY <1>1 DEF ToSet
  <2>2. CASE n <= Len(a)
    BY <1>1, <2>1, <2>2 DEF ToSet
  <2>3. CASE n > Len(a)
    <3>1. n - Len(a) \in 1..Len(b) /\ x = b[n - Len(a)]
      BY <1>1, <2>1, <2>3
    <3> QED
      BY <3>1 DEF ToSet
  <2> QED
    BY <1>1, <2>2, <2>3
<1>4. ASSUME NEW x \in ToSet(a)
      PROVE  x \in ToSet(a \o b)
  <2>1. PICK n \in 1..Len(a) : x = a[n]
    BY DEF ToSet
  <2>2. n \in 1..Len(a) + Len(b) /\ (a \o b)[n] = x
    BY <1>1, <2>1
  <2> QED
    BY <1>1, <2>2 DEF ToSet
<1>5. ASSUME NEW x \in ToSet(b)
      PROVE  x \in ToSet(a \o b)
  <2>1. PICK n \in 1..Len(b) : x = b[n]
    BY DEF ToSet
  <2>2. n + Len(a) \in 1..Len(a) + Len(b) /\ (a \o b)[n + Len(a)] = x
    BY <1>1, <2>1
  <2> QED
    BY <1>1, <2>2 DEF ToSet
<1> QED
  BY <1>1, <1>2, <1>3, <1>4, <1>5 DEF Ordered

LEMMA InOrderLists ==
    ASSUME NEW brokers \in SUBSET Brokers
    PROVE  /\ InOrder(brokers) \in Seq(Brokers) /\ Ordered(InOrder(brokers))
           /\ ToSet(InOrder(brokers)) = brokers
<1> DEFINE only(b) == IF b \in brokers THEN <<b>> ELSE <<>>
           last == only("oanda") \o only("questrade")
<1>1. ASSUME NEW b \in Brokers
      PROVE  /\ only(b) \in Seq(Brokers) /\ Ordered(only(b)) /\ ToSet(only(b)) = brokers \intersect {b}
  <2>1. CASE b \in brokers
    <3>1. only(b) = <<b>>
      BY <2>1
    <3>2. <<b>> \in Seq(Brokers) /\ Ordered(<<b>>) /\ ToSet(<<b>>) = {b}
      BY DEF Ordered, ToSet
    <3> QED
      BY <2>1, <3>1, <3>2
  <2>2. CASE b \notin brokers
    <3>1. only(b) = <<>>
      BY <2>2
    <3>2. <<>> \in Seq(Brokers) /\ Ordered(<<>>) /\ ToSet(<<>>) = {}
      BY DEF Ordered, ToSet
    <3> QED
      BY <2>2, <3>1, <3>2
  <2> QED
    BY <2>1, <2>2
<1>2. /\ "alpaca" \in Brokers /\ "oanda" \in Brokers /\ "questrade" \in Brokers
      /\ Rank["alpaca"] = 1 /\ Rank["oanda"] = 2 /\ Rank["questrade"] = 3
      /\ Brokers = {"alpaca", "oanda", "questrade"}
  BY DEF Brokers, Rank
<1>3. InOrder(brokers) = only("alpaca") \o last
  BY DEF InOrder
<1> HIDE DEF only
<1>4. last \in Seq(Brokers) /\ Ordered(last) /\ ToSet(last) = brokers \intersect {"oanda", "questrade"}
  <2>1. \A x \in ToSet(only("oanda")), y \in ToSet(only("questrade")) : Rank[x] < Rank[y]
    BY <1>1, <1>2
  <2>2. /\ only("oanda") \in Seq(Brokers) /\ Ordered(only("oanda"))
        /\ only("questrade") \in Seq(Brokers) /\ Ordered(only("questrade"))
        /\ ToSet(only("oanda")) = brokers \intersect {"oanda"}
        /\ ToSet(only("questrade")) = brokers \intersect {"questrade"}
    BY <1>1, <1>2
  <2>3. last \in Seq(Brokers) /\ Ordered(last) /\ ToSet(last) = ToSet(only("oanda")) \union ToSet(only("questrade"))
    BY <2>1, <2>2, OrderedConcat
  <2> QED
    BY <2>2, <2>3
<1> HIDE DEF last
<1>5. /\ only("alpaca") \o last \in Seq(Brokers) /\ Ordered(only("alpaca") \o last)
      /\ ToSet(only("alpaca") \o last) = (brokers \intersect {"alpaca"}) \union (brokers \intersect {"oanda", "questrade"})
  <2>1. \A x \in ToSet(only("alpaca")), y \in ToSet(last) : Rank[x] < Rank[y]
    BY <1>1, <1>2, <1>4
  <2>2. /\ only("alpaca") \in Seq(Brokers) /\ Ordered(only("alpaca"))
        /\ ToSet(only("alpaca")) = brokers \intersect {"alpaca"}
    BY <1>1, <1>2
  <2> QED
    BY <1>4, <2>1, <2>2, OrderedConcat
<1> QED
  BY <1>2, <1>3, <1>5

\* The first of a list is taken off it.
LEMMA ListTaken ==
    ASSUME NEW s \in Seq(Brokers), s # <<>>, Ordered(s)
    PROVE  /\ Head(s) \in Brokers /\ Tail(s) \in Seq(Brokers) /\ Ordered(Tail(s))
           /\ Head(s) = s[1] /\ 1 \in 1..Len(s)
           /\ \A n \in 1..Len(Tail(s)) : n + 1 \in 1..Len(s) /\ Tail(s)[n] = s[n + 1]
           /\ ToSet(s) = {Head(s)} \union ToSet(Tail(s))
<1>1. /\ Head(s) \in Brokers /\ Tail(s) \in Seq(Brokers) /\ Len(Tail(s)) = Len(s) - 1 /\ Len(s) \in Nat \ {0}
      /\ Head(s) = s[1] /\ \A n \in 1..Len(Tail(s)) : Tail(s)[n] = s[n + 1]
  BY HeadTailProperties
<1>2. Ordered(Tail(s))
  BY <1>1 DEF Ordered
<1>3. ASSUME NEW x \in ToSet(s)
      PROVE  x \in {Head(s)} \union ToSet(Tail(s))
  <2>1. PICK n \in 1..Len(s) : x = s[n]
    BY DEF ToSet
  <2>2. CASE n = 1
    BY <1>1, <2>1, <2>2
  <2>3. CASE n # 1
    <3>1. n - 1 \in 1..Len(Tail(s)) /\ Tail(s)[n - 1] = x
      BY <1>1, <2>1, <2>3
    <3> QED
      BY <3>1 DEF ToSet
  <2> QED
    BY <2>2, <2>3
<1>4. ASSUME NEW x \in ToSet(Tail(s))
      PROVE  x \in ToSet(s)
  <2>1. PICK n \in 1..Len(Tail(s)) : x = Tail(s)[n]
    BY <1>1 DEF ToSet
  <2>2. n + 1 \in 1..Len(s) /\ s[n + 1] = x
    BY <1>1, <2>1
  <2> QED
    BY <2>2 DEF ToSet
<1>5. Head(s) \in ToSet(s)
  BY <1>1 DEF ToSet
<1> QED
  BY <1>1, <1>2, <1>3, <1>4, <1>5

LEMMA ListExtended ==
    ASSUME NEW s \in Seq(Brokers), NEW b \in Brokers
    PROVE  /\ Append(s, b) \in Seq(Brokers) /\ Len(Append(s, b)) = Len(s) + 1 /\ Len(s) \in Nat
           /\ \A n \in 1..Len(s) : Append(s, b)[n] = s[n]
           /\ Append(s, b)[Len(s) + 1] = b
           /\ ToSet(Append(s, b)) = ToSet(s) \union {b}
<1>1. /\ Append(s, b) \in Seq(Brokers) /\ Len(Append(s, b)) = Len(s) + 1 /\ Len(s) \in Nat
      /\ \A n \in 1..Len(s) : Append(s, b)[n] = s[n]
      /\ Append(s, b)[Len(s) + 1] = b
  BY AppendProperties
<1>2. ASSUME NEW x \in ToSet(Append(s, b))
      PROVE  x \in ToSet(s) \union {b}
  <2>1. PICK n \in 1..Len(s) + 1 : x = Append(s, b)[n]
    BY <1>1 DEF ToSet
  <2>2. CASE n = Len(s) + 1
    BY <1>1, <2>1, <2>2
  <2>3. CASE n # Len(s) + 1
    <3>1. n \in 1..Len(s) /\ x = s[n]
      BY <1>1, <2>1, <2>3
    <3> QED
      BY <3>1 DEF ToSet
  <2> QED
    BY <2>2, <2>3
<1>3. ASSUME NEW x \in ToSet(s)
      PROVE  x \in ToSet(Append(s, b))
  <2>1. PICK n \in 1..Len(s) : x = s[n]
    BY DEF ToSet
  <2>2. n \in 1..Len(s) + 1 /\ Append(s, b)[n] = x
    BY <1>1, <2>1
  <2> QED
    BY <1>1, <2>2 DEF ToSet
<1>4. b \in ToSet(Append(s, b))
  <2>1. Len(s) + 1 \in 1..Len(s) + 1
    BY <1>1
  <2> QED
    BY <1>1, <2>1 DEF ToSet
<1> QED
  BY <1>1, <1>2, <1>3, <1>4

-----------------------------------------------------------------------------
(* The steps of the request. *)

LEMMA InitBInv == Init => BInv
<1> SUFFICES ASSUME Init PROVE BInv
  OBVIOUS
<1>1. CInv
  BY InitCInv DEF Init
<1>2. toBuild = <<>> /\ built = <<>> /\ results = <<>> /\ Len(built) = 0 /\ Len(toBuild) = 0
  BY DEF Init, BalanceInit
<1>3. results \in [1..Len(built) -> Outcomes]
  BY <1>2
<1>4. TypeOK
  BY <1>1, <1>2, <1>3 DEF Init, BalanceInit, TypeOK, NoReply, CInv, Outcomes
<1>5. ListInOrder
  BY <1>2 DEF ListInOrder, Ordered
<1> QED
  BY <1>1, <1>2, <1>4, <1>5 DEF Init, BalanceInit, BInv, ListInv, IdleIsBlank, RepliedOnce, ListIsComplete,
     ReplyCoversConnected, NoReply

\* The credentials are not the handler's to change.
LEMMA CInvKept ==
    ASSUME CInv, UNCHANGED credentialVars
    PROVE  CInv' /\ Connected' = Connected
<1>1. CInv'
  BY NextCInv
<1> QED
  BY <1>1 DEF Connected, credentialVars

\* A failure ends the request at any step.
LEMMA ReplyFails ==
    ASSUME BInv, Reply(Failure), UNCHANGED credentialVars,
           everConnected' \in SUBSET Brokers, alwaysConnected' \in SUBSET everConnected'
    PROVE  BInv'
<1>1. /\ reply'.status = "500" /\ phase' = "replied" /\ UNCHANGED <<toBuild, built, results>>
  BY DEF Reply, Failure
<1>2. CInv'
  BY CInvKept DEF BInv
<1>3. TypeOK'
  BY <1>1, <1>2 DEF BInv, ListInv, TypeOK, CInv
<1>4. ListInOrder'
  BY <1>1 DEF BInv, ListInv, ListInOrder, Ordered
<1> QED
  BY <1>1, <1>2, <1>3, <1>4 DEF BInv, ListInv, IdleIsBlank, RepliedOnce, ListIsComplete, ReplyCoversConnected

LEMMA ListConnectedBrokersInv == BInv /\ ListConnectedBrokers => BInv'
<1> SUFFICES ASSUME BInv, ListConnectedBrokers PROVE BInv'
  OBVIOUS
<1>1. /\ phase = "idle" /\ everConnected' = Connected /\ alwaysConnected' = Connected /\ UNCHANGED credentialVars
      /\ Connected \in SUBSET Brokers
  BY DEF ListConnectedBrokers, Connected
<1>2. CASE Reply(Failure)
  BY <1>1, <1>2, ReplyFails
<1>3. CASE ~Reply(Failure)
  <2>1. phase' = "build" /\ toBuild' = InOrder(Connected) /\ UNCHANGED <<built, results, reply>>
    BY <1>3 DEF ListConnectedBrokers
  <2>2. built = <<>> /\ Len(built) = 0 /\ ToSet(built) = {} /\ reply = NoReply
    BY <1>1 DEF BInv, ListInv, IdleIsBlank, ToSet
  <2>3. toBuild' \in Seq(Brokers) /\ Ordered(toBuild') /\ ToSet(toBuild') = Connected
    BY <1>1, <2>1, InOrderLists
  <2>4. CInv' /\ Connected' = Connected
    BY <1>1, CInvKept DEF BInv
  <2>5. TypeOK'
    BY <1>1, <2>1, <2>3, <2>4 DEF BInv, ListInv, TypeOK, CInv
  <2>6. ListInOrder'
    BY <2>1, <2>2, <2>3 DEF ListInOrder, Ordered
  <2>7. ListIsComplete'
    BY <1>1, <2>1, <2>2, <2>3, <2>4 DEF ListIsComplete
  <2> QED
    BY <2>1, <2>2, <2>4, <2>5, <2>6, <2>7
       DEF BInv, ListInv, IdleIsBlank, RepliedOnce, ReplyCoversConnected, NoReply
<1> QED
  BY <1>2, <1>3

LEMMA BuildNextInv == BInv /\ BuildNext => BInv'
<1> SUFFICES ASSUME BInv, BuildNext PROVE BInv'
  OBVIOUS
<1> DEFINE b == Head(toBuild)
<1>1. phase = "build" /\ toBuild # <<>> /\ UNCHANGED <<credentialVars, everConnected, alwaysConnected>>
  BY DEF BuildNext
<1>2. toBuild \in Seq(Brokers) /\ built \in Seq(Brokers) /\ Ordered(toBuild) /\ Ordered(built)
  BY DEF BInv, ListInv, TypeOK, ListInOrder
<1>3. /\ b \in Brokers /\ Tail(toBuild) \in Seq(Brokers) /\ Ordered(Tail(toBuild))
      /\ b = toBuild[1] /\ 1 \in 1..Len(toBuild)
      /\ \A n \in 1..Len(Tail(toBuild)) : n + 1 \in 1..Len(toBuild) /\ Tail(toBuild)[n] = toBuild[n + 1]
      /\ ToSet(toBuild) = {b} \union ToSet(Tail(toBuild))
  BY <1>1, <1>2, ListTaken
<1>4. CInv' /\ Connected' = Connected
  BY <1>1, CInvKept DEF BInv
<1>5. reply.status = "none"
  BY <1>1 DEF BInv, ListInv, RepliedOnce, TypeOK
<1>6. CASE Reply(Failure)
  BY <1>1, <1>6, ReplyFails DEF BInv, ListInv, TypeOK
<1>7. CASE rows[b] = NoRow /\ toBuild' = Tail(toBuild) /\ UNCHANGED <<phase, built, results, reply>>
  <2>1. TypeOK'
    BY <1>1, <1>3, <1>4, <1>7 DEF BInv, ListInv, TypeOK, CInv
  <2>2. ListInOrder'
    BY <1>2, <1>3, <1>7 DEF BInv, ListInv, ListInOrder, Ordered
  <2>3. b \notin Connected
    BY <1>7 DEF Connected
  <2>4. ListIsComplete'
    BY <1>1, <1>3, <1>4, <1>7, <2>3 DEF BInv, ListInv, ListIsComplete
  <2> QED
    BY <1>1, <1>4, <1>5, <1>7, <2>1, <2>2, <2>4
       DEF BInv, ListInv, IdleIsBlank, RepliedOnce, ReplyCoversConnected
<1>8. CASE /\ toBuild' = Tail(toBuild) /\ built' = Append(built, b) /\ results' = Append(results, "pending")
           /\ UNCHANGED <<phase, reply>>
  <2>1. /\ built' \in Seq(Brokers) /\ Len(built') = Len(built) + 1 /\ Len(built) \in Nat
        /\ \A n \in 1..Len(built) : built'[n] = built[n]
        /\ built'[Len(built) + 1] = b
        /\ ToSet(built') = ToSet(built) \union {b}
    BY <1>2, <1>3, <1>8, ListExtended
  <2>2. results' \in [1..Len(built') -> Outcomes]
    <3>1. results \in Seq(Outcomes) /\ Len(results) = Len(built)
      BY <2>1 DEF BInv, ListInv, TypeOK, Outcomes
    <3>2. results' \in Seq(Outcomes) /\ Len(results') = Len(built')
      BY <1>8, <2>1, <3>1, AppendProperties DEF Outcomes
    <3> QED
      BY <3>2
  <2>3. TypeOK'
    BY <1>1, <1>3, <1>4, <1>8, <2>1, <2>2 DEF BInv, ListInv, TypeOK, CInv, Outcomes
  <2>4. ListInOrder'
    <3>1. \A n \in 1..Len(built) : Rank[built[n]] < Rank[b]
      BY <1>3 DEF BInv, ListInv, ListInOrder
    <3>2. ASSUME NEW n \in 1..Len(Tail(toBuild))
          PROVE  Rank[b] < Rank[Tail(toBuild)[n]]
      BY <1>2, <1>3 DEF Ordered
    <3>3. Ordered(built')
      BY <1>2, <2>1, <3>1 DEF Ordered
    <3>4. ASSUME NEW m \in 1..Len(built'), NEW n \in 1..Len(Tail(toBuild))
          PROVE  Rank[built'[m]] < Rank[Tail(toBuild)[n]]
      <4>1. CASE m = Len(built) + 1
        BY <2>1, <3>2, <4>1
      <4>2. CASE m # Len(built) + 1
        <5>1. m \in 1..Len(built) /\ built'[m] = built[m]
          BY <2>1, <4>2
        <5> QED
          BY <1>3, <5>1 DEF BInv, ListInv, ListInOrder
      <4> QED
        BY <4>1, <4>2
    <3> QED
      BY <1>3, <1>8, <3>3, <3>4 DEF ListInOrder
  <2>5. ListIsComplete'
    BY <1>1, <1>3, <1>4, <1>8, <2>1 DEF BInv, ListInv, ListIsComplete
  <2> QED
    BY <1>1, <1>4, <1>5, <1>8, <2>3, <2>4, <2>5
       DEF BInv, ListInv, IdleIsBlank, RepliedOnce, ReplyCoversConnected
<1> QED
  BY <1>6, <1>7, <1>8 DEF BuildNext

LEMMA FanOutInv == BInv /\ FanOut => BInv'
<1> SUFFICES ASSUME BInv, FanOut PROVE BInv'
  OBVIOUS
<1>1. /\ phase = "build" /\ toBuild = <<>> /\ phase' = "fetch"
      /\ UNCHANGED <<credentialVars, toBuild, built, results, reply, everConnected, alwaysConnected>>
  BY DEF FanOut
<1>2. CInv' /\ Connected' = Connected
  BY <1>1, CInvKept DEF BInv
<1>3. TypeOK'
  BY <1>1, <1>2 DEF BInv, ListInv, TypeOK, CInv
<1>4. reply.status = "none"
  BY <1>1 DEF BInv, ListInv, RepliedOnce, TypeOK
<1>5. ListInOrder'
  BY <1>1 DEF BInv, ListInv, ListInOrder, Ordered
<1>6. ListIsComplete'
  BY <1>1 DEF BInv, ListInv, ListIsComplete
<1> QED
  BY <1>1, <1>2, <1>3, <1>4, <1>5, <1>6 DEF BInv, ListInv, IdleIsBlank, RepliedOnce, ReplyCoversConnected

LEMMA FetchInv ==
    ASSUME BInv, NEW n \in DOMAIN results, Fetch(n)
    PROVE  BInv'
<1>1. /\ phase = "fetch"
      /\ UNCHANGED <<credentialVars, phase, toBuild, built, reply, everConnected, alwaysConnected>>
  BY DEF Fetch
<1>2. CInv' /\ Connected' = Connected
  BY <1>1, CInvKept DEF BInv
<1>3. TypeOK'
  <2>1. results' \in [1..Len(built) -> Outcomes]
    BY DEF BInv, ListInv, TypeOK, Fetch, Outcomes
  <2> QED
    BY <1>1, <1>2, <2>1 DEF BInv, ListInv, TypeOK, CInv, Outcomes
<1>4. reply.status = "none"
  BY <1>1 DEF BInv, ListInv, RepliedOnce, TypeOK
<1>5. ListInOrder'
  BY <1>1 DEF BInv, ListInv, ListInOrder, Ordered
<1>6. ListIsComplete'
  BY <1>1 DEF BInv, ListInv, ListIsComplete
<1> QED
  BY <1>1, <1>2, <1>3, <1>4, <1>5, <1>6 DEF BInv, ListInv, IdleIsBlank, RepliedOnce, ReplyCoversConnected

\* The reply names what was built.
LEMMA RespondInv == BInv /\ Respond => BInv'
<1> SUFFICES ASSUME BInv, Respond PROVE BInv'
  OBVIOUS
<1>1. /\ phase = "fetch" /\ phase' = "replied"
      /\ UNCHANGED <<credentialVars, toBuild, built, results, everConnected, alwaysConnected>>
      /\ reply'.status = "200"
      /\ reply'.brokers = [n \in DOMAIN results |->
             [broker |-> built[n],
              equityUSD |-> IF results[n] = "ok" THEN EquityUSD(built[n]) ELSE 0,
              error |-> results[n] = "error"]]
  BY DEF Respond, Reply
<1>2. CInv'
  BY <1>1, CInvKept DEF BInv
<1>3. TypeOK'
  BY <1>1, <1>2 DEF BInv, ListInv, TypeOK, CInv
<1>4. ListInOrder'
  BY <1>1 DEF BInv, ListInv, ListInOrder, Ordered
<1>5. [n \in DOMAIN reply'.brokers |-> reply'.brokers[n].broker] = built
  <2>1. built \in Seq(Brokers) /\ DOMAIN results = 1..Len(built)
    BY DEF BInv, ListInv, TypeOK
  <2>2. DOMAIN reply'.brokers = DOMAIN results /\ \A n \in DOMAIN results : reply'.brokers[n].broker = built[n]
    BY <1>1
  <2> QED
    BY <2>1, <2>2
<1>6. ReplyCoversConnected'
  <2>1. toBuild = <<>> /\ ToSet(toBuild) = {}
    BY <1>1 DEF BInv, ListInv, ListIsComplete, ToSet
  <2>2. alwaysConnected \subseteq ToSet(built) /\ ToSet(built) \subseteq everConnected /\ Ordered(built)
    BY <1>1, <2>1 DEF BInv, ListInv, ListIsComplete, ListInOrder
  <2> QED
    BY <1>1, <1>5, <2>2 DEF ReplyCoversConnected
<1> QED
  BY <1>1, <1>2, <1>3, <1>4, <1>6 DEF BInv, ListInv, IdleIsBlank, RepliedOnce, ListIsComplete

\* The next poll, and a restart, begin from nothing.
LEMMA BlankInv ==
    ASSUME CInv', phase' = "idle", toBuild' = <<>>, built' = <<>>, results' = <<>>, reply' = NoReply,
           everConnected' = {}, alwaysConnected' = {}
    PROVE  BInv'
<1>1. Len(built') = 0 /\ Len(toBuild') = 0
  OBVIOUS
<1>2. results' \in [1..Len(built') -> Outcomes]
  BY <1>1
<1>3. TypeOK'
  BY <1>1, <1>2 DEF TypeOK, CInv, NoReply, Outcomes
<1>4. ListInOrder'
  BY <1>1 DEF ListInOrder, Ordered
<1> QED
  BY <1>3, <1>4 DEF BInv, ListInv, IdleIsBlank, RepliedOnce, ListIsComplete, ReplyCoversConnected, NoReply

LEMMA CredentialsStepInv == BInv /\ CredentialsStep => BInv'
<1> SUFFICES ASSUME BInv, CredentialsStep PROVE BInv'
  OBVIOUS
<1>1. /\ RequestNext /\ UNCHANGED <<phase, toBuild, built, results, reply>>
      /\ everConnected' = IF phase = "build" THEN everConnected \union Connected' ELSE everConnected
      /\ alwaysConnected' = IF phase = "build" THEN alwaysConnected \intersect Connected' ELSE alwaysConnected
      /\ Connected' \subseteq Brokers
  BY DEF CredentialsStep, Connected
<1>2. CInv'
  BY <1>1, NextCInv DEF BInv, CredentialsNext
<1>3. TypeOK'
  BY <1>1, <1>2 DEF BInv, ListInv, TypeOK, CInv
<1>4. ListInOrder'
  BY <1>1 DEF BInv, ListInv, ListInOrder, Ordered
<1>5. ListIsComplete'
  BY <1>1 DEF BInv, ListInv, ListIsComplete
<1>6. ReplyCoversConnected'
  BY <1>1 DEF BInv, ListInv, ReplyCoversConnected, RepliedOnce
<1> QED
  BY <1>1, <1>2, <1>3, <1>4, <1>5, <1>6 DEF BInv, ListInv, IdleIsBlank, RepliedOnce

LEMMA NextBInv == BInv /\ [Next]_vars => BInv'
<1> SUFFICES ASSUME BInv, [Next]_vars PROVE BInv'
  OBVIOUS
<1>1. CASE HandlerStep
  BY <1>1, ListConnectedBrokersInv, BuildNextInv, FanOutInv, FetchInv, RespondInv DEF HandlerStep
<1>2. CASE NextPoll
  <2>1. CInv'
    BY <1>2, CInvKept DEF BInv, NextPoll
  <2> QED
    BY <1>2, <2>1, BlankInv DEF NextPoll
<1>3. CASE CredentialsStep
  BY <1>3, CredentialsStepInv
<1>4. CASE RestartGateway
  <2>1. CInv'
    BY <1>4, NextCInv DEF BInv, RestartGateway, CredentialsNext
  <2> QED
    BY <1>4, <2>1, BlankInv DEF RestartGateway
<1>5. CASE UNCHANGED vars
  <2>1. UNCHANGED <<credentialVars, phase, toBuild, built, results, reply, everConnected, alwaysConnected>>
    BY <1>5 DEF vars, balanceVars
  <2>2. CInv' /\ Connected' = Connected
    BY <2>1, CInvKept DEF BInv
  <2>3. TypeOK' /\ ListInOrder'
    BY <2>1, <2>2 DEF BInv, ListInv, TypeOK, CInv, ListInOrder, Ordered
  <2> QED
    BY <2>1, <2>2, <2>3 DEF BInv, ListInv, IdleIsBlank, RepliedOnce, ListIsComplete, ReplyCoversConnected
<1> QED
  BY <1>1, <1>2, <1>3, <1>4, <1>5 DEF Next

-----------------------------------------------------------------------------
(* The total. *)

Amount(n) == IF results[n] = "ok" THEN EquityUSD(built[n]) ELSE 0

\* What one turn of the loop over the results makes of the accounts so far.
Keep(accounts, n) == IF results[n] = "ok" THEN Append(accounts, built[n]) ELSE accounts

LEMMA UpToThree == ASSUME NEW n \in Nat, n <= 3 PROVE n \in 0..3
OBVIOUS

LEMMA UpToTwo == ASSUME NEW n \in Nat, n <= 2 PROVE n \in 0..2
OBVIOUS

LEMMA Before ==
    ASSUME NEW k \in 0..3, NEW n \in 0..k
    PROVE  n \in 0..3 /\ (n # 0 => n - 1 \in 0..k)
OBVIOUS

LEMMA EquityIsInt == ASSUME NEW b \in Brokers PROVE EquityUSD(b) \in Int
<1>1. AccountOf[b].equity \in Int /\ USDRate(AccountOf[b].currency) \in Int
  BY BalanceAssumption DEF USDRate
<1> QED
  BY <1>1 DEF EquityUSD

\* The loop of Total on lists as long as there are brokers.
LEMMA TotalUnrolled ==
    ASSUME NEW s, Len(s) \in 0..3, \A n \in 1..Len(s) : s[n] \in Int
    PROVE  Total(s) = IF Len(s) = 0 THEN 0
                      ELSE IF Len(s) = 1 THEN s[1]
                      ELSE IF Len(s) = 2 THEN s[1] + s[2]
                      ELSE s[1] + s[2] + s[3]
<1> DEFINE sums == [n \in 0..Len(s) |->
                       IF n = 0 THEN 0 ELSE IF n = 1 THEN s[1]
                       ELSE IF n = 2 THEN s[1] + s[2] ELSE s[1] + s[2] + s[3]]
           sum[n \in 0..Len(s)] == IF n = 0 THEN 0 ELSE sum[n - 1] + s[n]
<1>1. sums = [n \in 0..Len(s) |-> IF n = 0 THEN 0 ELSE sums[n - 1] + s[n]]
  OBVIOUS
<1>2. \E f : f = [n \in 0..Len(s) |-> IF n = 0 THEN 0 ELSE f[n - 1] + s[n]]
  <2> HIDE DEF sums
  <2> QED
    BY <1>1, Zenon
<1>3. sum = [n \in 0..Len(s) |-> IF n = 0 THEN 0 ELSE sum[n - 1] + s[n]]
  BY <1>2, Zenon
<1>4. Total(s) = sum[Len(s)]
  BY Zenon DEF Total
<1> HIDE DEF sum
<1>5. \A n \in 0..Len(s) : sum[n] = IF n = 0 THEN 0 ELSE sum[n - 1] + s[n]
  BY <1>3
<1>6. /\ sum[0] = 0
      /\ Len(s) >= 1 => sum[1] = s[1]
      /\ Len(s) >= 2 => sum[2] = s[1] + s[2]
      /\ Len(s) = 3 => sum[3] = s[1] + s[2] + s[3]
  <2>1. sum[0] = 0
    BY <1>5
  <2>2. Len(s) >= 1 => sum[1] = s[1]
    BY <1>5, <2>1
  <2>3. Len(s) >= 2 => sum[2] = s[1] + s[2]
    BY <1>5, <2>2
  <2>4. Len(s) = 3 => sum[3] = s[1] + s[2] + s[3]
    BY <1>5, <2>3
  <2> QED
    BY <2>1, <2>2, <2>3, <2>4
<1> QED
  BY <1>4, <1>6

LEMMA AmountsOfList ==
    ASSUME NEW s \in Seq(Brokers)
    PROVE  /\ DOMAIN s = 1..Len(s) /\ Len(s) \in Nat
           /\ Len([n \in DOMAIN s |-> EquityUSD(s[n])]) = Len(s)
           /\ \A n \in 1..Len(s) : EquityUSD(s[n]) \in Int
<1>1. DOMAIN s = 1..Len(s) /\ Len(s) \in Nat /\ \A n \in 1..Len(s) : s[n] \in Brokers
  OBVIOUS
<1> QED
  BY <1>1, EquityIsInt

LEMMA AggregateUnrolled ==
    ASSUME NEW s \in Seq(Brokers), Len(s) <= 3
    PROVE  AggregateBalances(s) =
               IF Len(s) = 0 THEN 0
               ELSE IF Len(s) = 1 THEN EquityUSD(s[1])
               ELSE IF Len(s) = 2 THEN EquityUSD(s[1]) + EquityUSD(s[2])
               ELSE EquityUSD(s[1]) + EquityUSD(s[2]) + EquityUSD(s[3])
<1> DEFINE amounts == [n \in DOMAIN s |-> EquityUSD(s[n])]
<1>1. DOMAIN s = 1..Len(s) /\ Len(s) \in 0..3 /\ Len(amounts) = Len(s)
  <2>1. DOMAIN s = 1..Len(s) /\ Len(s) \in Nat /\ Len(amounts) = Len(s)
    BY AmountsOfList, Zenon
  <2> QED
    BY <2>1
<1>2. \A n \in 1..Len(s) : amounts[n] = EquityUSD(s[n]) /\ amounts[n] \in Int
  BY <1>1, AmountsOfList
<1>3. AggregateBalances(s) = Total(amounts)
  BY DEF AggregateBalances
<1> HIDE DEF amounts
<1>4. Total(amounts) = IF Len(amounts) = 0 THEN 0
                       ELSE IF Len(amounts) = 1 THEN amounts[1]
                       ELSE IF Len(amounts) = 2 THEN amounts[1] + amounts[2]
                       ELSE amounts[1] + amounts[2] + amounts[3]
  BY <1>1, <1>2, TotalUnrolled
<1> QED
  BY <1>1, <1>2, <1>3, <1>4

\* A turn of the loop over the results adds that result's amount.
LEMMA KeepAdds ==
    ASSUME NEW s \in Seq(Brokers), NEW n, Len(s) \in 0..2, built[n] \in Brokers
    PROVE  /\ Keep(s, n) \in Seq(Brokers) /\ Len(Keep(s, n)) <= Len(s) + 1
           /\ AggregateBalances(s) \in Int
           /\ AggregateBalances(Keep(s, n)) = AggregateBalances(s) + Amount(n)
<1> DEFINE longer == Append(s, built[n])
<1>1. /\ Len(s) \in 0..2
      /\ longer \in Seq(Brokers) /\ Len(longer) = Len(s) + 1
      /\ longer[Len(s) + 1] = built[n]
      /\ \A i \in 1..Len(s) : longer[i] = s[i]
  <2>1. Len(s) \in Nat
    BY AmountsOfList
  <2>2. Len(s) \in 0..2
    OBVIOUS
  <2>3. longer \in Seq(Brokers)
    OBVIOUS
  <2>4. Len(longer) = Len(s) + 1
    OBVIOUS
  <2>5. longer[Len(s) + 1] = built[n] /\ \A i \in 1..Len(s) : longer[i] = s[i]
    BY <2>1
  <2> QED
    BY <2>2, <2>3, <2>4, <2>5, Zenon
<1>2. /\ \A i \in 1..Len(s) : EquityUSD(s[i]) \in Int
      /\ EquityUSD(built[n]) \in Int
  BY AmountsOfList, EquityIsInt
<1> HIDE DEF longer
<1>3. Len(longer) <= 3
  BY <1>1
<1>4. AggregateBalances(s) \in Int
  BY <1>1, <1>2, AggregateUnrolled
<1>5. AggregateBalances(longer) = AggregateBalances(s) + EquityUSD(built[n])
  <2> DEFINE Unrolled(t) == IF Len(t) = 0 THEN 0
                            ELSE IF Len(t) = 1 THEN EquityUSD(t[1])
                            ELSE IF Len(t) = 2 THEN EquityUSD(t[1]) + EquityUSD(t[2])
                            ELSE EquityUSD(t[1]) + EquityUSD(t[2]) + EquityUSD(t[3])
  <2>1. AggregateBalances(s) = Unrolled(s)
    BY <1>1, AggregateUnrolled
  <2>2. AggregateBalances(longer) = Unrolled(longer)
    BY <1>1, <1>3, AggregateUnrolled
  <2>3. CASE Len(s) = 0
    BY <1>1, <1>2, <2>1, <2>2, <2>3
  <2>4. CASE Len(s) = 1
    BY <1>1, <1>2, <2>1, <2>2, <2>4
  <2>5. CASE Len(s) = 2
    BY <1>1, <1>2, <2>1, <2>2, <2>5
  <2> QED
    BY <1>1, <2>3, <2>4, <2>5
<1>6. CASE results[n] = "ok"
  BY <1>1, <1>4, <1>5, <1>6 DEF Keep, Amount, longer
<1>7. CASE results[n] # "ok"
  BY <1>1, <1>4, <1>7 DEF Keep, Amount
<1> QED
  BY <1>6, <1>7

\* The loop over the results, likewise.
LEMMA FetchedUnrolled ==
    ASSUME Len(built) \in 0..3
    PROVE  Fetched = IF Len(built) = 0 THEN <<>>
                     ELSE IF Len(built) = 1 THEN Keep(<<>>, 1)
                     ELSE IF Len(built) = 2 THEN Keep(Keep(<<>>, 1), 2)
                     ELSE Keep(Keep(Keep(<<>>, 1), 2), 3)
<1> DEFINE lists == [n \in 0..Len(built) |->
                        IF n = 0 THEN <<>> ELSE IF n = 1 THEN Keep(<<>>, 1)
                        ELSE IF n = 2 THEN Keep(Keep(<<>>, 1), 2)
                        ELSE Keep(Keep(Keep(<<>>, 1), 2), 3)]
           accounts[n \in 0..Len(built)] ==
               IF n = 0 THEN <<>>
               ELSE IF results[n] = "ok" THEN Append(accounts[n - 1], built[n])
               ELSE accounts[n - 1]
<1>1. lists = [n \in 0..Len(built) |-> IF n = 0 THEN <<>> ELSE Keep(lists[n - 1], n)]
  <2>1. lists = [n \in 0..Len(built) |-> lists[n]]
    OBVIOUS
  <2>2. ASSUME NEW n \in 0..Len(built)
        PROVE  lists[n] = IF n = 0 THEN <<>> ELSE Keep(lists[n - 1], n)
    <3>1. n \in 0..3 /\ (n # 0 => n - 1 \in 0..Len(built))
      BY Before, Zenon
    <3>2. CASE n = 0
      BY <3>2
    <3>3. CASE n = 1
      BY <3>1, <3>3
    <3>4. CASE n = 2
      BY <3>1, <3>4
    <3>5. CASE n = 3
      BY <3>1, <3>5
    <3> QED
      BY <3>1, <3>2, <3>3, <3>4, <3>5
  <2> HIDE DEF lists
  <2> QED
    BY <2>1, <2>2
<1>2. \E f : f = [n \in 0..Len(built) |->
                     IF n = 0 THEN <<>>
                     ELSE IF results[n] = "ok" THEN Append(f[n - 1], built[n])
                     ELSE f[n - 1]]
  <2> HIDE DEF lists
  <2> QED
    BY <1>1, Zenon DEF Keep
<1>3. accounts = [n \in 0..Len(built) |->
                     IF n = 0 THEN <<>>
                     ELSE IF results[n] = "ok" THEN Append(accounts[n - 1], built[n])
                     ELSE accounts[n - 1]]
  BY <1>2, Zenon
<1>4. Fetched = accounts[Len(built)]
  BY Zenon DEF Fetched
<1> HIDE DEF accounts
<1>5. \A n \in 0..Len(built) : accounts[n] = IF n = 0 THEN <<>> ELSE Keep(accounts[n - 1], n)
  BY <1>3 DEF Keep
<1>6. /\ accounts[0] = <<>>
      /\ Len(built) >= 1 => accounts[1] = Keep(<<>>, 1)
      /\ Len(built) >= 2 => accounts[2] = Keep(Keep(<<>>, 1), 2)
      /\ Len(built) = 3 => accounts[3] = Keep(Keep(Keep(<<>>, 1), 2), 3)
  <2>1. accounts[0] = <<>>
    BY <1>5
  <2>2. Len(built) >= 1 => accounts[1] = Keep(<<>>, 1)
    BY <1>5, <2>1
  <2>3. Len(built) >= 2 => accounts[2] = Keep(Keep(<<>>, 1), 2)
    BY <1>5, <2>2
  <2>4. Len(built) = 3 => accounts[3] = Keep(Keep(Keep(<<>>, 1), 2), 3)
    BY <1>5, <2>3
  <2> QED
    BY <2>1, <2>2, <2>3, <2>4
<1>7. CASE Len(built) = 0
  BY <1>4, <1>6, <1>7
<1>8. CASE Len(built) = 1
  BY <1>4, <1>6, <1>8
<1>9. CASE Len(built) = 2
  BY <1>4, <1>6, <1>9
<1>10. CASE Len(built) = 3
  BY <1>4, <1>6, <1>10
<1> QED
  BY <1>7, <1>8, <1>9, <1>10

\* An ordered list names each of the three brokers at most once.
LEMMA OrderedIsShort ==
    ASSUME NEW s \in Seq(Brokers), Ordered(s)
    PROVE  Len(s) \in 0..3
<1>1. Len(s) \in Nat /\ \A n \in 1..Len(s) : Rank[s[n]] \in 1..3
  <2>1. Len(s) \in Nat /\ \A n \in 1..Len(s) : s[n] \in Brokers
    OBVIOUS
  <2> QED
    BY <2>1 DEF Rank, Brokers
<1>2. ASSUME Len(s) >= 4 PROVE FALSE
  <2>1. {1, 2, 3, 4} \subseteq 1..Len(s)
    BY <1>1, <1>2
  <2>2. Rank[s[1]] < Rank[s[2]] /\ Rank[s[2]] < Rank[s[3]] /\ Rank[s[3]] < Rank[s[4]]
    BY <2>1 DEF Ordered
  <2>3. /\ Rank[s[1]] \in 1..3 /\ Rank[s[2]] \in 1..3 /\ Rank[s[3]] \in 1..3
        /\ Rank[s[4]] \in 1..3
    BY <1>1, <2>1
  <2> QED
    BY <2>2, <2>3
<1>3. Len(s) <= 3
  BY <1>1, <1>2
<1> QED
  BY <1>1, <1>3, UpToThree, Zenon

\* The two loops agree: adding up the fetched accounts is adding up the
\* amounts of the results.
LEMMA FetchedTotal ==
    ASSUME NEW none \in Seq(Brokers), none = <<>>, NEW shown,
           built \in Seq(Brokers), Len(built) \in 0..3, Len(shown) = Len(built),
           \A n \in 1..Len(built) : shown[n] = Amount(n)
    PROVE  AggregateBalances(Fetched) = Total(shown)
<1> DEFINE first == Keep(none, 1)
           second == Keep(first, 2)
           third == Keep(second, 3)
<1>1. \A n \in 1..Len(built) : built[n] \in Brokers /\ Amount(n) \in Int
  <2>1. \A n \in 1..Len(built) : built[n] \in Brokers
    BY ElementOfSeq
  <2> QED
    BY <2>1, EquityIsInt DEF Amount
<1>2. Len(none) = 0 /\ Len(none) \in 0..2
  OBVIOUS
<1>3. AggregateBalances(none) = 0
  <2>1. Len(none) <= 3
    BY <1>2
  <2>2. AggregateBalances(none) =
            IF Len(none) = 0 THEN 0
            ELSE IF Len(none) = 1 THEN EquityUSD(none[1])
            ELSE IF Len(none) = 2 THEN EquityUSD(none[1]) + EquityUSD(none[2])
            ELSE EquityUSD(none[1]) + EquityUSD(none[2]) + EquityUSD(none[3])
    BY <2>1, AggregateUnrolled, Zenon
  <2> QED
    BY <1>2, <2>2, Zenon
<1>4. Len(built) >= 1 =>
          /\ first \in Seq(Brokers) /\ Len(first) <= 1
          /\ AggregateBalances(first) = Amount(1)
  <2>1. SUFFICES ASSUME Len(built) >= 1
                 PROVE  /\ first \in Seq(Brokers) /\ Len(first) <= 1
                        /\ AggregateBalances(first) = Amount(1)
    OBVIOUS
  <2>2. built[1] \in Brokers /\ Amount(1) \in Int
    BY <1>1, <2>1
  <2>3. /\ first \in Seq(Brokers) /\ Len(first) <= Len(none) + 1
        /\ AggregateBalances(first) = AggregateBalances(none) + Amount(1)
    BY <1>2, <2>2, KeepAdds
  <2> HIDE DEF first
  <2> QED
    BY <1>2, <1>3, <2>2, <2>3
<1>5. Len(built) >= 2 =>
          /\ second \in Seq(Brokers) /\ Len(second) <= 2
          /\ AggregateBalances(second) = Amount(1) + Amount(2)
  <2>1. SUFFICES ASSUME Len(built) >= 2
                 PROVE  /\ second \in Seq(Brokers) /\ Len(second) <= 2
                        /\ AggregateBalances(second) = Amount(1) + Amount(2)
    OBVIOUS
  <2>2. /\ built[2] \in Brokers /\ Amount(1) \in Int /\ Amount(2) \in Int
        /\ first \in Seq(Brokers) /\ Len(first) <= 1
        /\ AggregateBalances(first) = Amount(1)
    BY <1>1, <1>4, <2>1
  <2> HIDE DEF first
  <2>5. Len(first) \in Nat
    BY <2>2, AmountsOfList
  <2>6. Len(first) \in 0..2
    <3>1. Len(first) <= 2
      BY <2>2, <2>5
    <3> QED
      BY <3>1, <2>5, UpToTwo, Zenon
  <2>3. /\ second \in Seq(Brokers) /\ Len(second) <= Len(first) + 1
        /\ AggregateBalances(second) = AggregateBalances(first) + Amount(2)
    BY <2>2, <2>6, KeepAdds
  <2>4. Len(second) \in Nat
    BY <2>3, AmountsOfList
  <2> HIDE DEF second
  <2> QED
    BY <2>2, <2>3, <2>4, <2>5
<1>6. Len(built) = 3 => AggregateBalances(third) = Amount(1) + Amount(2) + Amount(3)
  <2>1. SUFFICES ASSUME Len(built) = 3
                 PROVE  AggregateBalances(third) = Amount(1) + Amount(2) + Amount(3)
    OBVIOUS
  <2>2. /\ built[3] \in Brokers
        /\ second \in Seq(Brokers) /\ Len(second) <= 2
        /\ AggregateBalances(second) = Amount(1) + Amount(2)
    BY <1>1, <1>5, <2>1
  <2> HIDE DEF second
  <2>4. Len(second) \in 0..2
    BY <2>2, AmountsOfList, UpToTwo, Zenon
  <2>3. AggregateBalances(third) = AggregateBalances(second) + Amount(3)
    BY <2>2, <2>4, KeepAdds
  <2> QED
    BY <2>2, <2>3
<1>7. AggregateBalances(Fetched) = IF Len(built) = 0 THEN 0
                                   ELSE IF Len(built) = 1 THEN Amount(1)
                                   ELSE IF Len(built) = 2 THEN Amount(1) + Amount(2)
                                   ELSE Amount(1) + Amount(2) + Amount(3)
  <2>1. Fetched = IF Len(built) = 0 THEN <<>> ELSE IF Len(built) = 1 THEN first
                  ELSE IF Len(built) = 2 THEN second ELSE third
    BY FetchedUnrolled
  <2> HIDE DEF first, second, third
  <2> QED
    BY <2>1, <1>3, <1>4, <1>5, <1>6
<1>8. \A n \in 1..Len(shown) : shown[n] \in Int
  BY <1>1
<1>9. Total(shown) = IF Len(shown) = 0 THEN 0
                     ELSE IF Len(shown) = 1 THEN shown[1]
                     ELSE IF Len(shown) = 2 THEN shown[1] + shown[2]
                     ELSE shown[1] + shown[2] + shown[3]
  BY <1>8, TotalUnrolled
<1> HIDE DEF first, second, third
<1> QED
  BY <1>7, <1>9

\* The total is taken where the statuses are written; nothing changes it later.
LEMMA TotalKept ==
    ASSUME BInv, TotalIsSumOfStatuses, [Next]_vars
    PROVE  TotalIsSumOfStatuses'
<1>1. CASE Respond
  <2> DEFINE shown == [n \in DOMAIN reply'.brokers |-> reply'.brokers[n].equityUSD]
  <2>1. built \in Seq(Brokers) /\ DOMAIN results = 1..Len(built) /\ Len(built) \in 0..3
    <3>1. built \in Seq(Brokers) /\ DOMAIN results = 1..Len(built)
      BY DEF BInv, ListInv, TypeOK
    <3>2. Ordered(built)
      BY DEF BInv, ListInv, ListInOrder
    <3> QED
      BY <3>1, <3>2, OrderedIsShort
  <2>2. /\ reply'.unified = AggregateBalances(Fetched)
        /\ reply'.brokers = [n \in DOMAIN results |->
               [broker |-> built[n], equityUSD |-> Amount(n), error |-> results[n] = "error"]]
    BY <1>1 DEF Respond, Reply, Amount
  <2>3. DOMAIN reply'.brokers = 1..Len(built)
    BY <2>1, <2>2
  <2>4. Len(shown) = Len(built) /\ \A n \in 1..Len(built) : shown[n] = Amount(n)
    <3>1. Len(built) \in Nat
      BY <2>1, AmountsOfList
    <3> QED
      BY <2>1, <2>2, <2>3, <3>1
  <2>5. PICK none \in Seq(Brokers) : none = <<>>
    <3>1. <<>> \in Seq(Brokers)
      OBVIOUS
    <3> QED
      BY <3>1, Zenon
  <2> HIDE DEF shown
  <2>6. AggregateBalances(Fetched) = Total(shown)
    BY <2>1, <2>4, <2>5, FetchedTotal
  <2> QED
    BY <2>2, <2>6 DEF TotalIsSumOfStatuses, shown
<1>2. CASE reply' = reply
  BY <1>2 DEF TotalIsSumOfStatuses
<1>3. CASE reply' = NoReply \/ reply' = Failure
  BY <1>3 DEF TotalIsSumOfStatuses, NoReply, Failure
<1>4. Respond \/ reply' = reply \/ reply' = NoReply \/ reply' = Failure
  BY DEF Next, HandlerStep, ListConnectedBrokers, BuildNext, FanOut, Fetch, Reply, NextPoll,
         CredentialsStep, RestartGateway, vars, balanceVars
<1> QED
  BY <1>1, <1>2, <1>3, <1>4

-----------------------------------------------------------------------------
\* The request's state keeps its types: a result for every client that was
\* built, whatever order the goroutines finish in (market_handlers.go:54-64).
THEOREM BalanceTypeCorrect == Spec => []TypeOK
<1>1. BInv => TypeOK
  BY DEF BInv, ListInv
<1> QED
  BY <1>1, InitBInv, NextBInv, PTL DEF Spec

\* A 200 names every broker that stayed connected while the clients were built,
\* none that never was, each once and in order, whatever is saved, deleted and
\* imported meanwhile (factory.go:36-56, market_handlers.go:41-85).
THEOREM RepliesCoverConnected == Spec => []ReplyCoversConnected
<1>1. BInv => ReplyCoversConnected
  BY DEF BInv, ListInv
<1> QED
  BY <1>1, InitBInv, NextBInv, PTL DEF Spec

\* The unified total is the sum of the equities the reply shows: the loop
\* that leaves out the failed accounts and the one that adds up the rest miss
\* none and count none twice (market_handlers.go:66-79, balance.go:32-44).
THEOREM TotalsAddUp == Spec => []TotalIsSumOfStatuses
<1>1. Init => TotalIsSumOfStatuses
  BY DEF Init, BalanceInit, NoReply, TotalIsSumOfStatuses
<1>2. BInv /\ TotalIsSumOfStatuses /\ [Next]_vars => TotalIsSumOfStatuses'
  BY TotalKept
<1> QED
  BY <1>1, <1>2, InitBInv, NextBInv, PTL DEF Spec
=============================================================================
