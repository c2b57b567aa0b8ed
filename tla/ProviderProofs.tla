---------------------------- MODULE ProviderProofs ----------------------------
(***************************************************************************)
(* Proofs about the other messengers: a user's account of Telegram signed  *)
(* in, Viber, VK, WhatsApp by Infobip, Corezoid. For any requests, users,  *)
(* conversations, letters, batches, numbers and bounds.                    *)
(***************************************************************************)
EXTENDS MCProviders, FiniteSetTheorems, TLAPS

-----------------------------------------------------------------------------
(* Sequences and finite sets *)

(* What a sequence holds, and what an element added, put in the place of another, or a first part make of it. *)
LEMMA ElementsOf ==
  ASSUME NEW S, NEW s \in Seq(S)
  PROVE  \A k \in DOMAIN s : s[k] \in S
OBVIOUS

LEMMA AppendTo ==
  ASSUME NEW S, NEW s \in Seq(S), NEW e \in S
  PROVE  /\ Append(s, e) \in Seq(S) /\ Len(Append(s, e)) = Len(s) + 1 /\ Append(s, e)[Len(s) + 1] = e
         /\ \A k \in 1 .. Len(s) : Append(s, e)[k] = s[k]
OBVIOUS

LEMMA ReplaceIn ==
  ASSUME NEW S, NEW s \in Seq(S), NEW e \in S, NEW o \in DOMAIN s
  PROVE  /\ [s EXCEPT ![o] = e] \in Seq(S) /\ Len([s EXCEPT ![o] = e]) = Len(s) /\ [s EXCEPT ![o] = e][o] = e
         /\ \A k \in 1 .. Len(s) : k # o => [s EXCEPT ![o] = e][k] = s[k]
OBVIOUS

LEMMA FirstOf ==
  ASSUME NEW S, NEW s \in Seq(S), NEW n \in 0 .. Len(s)
  PROVE  SubSeq(s, 1, n) \in Seq(S) /\ Len(SubSeq(s, 1, n)) = n /\ \A i \in 1 .. n : SubSeq(s, 1, n)[i] = s[i]
OBVIOUS

(* A sequence reversed. *)
LEMMA ReverseSeq ==
  ASSUME NEW S, NEW s \in Seq(S), NEW r, r = [i \in 1 .. Len(s) |-> s[Len(s) - i + 1]]
  PROVE  r \in Seq(S) /\ Len(r) = Len(s) /\ \A i \in 1 .. Len(s) : r[i] = s[Len(s) - i + 1]
<1>1. Len(s) \in Nat /\ \A i \in 1 .. Len(s) : Len(s) - i + 1 \in 1 .. Len(s)
  OBVIOUS
<1>2. \A i \in 1 .. Len(s) : s[Len(s) - i + 1] \in S
  BY <1>1, ElementsOf
<1>3. r \in [1 .. Len(s) -> S]
  BY <1>2
<1>4. r \in Seq(S) /\ Len(r) = Len(s)
  BY <1>1, <1>3
<1> QED
  BY <1>4

(* What is counted where there is one at most, and where there is one at least. *)
LEMMA CountedOnce ==
  ASSUME NEW S, IsFiniteSet(S), \A a, b \in S : a = b
  PROVE  Cardinality(S) <= 1
<1>1. CASE S = {}
  BY <1>1, FS_EmptySet
<1>2. CASE S # {}
  <2>1. PICK a \in S : S = {a}
    BY <1>2
  <2> QED
    BY <2>1, FS_Singleton
<1> QED
  BY <1>1, <1>2

LEMMA CountedSome ==
  ASSUME NEW S, IsFiniteSet(S), NEW a \in S
  PROVE  Cardinality(S) >= 1
<1>1. Cardinality(S) \in Nat /\ Cardinality(S) # 0
  BY FS_CardinalityType, FS_EmptySet
<1> QED
  BY <1>1

LEMMA FinitePlaces ==
  ASSUME NEW S, NEW s \in Seq(S), NEW T, T \subseteq DOMAIN s
  PROVE  IsFiniteSet(T)
<1>1. DOMAIN s = 1 .. Len(s) /\ Len(s) \in Nat
  OBVIOUS
<1>2. IsFiniteSet(1 .. Len(s))
  BY <1>1, FS_Interval
<1> QED
  BY <1>1, <1>2, FS_Subset

-----------------------------------------------------------------------------

(* The account of a Telegram gateway *)

RtType    == [pc : {"off", "sleep", "self", "auth", "top", "wait", "purge", "save", "load", "deny"},
              cur : Login!Users, ses : Login!Users]

LoginType == [user : Login!Users, request : BOOLEAN, tokens : Seq(1 .. MaxLogins)]

(* The newest token comes first, and the oldest goes when there are too many. *)
LEMMA WithTokenSeq ==
  ASSUME NEW ts \in Seq(1 .. MaxLogins), NEW a \in 1 .. MaxLogins
  PROVE  /\ Login!WithToken(ts, a) \in Seq(1 .. MaxLogins)
         /\ Len(Login!WithToken(ts, a)) = IF Len(ts) < MaxTokens THEN Len(ts) + 1 ELSE MaxTokens
         /\ Login!WithToken(ts, a)[1] = a
         /\ \A i \in 2 .. Len(Login!WithToken(ts, a)) : Login!WithToken(ts, a)[i] = ts[i - 1]
<1> USE LoginAssumption
<1> DEFINE k == IF Len(ts) < MaxTokens THEN Len(ts) ELSE MaxTokens - 1
           cut == SubSeq(ts, 1, k)
<1>1. k \in 0 .. Len(ts)
  OBVIOUS
<1> HIDE DEF k
<1>2. cut \in Seq(1 .. MaxLogins) /\ Len(cut) = k /\ \A i \in 1 .. k : cut[i] = ts[i]
  BY <1>1
<1> HIDE DEF cut
<1>3. /\ <<a>> \o cut \in Seq(1 .. MaxLogins) /\ Len(<<a>> \o cut) = 1 + k /\ (<<a>> \o cut)[1] = a
      /\ \A i \in 2 .. k + 1 : (<<a>> \o cut)[i] = cut[i - 1]
  BY <1>1, <1>2
<1>4. Login!WithToken(ts, a) = <<a>> \o cut
  BY DEF Login!WithToken, cut, k
<1>5. 1 + k = IF Len(ts) < MaxTokens THEN Len(ts) + 1 ELSE MaxTokens
  BY DEF k
<1> QED
  BY <1>1, <1>2, <1>3, <1>4, <1>5

LEMMA WithTokenNewest ==
  ASSUME NEW ts \in Seq(1 .. MaxLogins), NEW is \in Seq(1 .. MaxLogins), NEW a \in 1 .. MaxLogins,
         Len(ts) = IF Len(is) < MaxTokens THEN Len(is) ELSE MaxTokens,
         \A i \in 1 .. Len(ts) : ts[i] = is[Len(is) - i + 1]
  PROVE  LET n == Login!WithToken(ts, a) j == Append(is, a) IN
         /\ Len(n) = IF Len(j) < MaxTokens THEN Len(j) ELSE MaxTokens
         /\ \A i \in 1 .. Len(n) : n[i] = j[Len(j) - i + 1]
<1> USE LoginAssumption
<1> DEFINE n == Login!WithToken(ts, a)
           j == Append(is, a)
<1>1. /\ Len(n) = (IF Len(ts) < MaxTokens THEN Len(ts) + 1 ELSE MaxTokens) /\ n[1] = a
      /\ \A i \in 2 .. Len(n) : n[i] = ts[i - 1]
  BY WithTokenSeq
<1>2. Len(j) = Len(is) + 1 /\ j[Len(j)] = a /\ \A i \in 1 .. Len(is) : j[i] = is[i]
  OBVIOUS
<1>3. Len(ts) \in Nat /\ Len(is) \in Nat
  OBVIOUS
<1> HIDE DEF n, j
<1>4. Len(n) = IF Len(j) < MaxTokens THEN Len(j) ELSE MaxTokens
  BY <1>1, <1>2, <1>3
<1>5. ASSUME NEW i \in 1 .. Len(n) PROVE n[i] = j[Len(j) - i + 1]
  <2>1. CASE i = 1
    BY <1>1, <1>2, <1>3, <2>1
  <2>2. CASE i # 1
    <3>1. i \in 2 .. Len(n) /\ i - 1 \in 1 .. Len(ts) /\ n[i] = ts[i - 1]
      BY <1>1, <1>3, <2>2
    <3>2. ts[i - 1] = is[Len(is) - (i - 1) + 1] /\ Len(is) - (i - 1) + 1 = Len(j) - i + 1
      BY <1>2, <1>3, <3>1
    <3>3. Len(j) - i + 1 \in 1 .. Len(is)
      BY <1>2, <1>3, <3>1
    <3> QED
      BY <1>2, <3>1, <3>2, <3>3
  <2> QED
    BY <2>1, <2>2
<1> QED
  BY <1>4, <1>5 DEF n, j

LEMMA LoginStarts ==
  ASSUME Login!Init
  PROVE  Login!IInv
<1> USE LoginAssumption
<1>0. "none" \in Login!Users
  BY DEF Login!Users, Login!None
<1>1. /\ v4 = [user |-> "none", request |-> FALSE, tokens |-> <<>>]
      /\ v8 = [pc |-> "off", cur |-> "none", ses |-> "none"] /\ v3 = [memory |-> 0, database |-> 0]
  BY DEF Login!Init, Login!None
<1>2. Login!Typed
  <2>1. v1 \in [1 .. MaxKeys -> Login!Users] /\ v3 \in [memory : 0 .. v12, database : 0 .. v12]
        /\ v12 \in 0 .. MaxKeys /\ v2 \in 0 .. v12
    BY <1>0, <1>1 DEF Login!Init, Login!None
  <2>2. v4 \in [user : Login!Users, request : BOOLEAN, tokens : Seq(1 .. MaxLogins)] /\ v5 \in Seq(1 .. MaxLogins)
    BY <1>0, <1>1 DEF Login!Init
  <2>3. /\ v6 = "none" /\ v8.pc = "off" /\ v8.cur = "none" /\ v9 = "none" /\ v10 = "idle" /\ v11 = 0 /\ v13 = 0
    BY <1>0, <1>1 DEF Login!Init, Login!None
  <2>5. v14 \in BOOLEAN
    BY Zenon DEF Login!Init
  <2>4. v8 \in [pc : {"off", "sleep", "self", "auth", "top", "wait", "purge", "save", "load", "deny"},
                cur : Login!Users, ses : Login!Users]
    BY <1>0, <1>1
  <2> QED
    BY <1>0, <2>1, <2>2, <2>3, <2>4, <2>5 DEF Login!Typed
<1>4. Login!Keyed
  BY <1>0, <1>1 DEF Login!Init, Login!Keyed, Login!None
<1>5. Login!Announced /\ Login!Starting /\ Login!Running
  BY <1>1 DEF Login!Init, Login!Announced, Login!Starting, Login!Running, Login!None
<1>6. Login!Newest
  BY <1>1 DEF Login!Init, Login!Newest
<1> QED
  BY <1>2, <1>4, <1>5, <1>6 DEF Login!IInv

LEMMA LoginRequest ==
  ASSUME Login!IInv, NEW o \in {"code", "cancel", "signIn", "password", "logOut"}, Login!Request(o)
  PROVE  Login!IInv'
<1> USE LoginAssumption DEF Login!IInv, Login!None, Login!Users
<1>1. Login!Typed'
  BY DEF Login!Typed, Login!Keyed, Login!Request, Login!Free
<1>2. Login!Keyed'
  BY DEF Login!Typed, Login!Keyed, Login!Request, Login!Free
<1>3. Login!Announced'
  BY DEF Login!Announced, Login!Typed, Login!Request, Login!Free
<1>4. Login!Starting'
  BY DEF Login!Starting, Login!Keyed, Login!Typed, Login!Announced, Login!Request, Login!Free
<1>5. Login!Running'
  BY DEF Login!Running, Login!Noted, Login!Starting, Login!Announced, Login!Keyed, Login!Typed, Login!Request, Login!Free
<1>6. Login!Newest'
  BY DEF Login!Newest, Login!Typed, Login!Request, Login!Free
<1> QED
  BY <1>1, <1>2, <1>3, <1>4, <1>5, <1>6

LEMMA LoginFailed ==
  ASSUME Login!IInv, Login!Failed
  PROVE  Login!IInv'
<1> USE LoginAssumption DEF Login!IInv, Login!None, Login!Users
<1>1. Login!Typed'
  BY DEF Login!Typed, Login!Keyed, Login!Failed, Login!still, Login!Free
<1>2. Login!Keyed'
  BY DEF Login!Typed, Login!Keyed, Login!Failed, Login!still, Login!Free
<1>3. Login!Announced'
  BY DEF Login!Announced, Login!Typed, Login!Failed, Login!still, Login!Free
<1>4. Login!Starting'
  BY DEF Login!Starting, Login!Keyed, Login!Typed, Login!Announced, Login!Failed, Login!still, Login!Free
<1>5. Login!Running'
  BY DEF Login!Running, Login!Noted, Login!Starting, Login!Announced, Login!Keyed, Login!Typed, Login!Failed, Login!still, Login!Free
<1>6. Login!Newest'
  BY DEF Login!Newest, Login!Typed, Login!Failed, Login!still, Login!Free
<1> QED
  BY <1>1, <1>2, <1>3, <1>4, <1>5, <1>6

LEMMA LoginSendCode ==
  ASSUME Login!IInv, Login!SendCode
  PROVE  Login!IInv'
<1> USE LoginAssumption DEF Login!IInv, Login!None, Login!Users
<1>1. Login!Typed'
  BY DEF Login!Typed, Login!Keyed, Login!SendCode, Login!still, Login!Free
<1>2. Login!Keyed'
  BY DEF Login!Typed, Login!Keyed, Login!SendCode, Login!still, Login!Free
<1>3. Login!Announced'
  BY DEF Login!Announced, Login!Typed, Login!SendCode, Login!still, Login!Free
<1>4. Login!Starting'
  BY DEF Login!Starting, Login!Keyed, Login!Typed, Login!Announced, Login!SendCode, Login!still, Login!Free
<1>5. Login!Running'
  BY DEF Login!Running, Login!Noted, Login!Starting, Login!Announced, Login!Keyed, Login!Typed, Login!SendCode, Login!still, Login!Free
<1>6. Login!Newest'
  BY DEF Login!Newest, Login!Typed, Login!SendCode, Login!still, Login!Free
<1> QED
  BY <1>1, <1>2, <1>3, <1>4, <1>5, <1>6

LEMMA LoginCancelCode ==
  ASSUME Login!IInv, Login!CancelCode
  PROVE  Login!IInv'
<1> USE LoginAssumption DEF Login!IInv, Login!None, Login!Users
<1>1. Login!Typed'
  BY DEF Login!Typed, Login!Keyed, Login!CancelCode, Login!still, Login!Free
<1>2. Login!Keyed'
  BY DEF Login!Typed, Login!Keyed, Login!CancelCode, Login!still, Login!Free
<1>3. Login!Announced'
  BY DEF Login!Announced, Login!Typed, Login!CancelCode, Login!still, Login!Free
<1>4. Login!Starting'
  BY DEF Login!Starting, Login!Keyed, Login!Typed, Login!Announced, Login!CancelCode, Login!still, Login!Free
<1>5. Login!Running'
  BY DEF Login!Running, Login!Noted, Login!Starting, Login!Announced, Login!Keyed, Login!Typed, Login!CancelCode, Login!still, Login!Free
<1>6. Login!Newest'
  BY DEF Login!Newest, Login!Typed, Login!CancelCode, Login!still, Login!Free
<1> QED
  BY <1>1, <1>2, <1>3, <1>4, <1>5, <1>6

LEMMA LoginSignIn ==
  ASSUME Login!IInv, NEW u \in Party, Login!SignIn(u)
  PROVE  Login!IInv'
<1> USE LoginAssumption DEF Login!IInv, Login!None, Login!Users
<1>1. Login!Typed'
  BY DEF Login!Typed, Login!Keyed, Login!SignIn, Login!DoAuth, Login!Signal, Login!Free
<1>2. Login!Keyed'
  BY DEF Login!Typed, Login!Keyed, Login!SignIn, Login!DoAuth, Login!Signal, Login!Free
<1>3. Login!Announced'
  BY DEF Login!Announced, Login!Typed, Login!SignIn, Login!DoAuth, Login!Signal, Login!Free
<1>4. Login!Starting'
  BY DEF Login!Starting, Login!Keyed, Login!Typed, Login!Announced, Login!SignIn, Login!DoAuth, Login!Signal, Login!Free
<1>5. Login!Running'
  <2> SUFFICES ASSUME v6' = "open", ~ v14' PROVE Login!Running'
    BY DEF Login!Running
  <2>1. /\ v6 = "open" /\ ~ v14 /\ v8' = v8 /\ v2' = v2 /\ v3' = v3 /\ v9' = v9 /\ v8.pc \notin {"sleep", "self", "auth", "off"}
        /\ v4'.user = u /\ v1'[v2] = u /\ v1[v2] = "none" /\ u \in Login!Users
    <3>1. v6 = "open" /\ v8' = v8 /\ v2' = v2 /\ v3' = v3 /\ v9' = v9 /\ v1[v2] = "none" /\ u \in Login!Users
      BY DEF Login!SignIn, Login!DoAuth, Login!Signal
    <3>2. ~ v14 /\ v8.pc \notin {"sleep", "self", "auth"}
      BY DEF Login!SignIn
    <3>3. v8.pc # "off" /\ v2 \in 1 .. MaxKeys
      BY <3>1 DEF Login!Keyed, Login!Typed
    <3>4. v1' = [v1 EXCEPT ![v2] = u] /\ v4' = [[v4 EXCEPT !.request = FALSE] EXCEPT !.user = u]
      BY DEF Login!SignIn, Login!DoAuth
    <3>5. v1'[v2] = u /\ v4'.user = u
      BY <3>3, <3>4 DEF Login!Typed
    <3> QED
      BY <3>1, <3>2, <3>3, <3>5
  <2>2. IF u # v4.user THEN v7 = <<>> /\ v7' = <<u>> ELSE v7' = v7
    BY <2>1 DEF Login!SignIn, Login!DoAuth, Login!Signal, Login!Typed
  <2>3. CASE u = v4.user
    BY <2>1, <2>2, <2>3 DEF Login!Running, Login!Noted, Login!Typed
  <2>4. CASE u # v4.user
    <3>1. v7 = <<>> /\ v7' = <<u>> /\ v7' # <<>>
      BY <2>2, <2>4
    <3> QED
      BY <2>1, <2>4, <3>1 DEF Login!Running, Login!Noted, Login!Typed
  <2> QED
    BY <2>3, <2>4
<1>6. Login!Newest'
  BY DEF Login!Newest, Login!Typed, Login!SignIn, Login!DoAuth, Login!Signal, Login!Free
<1> QED
  BY <1>1, <1>2, <1>3, <1>4, <1>5, <1>6

LEMMA LoginLogOut ==
  ASSUME Login!IInv, NEW t \in BOOLEAN, Login!LogOut(t)
  PROVE  Login!IInv'
<1> USE LoginAssumption DEF Login!IInv, Login!None, Login!Users
<1>7. v11 \in 1 .. MaxLogins /\ v4.tokens \in Seq(1 .. MaxLogins) /\ v5 \in Seq(1 .. MaxLogins)
  BY DEF Login!Typed, Login!LogOut
<1>8. PICK n : /\ n \in Seq(1 .. MaxLogins) /\ v5' \in Seq(1 .. MaxLogins)
              /\ n = (IF t THEN Login!WithToken(v4.tokens, v11) ELSE v4.tokens)
              /\ v5' = (IF t THEN Append(v5, v11) ELSE v5)
              /\ v4' = [user |-> "none", request |-> v4.request, tokens |-> n]
              /\ v4.request \in BOOLEAN /\ "none" \in Login!Users
  <2> DEFINE n == IF t THEN Login!WithToken(v4.tokens, v11) ELSE v4.tokens
  <2>1. Login!WithToken(v4.tokens, v11) \in Seq(1 .. MaxLogins)
    BY <1>7, WithTokenSeq
  <2>2. n \in Seq(1 .. MaxLogins)
    BY <1>7, <2>1
  <2>3. v5' = (IF t THEN Append(v5, v11) ELSE v5) /\ v5' \in Seq(1 .. MaxLogins)
    <3>1. v5' = (IF t THEN Append(v5, v11) ELSE v5)
      BY DEF Login!LogOut
    <3>2. Append(v5, v11) \in Seq(1 .. MaxLogins)
      BY <1>7
    <3> QED
      BY <1>7, <3>1, <3>2
  <2>4. v4 \in LoginType
    BY DEF Login!Typed, LoginType
  <2>5. v4' = [[v4 EXCEPT !.tokens = n] EXCEPT !.user = "none"]
    BY DEF Login!LogOut, Login!DoAuth
  <2> HIDE DEF n
  <2>6. v4' = [user |-> "none", request |-> v4.request, tokens |-> n] /\ v4.request \in BOOLEAN
    BY <2>4, <2>5 DEF LoginType
  <2> QED
    BY <2>2, <2>3, <2>6 DEF n
<1>1. Login!Typed'
  <2>1. v8' \in RtType
    BY DEF RtType, Login!Typed, Login!Keyed, Login!LogOut, Login!DoAuth, Login!Signal, Login!still, Login!Free
  <2>2. /\ v1' \in [1 .. MaxKeys -> Login!Users] /\ v12' \in 0 .. MaxKeys /\ v2' \in 0 .. v12'
        /\ v3' \in [memory : 0 .. v12', database : 0 .. v12']
    BY DEF Login!Typed, Login!Keyed, Login!LogOut, Login!DoAuth, Login!Signal, Login!still, Login!Free
  <2>3. v4' \in LoginType /\ v5' \in Seq(1 .. MaxLogins)
    BY <1>7, <1>8 DEF LoginType
    <2>4. /\ v6' \in {"none", "open", "closed"} /\ v9' \in Login!Users /\ v14' \in BOOLEAN /\ v13' \in Nat
        /\ v10' \in {"idle", "code", "cancel", "signIn", "password", "logOut", "stuck"}
        /\ v11' \in 0 .. MaxLogins /\ (v10' # "idle" => v11' >= 1)
    BY DEF Login!Typed, Login!LogOut, Login!DoAuth, Login!Signal, Login!still, Login!Free
  <2> QED
    BY <2>1, <2>2, <2>3, <2>4 DEF Login!Typed, RtType, LoginType
<1>2. Login!Keyed'
  BY DEF Login!Typed, Login!Keyed, Login!LogOut, Login!DoAuth, Login!Signal, Login!still, Login!Free
<1>3. Login!Announced'
  BY DEF Login!Announced, Login!Typed, Login!LogOut, Login!DoAuth, Login!Signal, Login!still, Login!Free
<1>4. Login!Starting'
  BY DEF Login!Starting, Login!Keyed, Login!Typed, Login!Announced, Login!LogOut, Login!DoAuth, Login!Signal, Login!still, Login!Free
<1>5. Login!Running'
  <2> SUFFICES ASSUME v6' = "open", ~ v14' PROVE Login!Running'
    BY DEF Login!Running
  <2>1. /\ v6 = "open" /\ ~ v14 /\ v8' = v8 /\ v2' = v2 /\ v3' = v3 /\ v9' = v9
        /\ v4'.user = "none" /\ v1'[v2] = "none" /\ v1[v2] # "none"
    BY DEF Login!Keyed, Login!Typed, Login!LogOut, Login!still, Login!DoAuth, Login!Signal
  <2>2. IF v4.user # "none" THEN v7 = <<>> /\ v7' = <<"none">> ELSE v7' = v7
    BY <2>1 DEF Login!LogOut, Login!DoAuth, Login!Signal, Login!Typed
  <2>3. CASE v4.user = "none"
    BY <2>1, <2>2, <2>3 DEF Login!Running, Login!Noted, Login!Typed
  <2>4. CASE v4.user # "none"
    <3>1. v7 = <<>> /\ v7' = <<"none">> /\ v7' # <<>>
      BY <2>2, <2>4
    <3> QED
      BY <2>1, <2>4, <3>1 DEF Login!Running, Login!Noted, Login!Typed
  <2> QED
    BY <2>3, <2>4
<1>6. Login!Newest'
  <2>1. CASE t
    <3>1. v4'.tokens = Login!WithToken(v4.tokens, v11) /\ v5' = Append(v5, v11)
      BY <1>8, <2>1
    <3>2. /\ Len(v4.tokens) = (IF Len(v5) < MaxTokens THEN Len(v5) ELSE MaxTokens)
          /\ \A i \in 1 .. Len(v4.tokens) : v4.tokens[i] = v5[Len(v5) - i + 1]
      BY DEF Login!Newest
    <3>3. v11 \in 1 .. MaxLogins /\ v4.tokens \in Seq(1 .. MaxLogins) /\ v5 \in Seq(1 .. MaxLogins)
      BY <1>7
    <3>4. LET w == Login!WithToken(v4.tokens, v11) j == Append(v5, v11) IN
          /\ Len(w) = IF Len(j) < MaxTokens THEN Len(j) ELSE MaxTokens
          /\ \A i \in 1 .. Len(w) : w[i] = j[Len(j) - i + 1]
      BY <3>2, <3>3, WithTokenNewest
    <3> QED
      BY <3>1, <3>4, Zenon DEF Login!Newest
  <2>2. CASE ~ t
    BY <1>8, <2>2 DEF Login!Newest
  <2> QED
    BY <2>1, <2>2
<1> QED
  BY <1>1, <1>2, <1>3, <1>4, <1>5, <1>6

LEMMA LoginUnregistered ==
  ASSUME Login!IInv, Login!Unregistered
  PROVE  Login!IInv'
<1> USE LoginAssumption DEF Login!IInv, Login!None, Login!Users
<1>1. Login!Typed'
  BY DEF Login!Typed, Login!Keyed, Login!Unregistered, Login!still, Login!Free
<1>2. Login!Keyed'
  BY DEF Login!Typed, Login!Keyed, Login!Unregistered, Login!still, Login!Free
<1>3. Login!Announced'
  BY DEF Login!Announced, Login!Typed, Login!Unregistered, Login!still, Login!Free
<1>4. Login!Starting'
  BY DEF Login!Starting, Login!Keyed, Login!Typed, Login!Announced, Login!Unregistered, Login!still, Login!Free
<1>5. Login!Running'
  BY DEF Login!Running, Login!Noted, Login!Starting, Login!Announced, Login!Keyed, Login!Typed, Login!Unregistered, Login!still, Login!Free
<1>6. Login!Newest'
  BY DEF Login!Newest, Login!Typed, Login!Unregistered, Login!still, Login!Free
<1> QED
  BY <1>1, <1>2, <1>3, <1>4, <1>5, <1>6

LEMMA LoginConnect ==
  ASSUME Login!IInv, Login!Connect
  PROVE  Login!IInv'
<1> USE LoginAssumption DEF Login!IInv, Login!None, Login!Users
<1>1. Login!Typed'
  <2>1. v8' \in RtType
    BY DEF RtType, Login!Typed, Login!Keyed, Login!Connect, Login!LoadedKey, Login!StoreSession, Login!frame, Login!Free
  <2>2. /\ v1' \in [1 .. MaxKeys -> Login!Users] /\ v12' \in 0 .. MaxKeys /\ v2' \in 0 .. v12'
        /\ v3' \in [memory : 0 .. v12', database : 0 .. v12']
    BY DEF Login!Typed, Login!Keyed, Login!Connect, Login!LoadedKey, Login!StoreSession, Login!frame, Login!Free
  <2>3. v4' \in LoginType /\ v5' \in Seq(1 .. MaxLogins)
    BY DEF Login!Typed, LoginType, Login!Connect, Login!LoadedKey, Login!StoreSession, Login!frame, Login!Free
    <2>4. /\ v6' \in {"none", "open", "closed"} /\ v9' \in Login!Users /\ v14' \in BOOLEAN /\ v13' \in Nat
        /\ v10' \in {"idle", "code", "cancel", "signIn", "password", "logOut", "stuck"}
        /\ v11' \in 0 .. MaxLogins /\ (v10' # "idle" => v11' >= 1)
    BY DEF Login!Typed, Login!Connect, Login!LoadedKey, Login!StoreSession, Login!frame, Login!Free
  <2> QED
    BY <2>1, <2>2, <2>3, <2>4 DEF Login!Typed, RtType, LoginType
<1>2. Login!Keyed'
  BY DEF Login!Typed, Login!Keyed, Login!Connect, Login!LoadedKey, Login!StoreSession, Login!frame, Login!Free
<1>3. Login!Announced'
  BY DEF Login!Announced, Login!Typed, Login!Connect, Login!LoadedKey, Login!StoreSession, Login!frame, Login!Free
<1>4. Login!Starting'
  BY DEF Login!Starting, Login!Keyed, Login!Typed, Login!Announced, Login!Connect, Login!LoadedKey, Login!StoreSession, Login!frame, Login!Free
<1>5. Login!Running'
  BY DEF Login!Running, Login!Noted, Login!Starting, Login!Announced, Login!Keyed, Login!Typed, Login!Connect, Login!LoadedKey, Login!StoreSession, Login!frame, Login!Free
<1>6. Login!Newest'
  BY DEF Login!Newest, Login!Typed, Login!Connect, Login!LoadedKey, Login!StoreSession, Login!frame, Login!Free
<1> QED
  BY <1>1, <1>2, <1>3, <1>4, <1>5, <1>6

LEMMA LoginSubscribe ==
  ASSUME Login!IInv, Login!Subscribe
  PROVE  Login!IInv'
<1> USE LoginAssumption DEF Login!IInv, Login!None, Login!Users
<1>1. Login!Typed'
  BY DEF Login!Typed, Login!Keyed, Login!Subscribe, Login!frame, Login!Free
<1>2. Login!Keyed'
  BY DEF Login!Typed, Login!Keyed, Login!Subscribe, Login!frame, Login!Free
<1>3. Login!Announced'
  BY DEF Login!Announced, Login!Typed, Login!Subscribe, Login!frame, Login!Free
<1>4. Login!Starting'
  BY DEF Login!Starting, Login!Keyed, Login!Typed, Login!Announced, Login!Subscribe, Login!frame, Login!Free
<1>5. Login!Running'
  BY DEF Login!Running, Login!Noted, Login!Starting, Login!Announced, Login!Keyed, Login!Typed, Login!Subscribe, Login!frame, Login!Free
<1>6. Login!Newest'
  BY DEF Login!Newest, Login!Typed, Login!Subscribe, Login!frame, Login!Free
<1> QED
  BY <1>1, <1>2, <1>3, <1>4, <1>5, <1>6

LEMMA LoginGetSelf ==
  ASSUME Login!IInv, Login!GetSelf
  PROVE  Login!IInv'
<1> USE LoginAssumption DEF Login!IInv, Login!None, Login!Users
<1>7. v8.pc = "self" /\ \E c \in Login!Users : v8' = [v8 EXCEPT !.pc = "auth", !.cur = c]
  <2>1. v8.pc = "self" /\ v1[v2] \in Login!Users /\ "none" \in Login!Users
    BY DEF Login!Typed, Login!Keyed, Login!GetSelf
  <2> QED
    BY <2>1 DEF Login!GetSelf
<1>8. v14' \in BOOLEAN /\ v13' \in Nat /\ UNCHANGED <<v1, v2, v3, v4, v6, v7, v9, v12, v11, v5, v10>>
  <2>1. v14' \in BOOLEAN
    BY Zenon DEF Login!Typed, Login!GetSelf
  <2> QED
    BY <2>1 DEF Login!Typed, Login!GetSelf, Login!Fault, Login!frame
<1>1. Login!Typed'
  <2>1. v8' \in RtType
    BY <1>7 DEF RtType, Login!Typed
  <2>2. /\ v1' \in [1 .. MaxKeys -> Login!Users] /\ v12' \in 0 .. MaxKeys /\ v2' \in 0 .. v12'
        /\ v3' \in [memory : 0 .. v12', database : 0 .. v12']
    BY DEF Login!Typed, Login!Keyed, Login!GetSelf, Login!Fault, Login!frame, Login!Free
  <2>3. v4' \in LoginType /\ v5' \in Seq(1 .. MaxLogins)
    BY DEF Login!Typed, LoginType, Login!GetSelf, Login!Fault, Login!frame, Login!Free
    <2>4. /\ v6' \in {"none", "open", "closed"} /\ v9' \in Login!Users /\ v14' \in BOOLEAN /\ v13' \in Nat
        /\ v10' \in {"idle", "code", "cancel", "signIn", "password", "logOut", "stuck"}
        /\ v11' \in 0 .. MaxLogins /\ (v10' # "idle" => v11' >= 1)
    BY <1>8 DEF Login!Typed
  <2> QED
    BY <2>1, <2>2, <2>3, <2>4 DEF Login!Typed, RtType, LoginType
<1>2. Login!Keyed'
  <2>1. v8'.pc = "auth" /\ v8.pc = "self"
    BY <1>7 DEF Login!Typed
  <2> QED
    BY <1>8, <2>1 DEF Login!Typed, Login!Keyed
<1>3. Login!Announced'
  BY DEF Login!Announced, Login!Typed, Login!GetSelf, Login!Fault, Login!frame, Login!Free
<1>4. Login!Starting'
  BY DEF Login!Starting, Login!Keyed, Login!Typed, Login!Announced, Login!GetSelf, Login!Fault, Login!frame, Login!Free
<1>5. Login!Running'
  BY DEF Login!Running, Login!Noted, Login!Starting, Login!Announced, Login!Keyed, Login!Typed, Login!GetSelf, Login!Fault, Login!frame, Login!Free
<1>6. Login!Newest'
  BY DEF Login!Newest, Login!Typed, Login!GetSelf, Login!Fault, Login!frame, Login!Free
<1> QED
  BY <1>1, <1>2, <1>3, <1>4, <1>5, <1>6

LEMMA LoginSetSelf ==
  ASSUME Login!IInv, Login!SetSelf
  PROVE  Login!IInv'
<1> USE LoginAssumption DEF Login!IInv, Login!None, Login!Users
<1>1. Login!Typed'
  BY DEF Login!Typed, Login!Keyed, Login!SetSelf, Login!Auth, Login!DoAuth, Login!Signal, Login!frame, Login!Free
<1>2. Login!Keyed'
  BY DEF Login!Typed, Login!Keyed, Login!SetSelf, Login!Auth, Login!DoAuth, Login!Signal, Login!frame, Login!Free
<1>3. Login!Announced'
  BY DEF Login!Announced, Login!Typed, Login!SetSelf, Login!Auth, Login!DoAuth, Login!Signal, Login!frame, Login!Free
<1>4. Login!Starting'
  BY DEF Login!Starting, Login!Keyed, Login!Typed, Login!Announced, Login!SetSelf, Login!Auth, Login!DoAuth, Login!Signal, Login!frame, Login!Free
<1>5. Login!Running'
  <2> SUFFICES ASSUME v6' = "open", ~ v14' PROVE Login!Running'
    BY DEF Login!Running
  <2>1. /\ v6 = "open" /\ ~ v14 /\ v8.pc = "auth" /\ v8'.pc = "top" /\ v2' = v2 /\ v3' = v3 /\ v9' = v9 /\ v9 = "none"
        /\ v4'.user = v8.cur /\ v1' = v1 /\ v1[v2] \in {"none", v8.cur} /\ (v4.user # "none" => v8.cur = "none")
    BY DEF Login!Keyed, Login!Typed, Login!SetSelf, Login!Auth, Login!frame, Login!DoAuth, Login!Signal, Login!Starting
  <2>2. IF v8.cur # v4.user THEN v7 = <<>> /\ v7' = <<v8.cur>> ELSE v7' = v7
    BY <2>1 DEF Login!SetSelf, Login!Auth, Login!DoAuth, Login!Signal, Login!Typed
  <2>3. CASE v8.cur = v4.user
    BY <2>1, <2>2, <2>3 DEF Login!Running, Login!Noted, Login!Typed
  <2>4. CASE v8.cur # v4.user
    <3>1. v7' # <<>>
      BY <2>2, <2>4
    <3> QED
      BY <2>1, <2>4, <3>1 DEF Login!Running, Login!Noted, Login!Typed
  <2> QED
    BY <2>3, <2>4
<1>6. Login!Newest'
  BY DEF Login!Newest, Login!Typed, Login!SetSelf, Login!Auth, Login!DoAuth, Login!Signal, Login!frame, Login!Free
<1> QED
  BY <1>1, <1>2, <1>3, <1>4, <1>5, <1>6

LEMMA LoginLoopTop ==
  ASSUME Login!IInv, Login!LoopTop
  PROVE  Login!IInv'
<1> USE LoginAssumption DEF Login!IInv, Login!None, Login!Users
<1>1. Login!Typed'
  BY DEF Login!Typed, Login!Keyed, Login!LoopTop, Login!frame, Login!Free
<1>2. Login!Keyed'
  BY DEF Login!Typed, Login!Keyed, Login!LoopTop, Login!frame, Login!Free
<1>3. Login!Announced'
  BY DEF Login!Announced, Login!Typed, Login!LoopTop, Login!frame, Login!Free
<1>4. Login!Starting'
  BY DEF Login!Starting, Login!Keyed, Login!Typed, Login!Announced, Login!LoopTop, Login!frame, Login!Free
<1>5. Login!Running'
  <2> SUFFICES ASSUME v6' = "open", ~ v14' PROVE Login!Running'
    BY DEF Login!Running
  <2>1. /\ v6 = "open" /\ ~ v14 /\ v8.pc = "top" /\ v8'.pc = "wait" /\ v8'.ses = v4.user /\ v2' = v2 /\ v3' = v3 /\ v9' = v9
        /\ v4' = v4 /\ v1' = v1 /\ v7' = v7
        /\ ~ (v7 # <<>> /\ v7[Len(v7)] = v4.user /\ v4.user # "none" /\ v3.database # v2)
    BY DEF Login!Typed, Login!LoopTop, Login!frame
  <2>2. v7 # <<>> => v7 = <<v4.user>> /\ v7[Len(v7)] = v4.user
    <3>1. ASSUME NEW x PROVE <<x>>[Len(<<x>>)] = x
      OBVIOUS
    <3> QED
      BY <2>1, <3>1 DEF Login!Announced
  <2> QED
    BY <2>1, <2>2 DEF Login!Running, Login!Noted, Login!Typed
<1>6. Login!Newest'
  BY DEF Login!Newest, Login!Typed, Login!LoopTop, Login!frame, Login!Free
<1> QED
  BY <1>1, <1>2, <1>3, <1>4, <1>5, <1>6

LEMMA LoginReceive ==
  ASSUME Login!IInv, Login!Receive
  PROVE  Login!IInv'
<1> USE LoginAssumption DEF Login!IInv, Login!None, Login!Users
<1>1. Login!Typed'
  <2>1. v8' \in RtType
    <3>1. (IF v7 # <<>> THEN Head(v7) ELSE "none") \in Login!Users
      BY DEF Login!Announced
    <3> QED
      BY <3>1 DEF RtType, Login!Typed, Login!Receive
  <2>2. /\ v1' \in [1 .. MaxKeys -> Login!Users] /\ v12' \in 0 .. MaxKeys /\ v2' \in 0 .. v12'
        /\ v3' \in [memory : 0 .. v12', database : 0 .. v12']
    BY DEF Login!Typed, Login!Keyed, Login!Receive, Login!Announced, Login!frame, Login!Free
  <2>3. v4' \in LoginType /\ v5' \in Seq(1 .. MaxLogins)
    BY DEF Login!Typed, LoginType, Login!Receive, Login!Announced, Login!frame, Login!Free
    <2>4. /\ v6' \in {"none", "open", "closed"} /\ v9' \in Login!Users /\ v14' \in BOOLEAN /\ v13' \in Nat
        /\ v10' \in {"idle", "code", "cancel", "signIn", "password", "logOut", "stuck"}
        /\ v11' \in 0 .. MaxLogins /\ (v10' # "idle" => v11' >= 1)
    BY DEF Login!Typed, Login!Receive, Login!Announced, Login!frame, Login!Free
  <2> QED
    BY <2>1, <2>2, <2>3, <2>4 DEF Login!Typed, RtType, LoginType
<1>2. Login!Keyed'
  BY DEF Login!Typed, Login!Keyed, Login!Receive, Login!frame, Login!Free
<1>3. Login!Announced'
  BY DEF Login!Announced, Login!Typed, Login!Receive, Login!frame, Login!Free
<1>4. Login!Starting'
  BY DEF Login!Starting, Login!Keyed, Login!Typed, Login!Announced, Login!Receive, Login!frame, Login!Free
<1>5. Login!Running'
  BY DEF Login!Running, Login!Noted, Login!Starting, Login!Announced, Login!Keyed, Login!Typed, Login!Receive, Login!frame, Login!Free
<1>6. Login!Newest'
  BY DEF Login!Newest, Login!Typed, Login!Receive, Login!frame, Login!Free
<1> QED
  BY <1>1, <1>2, <1>3, <1>4, <1>5, <1>6

LEMMA LoginOnLoggedOut ==
  ASSUME Login!IInv, Login!OnLoggedOut
  PROVE  Login!IInv'
<1> USE LoginAssumption DEF Login!IInv, Login!None, Login!Users
<1>1. Login!Typed'
  BY DEF Login!Typed, Login!Keyed, Login!OnLoggedOut, Login!Purged, Login!frame, Login!Free
<1>2. Login!Keyed'
  BY DEF Login!Typed, Login!Keyed, Login!OnLoggedOut, Login!Purged, Login!frame, Login!Free
<1>3. Login!Announced'
  BY DEF Login!Announced, Login!Typed, Login!OnLoggedOut, Login!Purged, Login!frame, Login!Free
<1>4. Login!Starting'
  BY DEF Login!Starting, Login!Keyed, Login!Typed, Login!Announced, Login!OnLoggedOut, Login!Purged, Login!frame, Login!Free
<1>5. Login!Running'
  BY DEF Login!Running, Login!Noted, Login!Starting, Login!Announced, Login!Keyed, Login!Typed, Login!OnLoggedOut, Login!Purged, Login!frame, Login!Free
<1>6. Login!Newest'
  BY DEF Login!Newest, Login!Typed, Login!OnLoggedOut, Login!Purged, Login!frame, Login!Free
<1> QED
  BY <1>1, <1>2, <1>3, <1>4, <1>5, <1>6

LEMMA LoginSaveSession ==
  ASSUME Login!IInv, Login!SaveSession
  PROVE  Login!IInv'
<1> USE LoginAssumption DEF Login!IInv, Login!None, Login!Users
<1>1. Login!Typed'
  <2>1. v8' \in RtType
    BY DEF RtType, Login!Typed, Login!Keyed, Login!SaveSession, Login!Stored, Login!Fault, Login!frame, Login!Free
  <2>2. /\ v1' \in [1 .. MaxKeys -> Login!Users] /\ v12' \in 0 .. MaxKeys /\ v2' \in 0 .. v12'
        /\ v3' \in [memory : 0 .. v12', database : 0 .. v12']
    BY DEF Login!Typed, Login!Keyed, Login!SaveSession, Login!Stored, Login!Fault, Login!frame, Login!Free
  <2>3. v4' \in LoginType /\ v5' \in Seq(1 .. MaxLogins)
    BY DEF Login!Typed, LoginType, Login!SaveSession, Login!Stored, Login!Fault, Login!frame, Login!Free
    <2>4. /\ v6' \in {"none", "open", "closed"} /\ v9' \in Login!Users /\ v14' \in BOOLEAN /\ v13' \in Nat
        /\ v10' \in {"idle", "code", "cancel", "signIn", "password", "logOut", "stuck"}
        /\ v11' \in 0 .. MaxLogins /\ (v10' # "idle" => v11' >= 1)
    <3>1. v14' \in BOOLEAN
      BY Zenon DEF Login!Typed, Login!SaveSession
    <3>2. v13' \in Nat
      BY DEF Login!Typed, Login!SaveSession, Login!Fault
    <3> QED
      BY <3>1, <3>2 DEF Login!Typed, Login!SaveSession, Login!frame
  <2> QED
    BY <2>1, <2>2, <2>3, <2>4 DEF Login!Typed, RtType, LoginType
<1>2. Login!Keyed'
  BY DEF Login!Typed, Login!Keyed, Login!SaveSession, Login!Stored, Login!Fault, Login!frame, Login!Free
<1>3. Login!Announced'
  BY DEF Login!Announced, Login!Typed, Login!SaveSession, Login!Stored, Login!Fault, Login!frame, Login!Free
<1>4. Login!Starting'
  BY DEF Login!Starting, Login!Keyed, Login!Typed, Login!Announced, Login!SaveSession, Login!Stored, Login!Fault, Login!frame, Login!Free
<1>5. Login!Running'
  BY DEF Login!Running, Login!Noted, Login!Starting, Login!Announced, Login!Keyed, Login!Typed, Login!SaveSession, Login!Stored, Login!Fault, Login!frame, Login!Free
<1>6. Login!Newest'
  BY DEF Login!Newest, Login!Typed, Login!SaveSession, Login!Stored, Login!Fault, Login!frame, Login!Free
<1> QED
  BY <1>1, <1>2, <1>3, <1>4, <1>5, <1>6

LEMMA LoginLoadDialogs ==
  ASSUME Login!IInv, Login!LoadDialogs
  PROVE  Login!IInv'
<1> USE LoginAssumption DEF Login!IInv, Login!None, Login!Users
<1>1. Login!Typed'
  BY DEF Login!Typed, Login!Keyed, Login!LoadDialogs, Login!Applied, Login!frame, Login!Free
<1>2. Login!Keyed'
  BY DEF Login!Typed, Login!Keyed, Login!LoadDialogs, Login!Applied, Login!frame, Login!Free
<1>3. Login!Announced'
  BY DEF Login!Announced, Login!Typed, Login!LoadDialogs, Login!Applied, Login!frame, Login!Free
<1>4. Login!Starting'
  BY DEF Login!Starting, Login!Keyed, Login!Typed, Login!Announced, Login!LoadDialogs, Login!Applied, Login!frame, Login!Free
<1>5. Login!Running'
  BY DEF Login!Running, Login!Noted, Login!Starting, Login!Announced, Login!Keyed, Login!Typed, Login!LoadDialogs, Login!Applied, Login!frame, Login!Free
<1>6. Login!Newest'
  BY DEF Login!Newest, Login!Typed, Login!LoadDialogs, Login!Applied, Login!frame, Login!Free
<1> QED
  BY <1>1, <1>2, <1>3, <1>4, <1>5, <1>6

LEMMA LoginDenied ==
  ASSUME Login!IInv, Login!Denied
  PROVE  Login!IInv'
<1> USE LoginAssumption DEF Login!IInv, Login!None, Login!Users
<1>1. Login!Typed'
  BY DEF Login!Typed, Login!Keyed, Login!Denied, Login!Auth, Login!DoAuth, Login!Signal, Login!frame, Login!Free
<1>2. Login!Keyed'
  BY DEF Login!Typed, Login!Keyed, Login!Denied, Login!Auth, Login!DoAuth, Login!Signal, Login!frame, Login!Free
<1>3. Login!Announced'
  BY DEF Login!Announced, Login!Typed, Login!Denied, Login!Auth, Login!DoAuth, Login!Signal, Login!frame, Login!Free
<1>4. Login!Starting'
  BY DEF Login!Starting, Login!Keyed, Login!Typed, Login!Announced, Login!Denied, Login!Auth, Login!DoAuth, Login!Signal, Login!frame, Login!Free
<1>5. Login!Running'
  <2> SUFFICES ASSUME v6' = "open", ~ v14' PROVE Login!Running'
    BY DEF Login!Running
  <2>1. /\ v6 = "open" /\ ~ v14 /\ v8.pc = "deny" /\ v8'.pc = "top" /\ v2' = v2 /\ v3' = v3 /\ v9' = v9
        /\ v4'.user = "none" /\ v1' = v1 /\ v1[v2] = "none"
    BY DEF Login!Keyed, Login!Typed, Login!Denied, Login!Auth, Login!frame, Login!DoAuth, Login!Signal, Login!Starting
  <2>2. IF v4.user # "none" THEN v7 = <<>> /\ v7' = <<"none">> ELSE v7' = v7
    BY <2>1 DEF Login!Denied, Login!Auth, Login!DoAuth, Login!Signal, Login!Typed
  <2>3. CASE v4.user = "none"
    BY <2>1, <2>2, <2>3 DEF Login!Running, Login!Noted, Login!Typed
  <2>4. CASE v4.user # "none"
    <3>1. v7' # <<>>
      BY <2>2, <2>4
    <3> QED
      BY <2>1, <2>4, <3>1 DEF Login!Running, Login!Noted, Login!Typed
  <2> QED
    BY <2>3, <2>4
<1>6. Login!Newest'
  BY DEF Login!Newest, Login!Typed, Login!Denied, Login!Auth, Login!DoAuth, Login!Signal, Login!frame, Login!Free
<1> QED
  BY <1>1, <1>2, <1>3, <1>4, <1>5, <1>6

LEMMA LoginRevoke ==
  ASSUME Login!IInv, Login!Revoke
  PROVE  Login!IInv'
<1> USE LoginAssumption DEF Login!IInv, Login!None, Login!Users
<1>1. Login!Typed'
  BY DEF Login!Typed, Login!Keyed, Login!Revoke, Login!Fault, Login!frame, Login!Free
<1>2. Login!Keyed'
  BY DEF Login!Typed, Login!Keyed, Login!Revoke, Login!Fault, Login!frame, Login!Free
<1>3. Login!Announced'
  BY DEF Login!Announced, Login!Typed, Login!Revoke, Login!Fault, Login!frame, Login!Free
<1>4. Login!Starting'
  BY DEF Login!Starting, Login!Keyed, Login!Typed, Login!Announced, Login!Revoke, Login!Fault, Login!frame, Login!Free
<1>5. Login!Running'
  BY DEF Login!Running, Login!Noted, Login!Starting, Login!Announced, Login!Keyed, Login!Typed, Login!Revoke, Login!Fault, Login!frame, Login!Free
<1>6. Login!Newest'
  BY DEF Login!Newest, Login!Typed, Login!Revoke, Login!Fault, Login!frame, Login!Free
<1> QED
  BY <1>1, <1>2, <1>3, <1>4, <1>5, <1>6

LEMMA LoginOnServiceNotification ==
  ASSUME Login!IInv, Login!OnServiceNotification
  PROVE  Login!IInv'
<1> USE LoginAssumption DEF Login!IInv, Login!None, Login!Users
<1>1. Login!Typed'
  <2>1. v8' \in RtType
    BY DEF RtType, Login!Typed, Login!Keyed, Login!OnServiceNotification, Login!Fault, Login!frame, Login!Free
  <2>2. /\ v1' \in [1 .. MaxKeys -> Login!Users] /\ v12' \in 0 .. MaxKeys /\ v2' \in 0 .. v12'
        /\ v3' \in [memory : 0 .. v12', database : 0 .. v12']
    <3>1. /\ v12' = v12 /\ v2' = 0 /\ v3 \in [memory : 0 .. v12, database : 0 .. v12] /\ v12 \in 0 .. MaxKeys
          /\ v3' = [v3 EXCEPT !.memory = 0]
      BY DEF Login!Typed, Login!OnServiceNotification, Login!Fault, Login!frame
    <3>2. v3' \in [memory : 0 .. v12, database : 0 .. v12]
      BY <3>1
    <3>3. v1' \in [1 .. MaxKeys -> Login!Users]
      BY DEF Login!Typed, Login!OnServiceNotification, Login!Fault, Login!frame
    <3> QED
      BY <3>1, <3>2, <3>3
  <2>3. v4' \in LoginType /\ v5' \in Seq(1 .. MaxLogins)
    BY DEF Login!Typed, LoginType, Login!OnServiceNotification, Login!Fault, Login!frame, Login!Free
    <2>4. /\ v6' \in {"none", "open", "closed"} /\ v9' \in Login!Users /\ v14' \in BOOLEAN /\ v13' \in Nat
        /\ v10' \in {"idle", "code", "cancel", "signIn", "password", "logOut", "stuck"}
        /\ v11' \in 0 .. MaxLogins /\ (v10' # "idle" => v11' >= 1)
    BY DEF Login!Typed, Login!OnServiceNotification, Login!Fault, Login!frame, Login!Free
  <2> QED
    BY <2>1, <2>2, <2>3, <2>4 DEF Login!Typed, RtType, LoginType
<1>2. Login!Keyed'
  BY DEF Login!Typed, Login!Keyed, Login!OnServiceNotification, Login!Fault, Login!frame, Login!Free
<1>3. Login!Announced'
  BY DEF Login!Announced, Login!Typed, Login!OnServiceNotification, Login!Fault, Login!frame, Login!Free
<1>4. Login!Starting'
  BY DEF Login!Starting, Login!Keyed, Login!Typed, Login!Announced, Login!OnServiceNotification, Login!Fault, Login!frame, Login!Free
<1>5. Login!Running'
  BY DEF Login!Running, Login!Noted, Login!Starting, Login!Announced, Login!Keyed, Login!Typed, Login!OnServiceNotification, Login!Fault, Login!frame, Login!Free
<1>6. Login!Newest'
  BY DEF Login!Newest, Login!Typed, Login!OnServiceNotification, Login!Fault, Login!frame, Login!Free
<1> QED
  BY <1>1, <1>2, <1>3, <1>4, <1>5, <1>6

LEMMA LoginRestart ==
  ASSUME Login!IInv, Login!Restart
  PROVE  Login!IInv'
<1> USE LoginAssumption DEF Login!IInv, Login!None, Login!Users
<1>1. Login!Typed'
  <2>1. v8' \in RtType
    BY DEF RtType, Login!Typed, Login!Keyed, Login!Restart, Login!Fault, Login!Free
  <2>2. /\ v1' \in [1 .. MaxKeys -> Login!Users] /\ v12' \in 0 .. MaxKeys /\ v2' \in 0 .. v12'
        /\ v3' \in [memory : 0 .. v12', database : 0 .. v12']
    <3>1. /\ v12' = v12 /\ v2' = 0 /\ v3 \in [memory : 0 .. v12, database : 0 .. v12] /\ v12 \in 0 .. MaxKeys
          /\ v3' = [v3 EXCEPT !.memory = v3.database]
      BY DEF Login!Typed, Login!Restart, Login!Fault
    <3>2. v3' \in [memory : 0 .. v12, database : 0 .. v12]
      BY <3>1
    <3>3. v1' \in [1 .. MaxKeys -> Login!Users]
      BY DEF Login!Typed, Login!Restart, Login!Fault
    <3> QED
      BY <3>1, <3>2, <3>3
  <2>3. v4' \in LoginType /\ v5' \in Seq(1 .. MaxLogins)
    BY DEF Login!Typed, LoginType, Login!Restart, Login!Fault, Login!Free
    <2>4. /\ v6' \in {"none", "open", "closed"} /\ v9' \in Login!Users /\ v14' \in BOOLEAN /\ v13' \in Nat
        /\ v10' \in {"idle", "code", "cancel", "signIn", "password", "logOut", "stuck"}
        /\ v11' \in 0 .. MaxLogins /\ (v10' # "idle" => v11' >= 1)
    BY DEF Login!Typed, Login!Restart, Login!Fault, Login!Free
  <2> QED
    BY <2>1, <2>2, <2>3, <2>4 DEF Login!Typed, RtType, LoginType
<1>2. Login!Keyed'
  BY DEF Login!Typed, Login!Keyed, Login!Restart, Login!Fault, Login!Free
<1>3. Login!Announced'
  BY DEF Login!Announced, Login!Typed, Login!Restart, Login!Fault, Login!Free
<1>4. Login!Starting'
  BY DEF Login!Starting, Login!Keyed, Login!Typed, Login!Announced, Login!Restart, Login!Fault, Login!Free
<1>5. Login!Running'
  BY DEF Login!Running, Login!Noted, Login!Starting, Login!Announced, Login!Keyed, Login!Typed, Login!Restart, Login!Fault, Login!Free
<1>6. Login!Newest'
  BY DEF Login!Newest, Login!Typed, Login!Restart, Login!Fault, Login!Free
<1> QED
  BY <1>1, <1>2, <1>3, <1>4, <1>5, <1>6

LEMMA LoginStep ==
  ASSUME Login!IInv, Login!Next
  PROVE  Login!IInv'
BY LoginRequest, LoginFailed, LoginSendCode, LoginCancelCode, LoginSignIn, LoginLogOut, LoginUnregistered, LoginConnect,
   LoginSubscribe, LoginGetSelf, LoginSetSelf, LoginLoopTop, LoginReceive, LoginOnLoggedOut, LoginSaveSession,
   LoginLoadDialogs, LoginDenied, LoginRevoke, LoginOnServiceNotification, LoginRestart, Zenon DEF Login!Next

LEMMA LoginRests ==
  ASSUME Login!IInv, UNCHANGED Login!loginVars
  PROVE  Login!IInv'
<1>1. UNCHANGED <<v1, v2, v3, v4, v5, v6, v7, v8, v9, v10, v11, v12, v13, v14>>
  BY DEF Login!loginVars
<1> QED
  BY <1>1 DEF Login!IInv, Login!Typed, Login!Keyed, Login!Announced, Login!Starting, Login!Running, Login!Noted, Login!Newest

LEMMA LoginTypes ==
  ASSUME Login!IInv
  PROVE  Login!TypeOK
<1>1. \A k \in DOMAIN v4.tokens : v4.tokens[k] \in 1 .. MaxLogins
  <2>1. v4.tokens \in Seq(1 .. MaxLogins)
    BY DEF Login!IInv, Login!Typed
  <2> QED
    BY <2>1, ElementsOf
<1>2. Len(v7) <= 1 /\ \A k \in DOMAIN v7 : v7[k] \in Login!Users
  <2>1. v7 = <<>> \/ \E u \in Login!Users : v7 = <<u>>
    BY DEF Login!IInv, Login!Announced
  <2>2. CASE v7 = <<>>
    BY <2>2
  <2>3. CASE v7 # <<>>
    <3>1. PICK u \in Login!Users : v7 = <<u>>
      BY <2>1, <2>3
    <3>2. Len(v7) = 1 /\ DOMAIN v7 = 1 .. 1 /\ v7[1] = u
      BY <3>1
    <3> QED
      BY <3>2
  <2> QED
    BY <2>2, <2>3
<1>3. Login!Range(v4.tokens) \subseteq 1 .. MaxLogins /\ Login!Range(v7) \subseteq Login!Users
  BY <1>1, <1>2 DEF Login!Range
<1>4. /\ v1 \in [1 .. MaxKeys -> Login!Users] /\ v2 \in 0 .. MaxKeys /\ v3 \in [memory : 0 .. MaxKeys, database : 0 .. MaxKeys]
      /\ v4.user \in Login!Users /\ v4.request \in BOOLEAN
  BY LoginAssumption DEF Login!IInv, Login!Typed
<1> QED
  BY <1>2, <1>3, <1>4 DEF Login!TypeOK, Login!IInv, Login!Typed, Login!Keyed

LEMMA LoginHolds ==
  ASSUME Login!IInv
  PROVE  Login!LoginSaved /\ Login!PeersOfUser /\ Login!TokensNewestFirst
<1>1. Login!LoginSaved /\ Login!PeersOfUser
  BY DEF Login!IInv, Login!Running, Login!Noted, Login!AtRest, Login!LoginSaved, Login!PeersOfUser, Login!None
<1>2. Login!TokensNewestFirst
  <2> DEFINE n == Len(v4.tokens)
             r == [i \in 1 .. Len(v5) |-> v5[(Len(v5) - i) + 1]]
  <2>1. v4.tokens \in Seq(1 .. MaxLogins) /\ v5 \in Seq(1 .. MaxLogins) /\ n \in Nat /\ Len(v5) \in Nat /\ MaxTokens \in Nat
    BY LoginAssumption DEF Login!IInv, Login!Typed
  <2>2. /\ n = IF Len(v5) < MaxTokens THEN Len(v5) ELSE MaxTokens
        /\ \A i \in 1 .. n : v4.tokens[i] = v5[Len(v5) - i + 1]
    BY DEF Login!IInv, Login!Newest
  <2>3. r = [i \in 1 .. Len(v5) |-> v5[(Len(v5) - i) + 1]]
    OBVIOUS
  <2>4. r \in Seq(1 .. MaxLogins) /\ Len(r) = Len(v5) /\ \A i \in 1 .. Len(v5) : r[i] = v5[Len(v5) - i + 1]
    BY <2>1, <2>3, ReverseSeq
  <2> HIDE DEF r, n
  <2>8. n \in 0 .. Len(r)
    BY <2>1, <2>2, <2>4
  <2>5. SubSeq(r, 1, n) \in Seq(1 .. MaxLogins) /\ Len(SubSeq(r, 1, n)) = n /\ \A i \in 1 .. n : SubSeq(r, 1, n)[i] = r[i]
    BY <2>4, <2>8, FirstOf
  <2>6. \A i \in 1 .. n : v4.tokens[i] = SubSeq(r, 1, n)[i]
    BY <2>1, <2>2, <2>4, <2>5, <2>8
  <2>9. Len(v4.tokens) = n
    BY DEF n
  <2>7. v4.tokens = SubSeq(r, 1, n)
    BY <2>1, <2>5, <2>6, <2>9
  <2> QED
    BY <2>2, <2>7 DEF Login!TokensNewestFirst, r, n
<1> QED
  BY <1>1, <1>2

-----------------------------------------------------------------------------

(* The Viber provider *)

(* An event under way, and one that takes a step. *)
LEMMA ViberRow ==
  ASSUME Vb!TypeOK, NEW e \in Task, v4[e] # Vb!Quiet
  PROVE  v4[e].pc \in {"post", "hook"} /\ v4[e].kind \in Vb!Kind
<1>1. v4[e] \in Vb!Row
  BY DEF Vb!TypeOK
<1> QED
  BY <1>1 DEF Vb!Row

LEMMA ViberHooked ==
  ASSUME Vb!TypeOK, NEW e \in Task, v4[e] # Vb!Quiet, NEW w, w = [v4 EXCEPT ![e].pc = "hook"]
  PROVE  /\ w \in [Task -> Vb!Row \cup {Vb!Quiet}] /\ w[e] # Vb!Quiet /\ w[e].pc = "hook" /\ w[e].kind = v4[e].kind
         /\ \A o \in Task \ {e} : w[o] = v4[o]
<1>1. v4 \in [Task -> Vb!Row \cup {Vb!Quiet}]
  BY DEF Vb!TypeOK
<1>2. v4[e] \in [pc : {"post", "hook"}, kind : Vb!Kind]
  BY <1>1 DEF Vb!Row
<1>3. [v4[e] EXCEPT !.pc = "hook"] \in [pc : {"post", "hook"}, kind : Vb!Kind]
  BY <1>2
<1>4. w[e] = [v4[e] EXCEPT !.pc = "hook"] /\ \A o \in Task \ {e} : w[o] = v4[o]
  BY <1>1
<1>5. w[e].pc = "hook" /\ w[e].kind = v4[e].kind
  BY <1>2, <1>4
<1>6. w \in [Task -> Vb!Row \cup {Vb!Quiet}]
  BY <1>1, <1>3, <1>4 DEF Vb!Row
<1>7. w[e] # Vb!Quiet
  BY <1>5 DEF Vb!Quiet
<1> QED
  BY <1>4, <1>5, <1>6, <1>7

LEMMA ViberOver ==
  ASSUME Vb!TypeOK, NEW e \in Task, NEW w, w = Vb!Over(e)
  PROVE  w \in [Task -> Vb!Row \cup {Vb!Quiet}] /\ w[e] = Vb!Quiet /\ \A o \in Task \ {e} : w[o] = v4[o]
BY DEF Vb!TypeOK, Vb!Over

LEMMA ViberStarts ==
  ASSUME Vb!Init
  PROVE  Vb!IInv
<1>1. /\ v1 = FALSE /\ v2 = FALSE /\ v3 = <<>> /\ v4 = [e \in Task |-> Vb!Quiet]
      /\ v5 = FALSE /\ v6 = FALSE /\ v7 = Vb!Quiet /\ v8 = 0 /\ v9 = 0 /\ v10 = 0
  BY Zenon DEF Vb!Init
<1>2. Vb!TypeOK
  <2>1. v3 \in Seq({"welcome", "message"})
    BY <1>1
  <2>2. v4 \in [Task -> Vb!Row \cup {Vb!Quiet}]
    BY <1>1
  <2>3. v8 \in 0 .. MaxEvents /\ v9 \in 0 .. MaxSends /\ v10 \in 0 .. MaxFails
    BY <1>1, ViberAssumption
  <2> QED
    BY <1>1, <2>1, <2>2, <2>3, Zenon DEF Vb!TypeOK
<1>3. Vb!Welcomes
  BY <1>1 DEF Vb!Welcomes
<1>4. Vb!Leaves
  BY <1>1 DEF Vb!Leaves
<1> QED
  BY <1>1, <1>2, <1>3, <1>4, Zenon DEF Vb!IInv, Vb!Sending, Vb!UnreachedNamed, Vb!CaptionOnce

(* A broadcast is left alone by all that goes on in the chat. *)
LEMMA ViberCastRests ==
  ASSUME Vb!IInv, UNCHANGED v7
  PROVE  Vb!Sending' /\ Vb!UnreachedNamed' /\ Vb!CaptionOnce'
BY Zenon DEF Vb!IInv, Vb!Sending, Vb!UnreachedNamed, Vb!CaptionOnce

LEMMA ViberPost ==
  ASSUME Vb!IInv, NEW e \in Task, NEW k \in Vb!Kind, Vb!Post(e, k)
  PROVE  Vb!IInv'
<1>1. Vb!TypeOK /\ UNCHANGED <<v2, v3, v5, v7, v9, v10>>
  BY DEF Vb!IInv, Vb!Post
<1>2. /\ v4' \in [Task -> Vb!Row \cup {Vb!Quiet}] /\ v4'[e] # Vb!Quiet /\ v4'[e].pc = "post" /\ v4'[e].kind = k
      /\ \A o \in Task \ {e} : v4'[o] = v4[o]
  <2>1. v4' = [v4 EXCEPT ![e] = [pc |-> "post", kind |-> k]] /\ v4 \in [Task -> Vb!Row \cup {Vb!Quiet}]
    BY <1>1 DEF Vb!Post, Vb!TypeOK
  <2>2. [pc |-> "post", kind |-> k] \in Vb!Row
    BY DEF Vb!Row
  <2>3. v4'[e] = [pc |-> "post", kind |-> k] /\ \A o \in Task \ {e} : v4'[o] = v4[o]
    BY <2>1
  <2>4. v4' \in [Task -> Vb!Row \cup {Vb!Quiet}]
    BY <2>1, <2>2, <2>3
  <2>5. v4'[e].pc = "post" /\ v4'[e].kind = k
    BY <2>3
  <2> QED
    BY <2>3, <2>4, <2>5 DEF Vb!Quiet
<1>3. v1' \in BOOLEAN /\ (v6' = (k = "left")) /\ v6' \in BOOLEAN /\ v4[e] = Vb!Quiet
  <2>1. (v6' = (k = "left")) /\ v4[e] = Vb!Quiet /\ (k = "left") \in BOOLEAN
    BY Zenon DEF Vb!Post
  <2>2. v1 \in BOOLEAN /\ (k = "message") \in BOOLEAN
    BY <1>1, Zenon DEF Vb!TypeOK
  <2>3. v1' = IF k = "started" THEN v1 ELSE k = "message"
    BY Zenon DEF Vb!Post
  <2>4. v1' \in BOOLEAN
    BY <2>2, <2>3, Zenon
  <2>5. v6' \in BOOLEAN
    BY <2>1, Zenon
  <2> QED
    BY <2>1, <2>4, <2>5, Zenon
<1>4. Vb!TypeOK'
  <2>1. v8' \in 0 .. MaxEvents
    <3>1. v8 \in 0 .. MaxEvents /\ v8 < MaxEvents /\ v8' = v8 + 1
      BY <1>1, Zenon DEF Vb!Post, Vb!TypeOK
    <3> QED
      BY <3>1, ViberAssumption
  <2> QED
    BY <1>1, <1>2, <1>3, <2>1, Zenon DEF Vb!TypeOK
<1>5. Vb!Welcomes'
  BY <1>1, <1>2 DEF Vb!IInv, Vb!Welcomes
<1>6. Vb!Leaves'
  BY <1>1, <1>2, <1>3 DEF Vb!Leaves
<1> QED
  BY <1>1, <1>4, <1>5, <1>6, ViberCastRests, Zenon DEF Vb!IInv

LEMMA ViberGetChannel ==
  ASSUME Vb!IInv, NEW e \in Task, Vb!GetChannel(e)
  PROVE  Vb!IInv'
<1>1. Vb!TypeOK /\ UNCHANGED <<v1, v2, v3, v5, v6, v7, v8, v9, v10>> /\ v4[e] # Vb!Quiet /\ v4[e].pc = "post"
  BY Zenon DEF Vb!IInv, Vb!GetChannel
<1>2. v4[e].kind \in {"started", "message", "left"}
  BY <1>1, ViberRow DEF Vb!Kind
<1>3. CASE Vb!Wanted(v4[e].kind)
  <2>1. /\ v4' \in [Task -> Vb!Row \cup {Vb!Quiet}] /\ v4'[e] # Vb!Quiet /\ v4'[e].pc = "hook" /\ v4'[e].kind = v4[e].kind
        /\ \A o \in Task \ {e} : v4'[o] = v4[o]
    <3>1. v4' = [v4 EXCEPT ![e].pc = "hook"]
      BY <1>3 DEF Vb!GetChannel
    <3> QED
      BY <1>1, <3>1, ViberHooked
  <2>2. v4[e].kind = "started" => ~ v2
    BY <1>3 DEF Vb!Wanted, Vb!IsNew
  <2>3. Vb!TypeOK'
    BY <1>1, <2>1, Zenon DEF Vb!TypeOK
  <2>4. Vb!Welcomes'
    BY <1>1, <2>1, <2>2 DEF Vb!IInv, Vb!Welcomes
  <2>5. Vb!Leaves'
    BY <1>1, <2>1 DEF Vb!IInv, Vb!Leaves
  <2> QED
    BY <1>1, <2>3, <2>4, <2>5, ViberCastRests, Zenon DEF Vb!IInv
<1>4. CASE ~ Vb!Wanted(v4[e].kind)
  <2>1. v4' \in [Task -> Vb!Row \cup {Vb!Quiet}] /\ v4'[e] = Vb!Quiet /\ \A o \in Task \ {e} : v4'[o] = v4[o]
    <3>1. v4' = Vb!Over(e)
      BY <1>4 DEF Vb!GetChannel
    <3> QED
      BY <1>1, <3>1, ViberOver
  <2>2. v4[e].kind = "left" => ~ v2
    BY <1>4 DEF Vb!Wanted, Vb!IsNew
  <2>3. Vb!TypeOK'
    BY <1>1, <2>1, Zenon DEF Vb!TypeOK
  <2>4. Vb!Welcomes'
    BY <1>1, <2>1 DEF Vb!IInv, Vb!Welcomes
  <2>5. Vb!Leaves'
    BY <1>1, <2>1, <2>2 DEF Vb!IInv, Vb!Leaves
  <2> QED
    BY <1>1, <2>3, <2>4, <2>5, ViberCastRests, Zenon DEF Vb!IInv
<1> QED
  BY <1>3, <1>4

(* A welcome is read into an empty chat, unless something was read beside it. *)
LEMMA ViberRead ==
  ASSUME Vb!IInv, NEW e \in Task, Vb!Read(e)
  PROVE  Vb!IInv'
<1>1. /\ Vb!TypeOK /\ UNCHANGED <<v1, v7, v8, v9, v10>> /\ v4[e] # Vb!Quiet /\ v4[e].pc = "hook" /\ v2' = TRUE /\ v6' = FALSE
      /\ (v5' = (v5 \/ \E o \in Task \ {e} : v4[o] # Vb!Quiet /\ v4[o].kind = "started" /\ v4[o].pc = "hook"))
  BY Zenon DEF Vb!IInv, Vb!Read
<1>2. v4' \in [Task -> Vb!Row \cup {Vb!Quiet}] /\ v4'[e] = Vb!Quiet /\ \A o \in Task \ {e} : v4'[o] = v4[o]
  <2>1. v4' = Vb!Over(e)
    BY DEF Vb!Read
  <2> QED
    BY <1>1, <2>1, ViberOver
<1>3. PICK w \in {"welcome", "message"} : v3' = Append(v3, w) /\ (w = "welcome" => v4[e].kind = "started")
  BY DEF Vb!Read
<1>4. v3 \in Seq({"welcome", "message"}) /\ (~ v2 => v3 = <<>>) /\ v5 \in BOOLEAN
  BY <1>1 DEF Vb!TypeOK
<1>5. /\ v3' \in Seq({"welcome", "message"}) /\ Len(v3') = Len(v3) + 1 /\ v3'[Len(v3) + 1] = w
      /\ \A i \in 1 .. Len(v3) : v3'[i] = v3[i]
  BY <1>3, <1>4
<1>6. Vb!TypeOK'
  BY <1>1, <1>2, <1>4, <1>5, Zenon DEF Vb!TypeOK
<1>7. Vb!Welcomes'
  <2> SUFFICES ASSUME ~ v5' PROVE Vb!Welcomes'
    BY DEF Vb!Welcomes
  <2>1. ~ v5 /\ \A o \in Task \ {e} : ~ (v4[o] # Vb!Quiet /\ v4[o].kind = "started" /\ v4[o].pc = "hook")
    BY <1>1, <1>4
  <2>2. w = "welcome" => Len(v3) = 0
    BY <1>1, <1>3, <1>4, <2>1 DEF Vb!IInv, Vb!Welcomes
  <2>3. \A i \in DOMAIN v3' : v3'[i] = "welcome" => i = 1
    BY <1>4, <1>5, <2>1, <2>2 DEF Vb!IInv, Vb!Welcomes
  <2>4. \A o \in Task : ~ (v4'[o] # Vb!Quiet /\ v4'[o].pc = "hook" /\ v4'[o].kind = "started")
    BY <1>2, <2>1, Zenon
  <2> QED
    BY <2>3, <2>4, Zenon DEF Vb!Welcomes
<1>8. Vb!Leaves'
  BY <1>1 DEF Vb!Leaves
<1> QED
  BY <1>1, <1>6, <1>7, <1>8, ViberCastRests, Zenon DEF Vb!IInv

LEMMA ViberClose ==
  ASSUME Vb!IInv, NEW e \in Task, Vb!Close(e)
  PROVE  Vb!IInv'
<1>1. Vb!TypeOK /\ UNCHANGED <<v1, v5, v6, v7, v8, v9, v10>> /\ v2' = FALSE /\ v3' = <<>>
  BY Zenon DEF Vb!IInv, Vb!Close
<1>2. v4' \in [Task -> Vb!Row \cup {Vb!Quiet}] /\ v4'[e] = Vb!Quiet /\ \A o \in Task \ {e} : v4'[o] = v4[o]
  <2>1. v4' = Vb!Over(e)
    BY DEF Vb!Close
  <2> QED
    BY <1>1, <2>1, ViberOver
<1>3. v3' \in Seq({"welcome", "message"})
  BY <1>1
<1>4. Vb!TypeOK'
  BY <1>1, <1>2, <1>3, Zenon DEF Vb!TypeOK
<1>5. Vb!Welcomes' /\ Vb!Leaves'
  BY <1>1 DEF Vb!Welcomes, Vb!Leaves
<1> QED
  BY <1>1, <1>4, <1>5, ViberCastRests, Zenon DEF Vb!IInv

LEMMA ViberHookFails ==
  ASSUME Vb!IInv, NEW e \in Task, Vb!HookFails(e)
  PROVE  Vb!IInv'
<1>1. Vb!TypeOK /\ UNCHANGED <<v1, v2, v3, v5, v7, v8, v9>> /\ v6' = FALSE
  BY Zenon DEF Vb!IInv, Vb!HookFails
<1>2. v4' \in [Task -> Vb!Row \cup {Vb!Quiet}] /\ v4'[e] = Vb!Quiet /\ \A o \in Task \ {e} : v4'[o] = v4[o]
  <2>1. v4' = Vb!Over(e)
    BY DEF Vb!HookFails
  <2> QED
    BY <1>1, <2>1, ViberOver
<1>3. v10' \in 0 .. MaxFails
  BY <1>1, ViberAssumption DEF Vb!HookFails, Vb!TypeOK
<1>4. Vb!TypeOK'
  BY <1>1, <1>2, <1>3, Zenon DEF Vb!TypeOK
<1>5. Vb!Welcomes'
  BY <1>1, <1>2 DEF Vb!IInv, Vb!Welcomes
<1>6. Vb!Leaves'
  BY <1>1 DEF Vb!Leaves
<1> QED
  BY <1>1, <1>4, <1>5, <1>6, ViberCastRests, Zenon DEF Vb!IInv

(* A message that is refused closes the chat of one who is not subscribed. *)
LEMMA ViberSendNotify ==
  ASSUME Vb!IInv, Vb!SendNotify
  PROVE  Vb!IInv'
<1>1. Vb!TypeOK /\ UNCHANGED <<v1, v4, v5, v7, v8, v10>> /\ (v6' = (v6 \/ ~ v1)) /\ v1 \in BOOLEAN /\ v6 \in BOOLEAN
  BY Zenon DEF Vb!IInv, Vb!SendNotify, Vb!TypeOK
<1>2. v9' \in 0 .. MaxSends
  BY <1>1, ViberAssumption DEF Vb!SendNotify, Vb!TypeOK
<1>3. CASE ~ v1
  <2>1. v2' = FALSE /\ v3' = <<>> /\ v3' \in Seq({"welcome", "message"})
    BY <1>3 DEF Vb!SendNotify, Vb!Refused
  <2>2. Vb!TypeOK'
    BY <1>1, <1>2, <2>1, Zenon DEF Vb!TypeOK
  <2>3. Vb!Welcomes' /\ Vb!Leaves'
    BY <2>1 DEF Vb!Welcomes, Vb!Leaves
  <2> QED
    BY <1>1, <2>2, <2>3, ViberCastRests, Zenon DEF Vb!IInv
<1>4. CASE v1
  <2>1. UNCHANGED <<v2, v3>>
    BY <1>4, Zenon DEF Vb!SendNotify, Vb!Refused
  <2>2. Vb!TypeOK'
    BY <1>1, <1>2, <2>1, Zenon DEF Vb!TypeOK
  <2>3. Vb!Welcomes' /\ Vb!Leaves'
    BY <1>1, <1>4, <2>1, Zenon DEF Vb!IInv, Vb!Welcomes, Vb!Leaves
  <2> QED
    BY <1>1, <2>2, <2>3, ViberCastRests, Zenon DEF Vb!IInv
<1> QED
  BY <1>1, <1>3, <1>4

LEMMA ViberCloseConversation ==
  ASSUME Vb!IInv, Vb!CloseConversation
  PROVE  Vb!IInv'
<1>1. Vb!TypeOK /\ UNCHANGED <<v1, v4, v5, v6, v7, v8, v9, v10>> /\ v2' = FALSE /\ v3' = <<>>
  BY Zenon DEF Vb!IInv, Vb!CloseConversation
<1>2. v3' \in Seq({"welcome", "message"})
  BY <1>1
<1>3. Vb!TypeOK'
  BY <1>1, <1>2, Zenon DEF Vb!TypeOK
<1>4. Vb!Welcomes' /\ Vb!Leaves'
  BY <1>1 DEF Vb!Welcomes, Vb!Leaves
<1> QED
  BY <1>1, <1>3, <1>4, ViberCastRests, Zenon DEF Vb!IInv

(* The chat is left alone by a broadcast. *)
LEMMA ViberChatRests ==
  ASSUME Vb!IInv, UNCHANGED <<v1, v2, v3, v4, v5, v6, v8, v9>>, v7' \in Vb!CastRow, v10' \in 0 .. MaxFails
  PROVE  Vb!TypeOK' /\ Vb!Welcomes' /\ Vb!Leaves'
BY Zenon DEF Vb!IInv, Vb!TypeOK, Vb!Welcomes, Vb!Leaves

LEMMA ViberCastRow ==
  ASSUME Vb!IInv, v7 # Vb!Quiet
  PROVE  v7 \in Vb!CastRow
BY Zenon DEF Vb!IInv, Vb!TypeOK

LEMMA ViberBroadcastMessage ==
  ASSUME Vb!IInv, NEW m \in Vb!Media, NEW said \in BOOLEAN, Vb!BroadcastMessage(m, said)
  PROVE  Vb!IInv'
<1>1. UNCHANGED <<v1, v2, v3, v4, v5, v6, v8, v9, v10>> /\ v10 \in 0 .. MaxFails
  BY Zenon DEF Vb!BroadcastMessage, Vb!IInv, Vb!TypeOK
<1>2. PICK pc \in {"caption", "body"} :
        /\ pc = IF m # "text" /\ said /\ ~ Vb!Within(m) THEN "caption" ELSE "body"
        /\ v7' = [pc |-> pc, media |-> m, said |-> said, tried |-> FALSE, caption |-> {}, body |-> {}, shown |-> {},
                  bodyOk |-> FALSE, fail |-> {}, err |-> FALSE]
  BY DEF Vb!BroadcastMessage
<1>3. v7' \in Vb!CastRow
  BY <1>2 DEF Vb!CastRow
<1>4. /\ v7'.pc = pc /\ v7'.media = m /\ v7'.said = said /\ v7'.tried = FALSE /\ v7'.caption = {} /\ v7'.body = {}
      /\ v7'.shown = {} /\ v7'.bodyOk = FALSE
  BY <1>2
<1>5. Vb!Sending'
  BY <1>2, <1>4 DEF Vb!Sending, Vb!Within
<1>6. Vb!UnreachedNamed' /\ Vb!CaptionOnce'
  BY <1>4 DEF Vb!UnreachedNamed, Vb!CaptionOnce
<1> QED
  BY <1>1, <1>3, <1>5, <1>6, ViberChatRests, Zenon DEF Vb!IInv

LEMMA ViberCastCaption ==
  ASSUME Vb!IInv, NEW r \in SUBSET Party, Vb!CastCaption(r)
  PROVE  Vb!IInv'
<1>1. UNCHANGED <<v1, v2, v3, v4, v5, v6, v8, v9, v10>> /\ v10 \in 0 .. MaxFails /\ v7 # Vb!Quiet /\ v7.pc = "caption"
  BY Zenon DEF Vb!CastCaption, Vb!IInv, Vb!TypeOK
<1>2. v7 \in Vb!CastRow /\ v7' = [v7 EXCEPT !.pc = "body", !.tried = TRUE, !.caption = r, !.fail = Party \ r]
  BY <1>1, ViberCastRow DEF Vb!CastCaption
<1>3. v7' \in Vb!CastRow
  BY <1>2 DEF Vb!CastRow
<1>4. /\ v7'.pc = "body" /\ v7'.media = v7.media /\ v7'.said = v7.said /\ v7'.tried = TRUE /\ v7'.body = v7.body
      /\ v7'.shown = v7.shown /\ v7'.bodyOk = v7.bodyOk
  BY <1>2 DEF Vb!CastRow
<1>5. Vb!Sending'
  BY <1>1, <1>4 DEF Vb!IInv, Vb!Sending, Vb!Within
<1>6. Vb!UnreachedNamed' /\ Vb!CaptionOnce'
  BY <1>4 DEF Vb!UnreachedNamed, Vb!CaptionOnce
<1> QED
  BY <1>1, <1>3, <1>5, <1>6, ViberChatRests, Zenon DEF Vb!IInv

(* The answer to the file names whom it did not reach; the caption went with the file or before it. *)
LEMMA ViberCastBody ==
  ASSUME Vb!IInv, NEW r \in SUBSET Party, Vb!CastBody(r)
  PROVE  Vb!IInv'
<1>1. UNCHANGED <<v1, v2, v3, v4, v5, v6, v8, v9, v10>> /\ v10 \in 0 .. MaxFails /\ v7 # Vb!Quiet /\ v7.pc = "body"
  BY Zenon DEF Vb!CastBody, Vb!IInv, Vb!TypeOK
<1>2. PICK sh \in SUBSET Party :
        /\ sh = IF v7.said /\ Vb!WithText(v7.media) THEN r ELSE {}
        /\ v7' = [v7 EXCEPT !.pc = "done", !.body = r, !.bodyOk = TRUE, !.fail = Party \ r, !.shown = sh]
  BY DEF Vb!CastBody, Vb!Failures
<1>3. v7 \in Vb!CastRow
  BY <1>1, ViberCastRow
<1>4. v7' \in Vb!CastRow
  BY <1>2, <1>3 DEF Vb!CastRow
<1>5. /\ v7'.pc = "done" /\ v7'.media = v7.media /\ v7'.said = v7.said /\ v7'.tried = v7.tried /\ v7'.caption = v7.caption
      /\ v7'.body = r /\ v7'.shown = sh /\ v7'.fail = Party \ r
      /\ v7.media \in Vb!Media
  BY <1>2, <1>3 DEF Vb!CastRow
<1>6. Vb!Sending'
  BY <1>5 DEF Vb!Sending
<1>7. Vb!UnreachedNamed'
  BY <1>5 DEF Vb!UnreachedNamed
<1>8. Vb!CaptionOnce'
  <2> SUFFICES ASSUME v7.said, v7.media \notin {"text", "webp"}
               PROVE  \A p \in r : (v7.tried \/ p \in sh) /\ ~ (p \in v7.caption /\ p \in sh)
    BY <1>5 DEF Vb!CaptionOnce
  <2>1. IF Vb!Within(v7.media) THEN v7.caption = {} ELSE v7.tried
    BY <1>1 DEF Vb!IInv, Vb!Sending
  <2>2. CASE v7.media = "image"
    BY <1>2, <2>1, <2>2 DEF Vb!Within, Vb!WithText
  <2>3. CASE v7.media \in {"large", "document"}
    BY <1>2, <2>1, <2>3 DEF Vb!Within, Vb!WithText
  <2> QED
    BY <1>5, <2>2, <2>3 DEF Vb!Media
<1> QED
  BY <1>1, <1>4, <1>6, <1>7, <1>8, ViberChatRests, Zenon DEF Vb!IInv

LEMMA ViberCastFails ==
  ASSUME Vb!IInv, Vb!CastFails
  PROVE  Vb!IInv'
<1>1. UNCHANGED <<v1, v2, v3, v4, v5, v6, v8, v9>> /\ v7 # Vb!Quiet /\ v7.pc # "done"
  BY Zenon DEF Vb!CastFails
<1>2. v10' \in 0 .. MaxFails
  <2>1. v10 \in 0 .. MaxFails /\ v10 < MaxFails /\ v10' = v10 + 1
    BY Zenon DEF Vb!IInv, Vb!TypeOK, Vb!CastFails
  <2> QED
    BY <2>1, ViberAssumption
<1>3. v7 \in Vb!CastRow
  BY <1>1, ViberCastRow
<1>4. PICK x \in BOOLEAN : v7' = [v7 EXCEPT !.pc = "done", !.err = x]
  <2>1. (v7.pc = "caption" \/ v7.media = "text" \/ Vb!Within(v7.media) \/ ~ v7.said) \in BOOLEAN
    OBVIOUS
  <2> QED
    BY <2>1, Zenon DEF Vb!CastFails
<1>5. v7' \in Vb!CastRow
  BY <1>3, <1>4 DEF Vb!CastRow
<1>6. v7'.pc = "done" /\ v7'.body = v7.body /\ v7'.bodyOk = v7.bodyOk
  BY <1>3, <1>4 DEF Vb!CastRow
<1>7. v7.body = {} /\ v7.bodyOk = FALSE
  BY <1>1, <1>3 DEF Vb!IInv, Vb!Sending, Vb!CastRow
<1>8. Vb!Sending' /\ Vb!UnreachedNamed' /\ Vb!CaptionOnce'
  BY <1>6, <1>7 DEF Vb!Sending, Vb!UnreachedNamed, Vb!CaptionOnce
<1> QED
  BY <1>1, <1>2, <1>5, <1>8, ViberChatRests, Zenon DEF Vb!IInv

LEMMA ViberStep ==
  ASSUME Vb!IInv, Vb!Next
  PROVE  Vb!IInv'
BY ViberPost, ViberGetChannel, ViberRead, ViberClose, ViberHookFails, ViberSendNotify, ViberCloseConversation,
   ViberBroadcastMessage, ViberCastCaption, ViberCastBody, ViberCastFails, Zenon DEF Vb!Next

LEMMA ViberRests ==
  ASSUME Vb!IInv, UNCHANGED Vb!viberVars
  PROVE  Vb!IInv'
<1>1. UNCHANGED <<v1, v2, v3, v4, v5, v6, v7, v8, v9, v10>>
  BY Zenon DEF Vb!viberVars
<1>2. Vb!TypeOK' /\ Vb!Welcomes' /\ Vb!Leaves'
  BY <1>1, Zenon DEF Vb!IInv, Vb!TypeOK, Vb!Welcomes, Vb!Leaves
<1> QED
  BY <1>1, <1>2, ViberCastRests, Zenon DEF Vb!IInv

LEMMA ViberHolds ==
  ASSUME Vb!IInv
  PROVE  Vb!TypeOK /\ Vb!WelcomeFirst /\ Vb!GoneIsClosed /\ Vb!UnreachedNamed /\ Vb!CaptionOnce
BY Zenon DEF Vb!IInv, Vb!Welcomes, Vb!WelcomeFirst, Vb!Leaves, Vb!GoneIsClosed

-----------------------------------------------------------------------------

(* The VK provider *)

(* What a message taken anew has of parts. *)
LEMMA VkWanted ==
  ASSUME NEW P \in Nat, NEW N \in Nat, NEW l \in Wall
  PROVE  Vk(P, N)!Wanted(l) = Len(Vk(P, N)!Parts(l)) /\ Vk(P, N)!Wanted(l) \in Nat
<1>1. Vk(P, N)!Decoded(l) \in Seq(STRING)
  BY VkAssumption DEF Vk!Decoded
<1>2. Len(Vk(P, N)!Parts(l)) = Vk(P, N)!Wanted(l)
  BY <1>1 DEF Vk!Parts, Vk!Wanted
<1>3. Vk(P, N)!Wanted(l) \in Nat
  <2>1. PICK d \in Nat : d = Len(Vk(P, N)!Decoded(l))
    BY <1>1
  <2>2. PICK g \in Nat : g = IF l.geo THEN 1 ELSE 0
    OBVIOUS
  <2>3. PICK t \in Nat : t = IF l.text THEN 1 ELSE 0
    OBVIOUS
  <2>4. Vk(P, N)!Wanted(l) = d + g + t
    BY <2>1, <2>2, <2>3, Zenon DEF Vk!Wanted
  <2> QED
    BY <2>4
<1> QED
  BY <1>2, <1>3

LEMMA VkPeers ==
  ASSUME NEW P \in Nat, NEW N \in Nat, NEW l \in Wall
  PROVE  /\ l.from \in Writer /\ l.peer \in {l.from} \cup Group /\ l.peer \in Vk(P, N)!Peer /\ l.from \in Vk(P, N)!Peer
         /\ "none" \notin Vk(P, N)!Peer /\ (l.peer \notin Group => l.peer = l.from)
BY VkAssumption DEF Vk!Peer

LEMMA VkStarts ==
  ASSUME NEW P \in Nat, NEW N \in Nat, Vk(P, N)!Init
  PROVE  Vk(P, N)!IInv
<1> DEFINE Pr == Vk(P, N)!Peer
<1>1. /\ v1 = [l \in Wall |-> Vk(P, N)!Away] /\ v2 = {} /\ v3 = [p \in Pr |-> "none"] /\ v4 = [p \in Pr |-> "none"]
      /\ v5 = FALSE /\ v6 = <<>> /\ v7 = {} /\ v8 = Vk(P, N)!Quiet /\ v9 = 0 /\ v10 = 0 /\ v11 = 0
  BY Zenon DEF Vk!Init, Vk!None
<1> HIDE DEF Pr
<1>2. Vk(P, N)!TypeOK
  <2>1. v6 \in Seq([l : Wall, i : Nat, chat : Pr]) /\ v9 \in 0 .. P /\ v10 \in 0 .. N /\ v11 \in 0 .. MaxFails
    BY <1>1, VkAssumption
  <2>2. v1 \in [Wall -> Vk(P, N)!Row \cup {Vk(P, N)!Away}] /\ v3 \in [Pr -> Pr \cup {"none"}] /\ v4 \in [Pr -> Pr \cup {"none"}]
    BY <1>1
  <2> QED
    BY <1>1, <2>1, <2>2, Zenon DEF Vk!TypeOK, Vk!None, Pr
<1>3. Vk(P, N)!Looked /\ Vk(P, N)!Own
  BY <1>1 DEF Vk!Looked, Vk!Own, Vk!None, Pr
<1>4. Vk(P, N)!OwnChat
  BY <1>1 DEF Vk!OwnChat
<1>5. Vk(P, N)!Behind
  BY <1>1 DEF Vk!Behind
<1>6. Vk(P, N)!Once
  BY <1>1 DEF Vk!Once
<1>7. Vk(P, N)!Uploading
  BY <1>1 DEF Vk!Uploading
<1> QED
  BY <1>2, <1>3, <1>4, <1>5, <1>6, <1>7 DEF Vk!IInv

LEMMA VkRow ==
  ASSUME NEW P \in Nat, NEW N \in Nat, Vk(P, N)!IInv, NEW l \in Wall, v1[l] # Vk(P, N)!Away
  PROVE  v1[l] \in Vk(P, N)!Row /\ v1[l].i \in Nat
<1>1. v1[l] \in Vk(P, N)!Row
  BY DEF Vk!IInv, Vk!TypeOK
<1> QED
  BY <1>1 DEF Vk!Row

(* A request that ends, and one that gets a new row. *)
LEMMA VkRowSet ==
  ASSUME NEW P \in Nat, NEW N \in Nat, Vk(P, N)!IInv, NEW l \in Wall, NEW r \in Vk(P, N)!Row \cup {Vk(P, N)!Away}
  PROVE  LET w == [v1 EXCEPT ![l] = r] IN
         w \in [Wall -> Vk(P, N)!Row \cup {Vk(P, N)!Away}] /\ w[l] = r /\ \A m \in Wall \ {l} : w[m] = v1[m]
BY DEF Vk!IInv, Vk!TypeOK

(* What is sent rests while messages come, and the other way round. *)
LEMMA VkNoteRests ==
  ASSUME NEW P \in Nat, NEW N \in Nat, Vk(P, N)!IInv, UNCHANGED <<v8, v10>>
  PROVE  /\ Vk(P, N)!Uploading' /\ v10' \in 0 .. N /\ v8' \in Vk(P, N)!NoteRow \cup {Vk(P, N)!Quiet}
         /\ ((v8 # Vk(P, N)!Quiet /\ v8.pc = "sent") => (v8.uploads = 1 <=> v8.type \in {"image", "file"}))'
BY Zenon DEF Vk!IInv, Vk!TypeOK, Vk!Uploading

LEMMA VkFailed ==
  ASSUME NEW P \in Nat, NEW N \in Nat, Vk(P, N)!IInv, (v11 < MaxFails /\ v11' = v11 + 1) \/ UNCHANGED v11
  PROVE  v11' \in 0 .. MaxFails
<1>1. v11 \in 0 .. MaxFails
  BY Zenon DEF Vk!IInv, Vk!TypeOK
<1> QED
  BY <1>1, VkAssumption

(* What was read stays read: only what is answered and how far a request is need a look. *)
LEMMA VkBehind ==
  ASSUME NEW P \in Nat, NEW N \in Nat, Vk(P, N)!IInv,
         \A m \in Wall : \A k \in Nat : Vk(P, N)!IsRead(m, k) => Vk(P, N)!IsRead(m, k)',
         \A m \in v2' : m \notin v2 => m \in Wall /\ \A k \in 1 .. Vk(P, N)!Wanted(m) : Vk(P, N)!IsRead(m, k)',
         \A m \in Wall : v1'[m] # Vk(P, N)!Away =>
           \/ v1[m] # Vk(P, N)!Away /\ v1'[m].i = v1[m].i
           \/ v1'[m].i >= 1 /\ \A k \in 1 .. v1'[m].i - 1 : Vk(P, N)!IsRead(m, k)'
  PROVE  Vk(P, N)!Behind'
<1>1. \A m \in v2' : \A k \in 1 .. Vk(P, N)!Wanted(m) : Vk(P, N)!IsRead(m, k)'
  <2> TAKE m \in v2'
  <2> TAKE k \in 1 .. Vk(P, N)!Wanted(m)
  <2>1. CASE m \in v2
    <3>1. m \in Wall /\ Vk(P, N)!IsRead(m, k)
      BY <2>1 DEF Vk!IInv, Vk!TypeOK, Vk!Behind
    <3>2. k \in Nat
      BY <3>1, VkWanted
    <3> QED
      BY <3>1, <3>2
  <2> QED
    BY <2>1
<1>2. ASSUME NEW m \in Wall, v1'[m] # Vk(P, N)!Away PROVE v1'[m].i >= 1 /\ \A k \in 1 .. v1'[m].i - 1 : Vk(P, N)!IsRead(m, k)'
  <2>1. CASE v1[m] # Vk(P, N)!Away /\ v1'[m].i = v1[m].i
    <3>1. v1[m].i \in Nat /\ v1[m].i >= 1 /\ \A k \in 1 .. v1[m].i - 1 : Vk(P, N)!IsRead(m, k)
      BY <2>1, VkRow DEF Vk!IInv, Vk!Behind
    <3> QED
      BY <2>1, <3>1
  <2> QED
    BY <1>2, <2>1
<1>3. (\A m \in v2 : \A k \in 1 .. Vk(P, N)!Wanted(m) : Vk(P, N)!IsRead(m, k))'
  BY <1>1 DEF Vk!IsRead
<1>4. (\A m \in Wall : v1[m] # Vk(P, N)!Away => v1[m].i >= 1 /\ \A k \in 1 .. v1[m].i - 1 : Vk(P, N)!IsRead(m, k))'
  BY <1>2 DEF Vk!IsRead, Vk!Away
<1> QED
  BY <1>3, <1>4, Zenon DEF Vk!Behind

LEMMA VkSame ==
  ASSUME NEW P \in Nat, NEW N \in Nat, UNCHANGED v6
  PROVE  \A m \in Wall : \A k \in Nat : Vk(P, N)!IsRead(m, k) => Vk(P, N)!IsRead(m, k)'
BY DEF Vk!IsRead

LEMMA VkOnce ==
  ASSUME NEW P \in Nat, NEW N \in Nat, Vk(P, N)!IInv, UNCHANGED v6, v7 \subseteq v7',
         \A m \in Wall : v1'[m] # Vk(P, N)!Away =>
           \/ v1[m] # Vk(P, N)!Away /\ v1'[m].i = v1[m].i
           \/ m \notin v7' => \A j \in DOMAIN v6 : v6[j].l # m
  PROVE  Vk(P, N)!Once'
<1> SUFFICES ASSUME NEW m \in Wall \ v7'
             PROVE  /\ \A j, k \in DOMAIN v6 : v6[j].l = m /\ v6[k].l = m /\ v6[j].i = v6[k].i => j = k
                    /\ v1'[m] # Vk(P, N)!Away => \A j \in DOMAIN v6 : v6[j].l = m => v6[j].i < v1'[m].i
  BY DEF Vk!Once
<1>1. m \in Wall \ v7
  OBVIOUS
<1>2. /\ \A j, k \in DOMAIN v6 : v6[j].l = m /\ v6[k].l = m /\ v6[j].i = v6[k].i => j = k
      /\ v1[m] # Vk(P, N)!Away => \A j \in DOMAIN v6 : v6[j].l = m => v6[j].i < v1[m].i
  BY <1>1 DEF Vk!IInv, Vk!Once
<1> QED
  BY <1>2

LEMMA VkPost ==
  ASSUME NEW P \in Nat, NEW N \in Nat, Vk(P, N)!IInv, NEW l \in Wall, Vk(P, N)!Post(l)
  PROVE  Vk(P, N)!IInv'
<1> DEFINE Away == Vk(P, N)!Away
<1>1. /\ UNCHANGED <<v2, v3, v4, v5, v6, v8, v10, v11>> /\ v1[l] = Away
      /\ v7' = IF \E i \in DOMAIN v6 : v6[i].l = l THEN v7 \cup {l} ELSE v7
  BY Zenon DEF Vk!Post
<1>2. PICK r : r = [pc |-> "lookup", i |-> 1, who |-> "none", chat |-> "none"]
  OBVIOUS
<1>3. r \in Vk(P, N)!Row /\ r.pc = "lookup" /\ r.i = 1
  BY <1>2 DEF Vk!Row, Vk!None
<1>4. v1' \in [Wall -> Vk(P, N)!Row \cup {Away}] /\ v1'[l] = r /\ \A m \in Wall \ {l} : v1'[m] = v1[m]
  <2>1. v1' = [v1 EXCEPT ![l] = r]
    BY <1>2 DEF Vk!Post, Vk!None
  <2> QED
    BY <1>3, <2>1, VkRowSet
<1> HIDE DEF Away
<1>5. Vk(P, N)!TypeOK'
  <2>1. v9' \in 0 .. P
    <3>1. v9 \in 0 .. P /\ v9 < P /\ v9' = v9 + 1
      BY Zenon DEF Vk!Post, Vk!IInv, Vk!TypeOK
    <3> QED
      BY <3>1
  <2>2. v7' \subseteq Wall
    BY <1>1 DEF Vk!IInv, Vk!TypeOK
  <2> QED
    BY <1>1, <1>4, <2>1, <2>2, VkNoteRests, Zenon DEF Vk!IInv, Vk!TypeOK, Away
<1>6. Vk(P, N)!Looked' /\ Vk(P, N)!Own' /\ Vk(P, N)!OwnChat'
  BY <1>1, <1>3, <1>4 DEF Vk!IInv, Vk!Looked, Vk!Own, Vk!OwnChat, Away
<1>7. Vk(P, N)!Behind'
  <2>1. \A m \in Wall : v1'[m] # Away => \/ v1[m] # Away /\ v1'[m].i = v1[m].i
                                         \/ v1'[m].i >= 1 /\ \A k \in 1 .. v1'[m].i - 1 : Vk(P, N)!IsRead(m, k)'
    BY <1>3, <1>4
  <2> QED
    BY <1>1, <2>1, VkSame, VkBehind DEF Away
<1>8. Vk(P, N)!Once'
  <2>1. v7 \subseteq v7' /\ (l \notin v7' => \A j \in DOMAIN v6 : v6[j].l # l)
    BY <1>1
  <2>2. \A m \in Wall : v1'[m] # Away => \/ v1[m] # Away /\ v1'[m].i = v1[m].i
                                         \/ m \notin v7' => \A j \in DOMAIN v6 : v6[j].l # m
    BY <1>4, <2>1
  <2> QED
    BY <1>1, <2>1, <2>2, VkOnce DEF Away
<1>9. Vk(P, N)!Uploading'
  BY <1>1, VkNoteRests
<1> QED
  BY <1>5, <1>6, <1>7, <1>8, <1>9 DEF Vk!IInv

LEMMA VkGetChannel ==
  ASSUME NEW P \in Nat, NEW N \in Nat, Vk(P, N)!IInv, NEW l \in Wall, Vk(P, N)!GetChannel(l)
  PROVE  Vk(P, N)!IInv'
<1> DEFINE Away == Vk(P, N)!Away
           Pr == Vk(P, N)!Peer
           acc == Vk(P, N)!Account(l)
           fnd == Vk(P, N)!Found(l)
<1>1. /\ UNCHANGED <<v2, v4, v6, v7, v8, v9, v10, v11>> /\ v1[l] # Away
      /\ v3' = IF v3[l.from] # "none" THEN v3 ELSE [v3 EXCEPT ![l.peer] = l.peer]
      /\ (v5' = (v5 \/ (l.peer \in Group /\ v3[l.from] # "none")))
  BY Zenon DEF Vk!GetChannel, Vk!None, Vk!Remembered
<1>2. /\ l.from \in Writer /\ l.peer \in Pr /\ l.from \in Pr /\ "none" \notin Pr /\ (l.peer \notin Group => l.peer = l.from)
      /\ v3 \in [Pr -> Pr \cup {"none"}] /\ v4 \in [Pr -> Pr \cup {"none"}] /\ v5 \in BOOLEAN
  BY VkPeers, Zenon DEF Vk!IInv, Vk!TypeOK, Vk!None
<1>3. /\ acc = IF v3[l.from] # "none" THEN v3[l.from] ELSE l.peer
      /\ fnd = IF v4[acc] # "none" THEN v4[acc] ELSE l.peer
  BY Zenon DEF Vk!Account, Vk!Found, Vk!None
<1>4. acc \in Pr
  BY <1>2, <1>3
<1>5. fnd \in Pr
  BY <1>2, <1>3, <1>4
<1>6. PICK r : r = [v1[l] EXCEPT !.pc = "read", !.who = acc, !.chat = fnd]
  OBVIOUS
<1>7. v1' = [v1 EXCEPT ![l] = r]
  <2>1. v1 \in [Wall -> Vk(P, N)!Row \cup {Away}]
    BY DEF Vk!IInv, Vk!TypeOK
  <2>2. v1' = [v1 EXCEPT ![l].pc = "read", ![l].who = acc, ![l].chat = fnd]
    BY DEF Vk!GetChannel
  <2> QED
    BY <1>6, <2>1, <2>2
<1> HIDE DEF acc, fnd
<1>8. r \in Vk(P, N)!Row /\ r.pc = "read" /\ r.i = v1[l].i /\ r.who = acc /\ r.chat = fnd
  <2>1. v1[l] \in Vk(P, N)!Row
    BY <1>1, VkRow
  <2> QED
    BY <1>4, <1>5, <1>6, <2>1 DEF Vk!Row, Vk!None
<1>9. v1' \in [Wall -> Vk(P, N)!Row \cup {Away}] /\ v1'[l] = r /\ \A m \in Wall \ {l} : v1'[m] = v1[m]
  BY <1>7, <1>8, VkRowSet
<1> HIDE DEF Away, Pr
<1>10. v3' \in [Pr -> Pr \cup {"none"}] /\ v5' \in BOOLEAN
  <2>1. v3' \in [Pr -> Pr \cup {"none"}]
    BY <1>1, <1>2
  <2>2. (l.peer \in Group /\ v3[l.from] # "none") \in BOOLEAN
    BY Zenon
  <2> QED
    BY <1>1, <1>2, <2>1, <2>2, Zenon
<1>11. Vk(P, N)!TypeOK'
  BY <1>1, <1>9, <1>10, VkNoteRests, Zenon DEF Vk!IInv, Vk!TypeOK, Away, Pr, Vk!None
<1>12. Vk(P, N)!Looked'
  BY <1>4, <1>5, <1>8, <1>9 DEF Vk!IInv, Vk!Looked, Away, Pr
<1>13. Vk(P, N)!Own'
  <2> SUFFICES ASSUME ~ v5'
               PROVE  /\ \A p \in Pr : v3'[p] \in {"none", p} /\ v4'[p] \in {"none", p}
                      /\ \A m \in Wall : v1'[m] # Away /\ v1'[m].pc = "read" => v1'[m].who = m.peer /\ v1'[m].chat = m.peer
    BY Zenon DEF Vk!Own, Away, Pr, Vk!None
  <2>1. ~ v5 /\ ~ (l.peer \in Group /\ v3[l.from] # "none")
    BY <1>1, <1>2, Zenon
  <2>2. /\ \A p \in Pr : v3[p] \in {"none", p} /\ v4[p] \in {"none", p}
        /\ \A m \in Wall : v1[m] # Away /\ v1[m].pc = "read" => v1[m].who = m.peer /\ v1[m].chat = m.peer
    BY <2>1, Zenon DEF Vk!IInv, Vk!Own, Away, Pr, Vk!None
  <2>3. acc = l.peer
    BY <1>2, <1>3, <2>1, <2>2
  <2>4. fnd = l.peer
    BY <1>2, <1>3, <2>2, <2>3
  <2>5. \A p \in Pr : v3'[p] \in {"none", p}
    BY <1>1, <1>2, <2>2
  <2> QED
    BY <1>1, <1>8, <1>9, <2>2, <2>3, <2>4, <2>5
<1>14. Vk(P, N)!OwnChat'
  BY <1>1, <1>2, Zenon DEF Vk!IInv, Vk!OwnChat
<1>15. \A m \in Wall : v1'[m] # Away => v1[m] # Away /\ v1'[m].i = v1[m].i
  BY <1>1, <1>8, <1>9
<1>16. Vk(P, N)!Behind'
  BY <1>1, <1>15, VkSame, VkBehind DEF Away
<1>17. Vk(P, N)!Once'
  BY <1>1, <1>15, VkOnce DEF Away
<1> QED
  BY <1>1, <1>11, <1>12, <1>13, <1>14, <1>16, <1>17, VkNoteRests DEF Vk!IInv

(* A request that fails, or is answered: it is over for the gateway. *)
LEMMA VkOver ==
  ASSUME NEW P \in Nat, NEW N \in Nat, Vk(P, N)!IInv, NEW l \in Wall, v1' = [v1 EXCEPT ![l] = Vk(P, N)!Away],
         v2' = v2 \/ (v2' = v2 \cup {l} /\ v1[l] # Vk(P, N)!Away /\ v1[l].i > Len(Vk(P, N)!Parts(l))),
         UNCHANGED <<v3, v4, v5, v6, v7, v8, v9, v10>>, v11' \in 0 .. MaxFails
  PROVE  Vk(P, N)!IInv'
<1> DEFINE Away == Vk(P, N)!Away
<1>1. v1' \in [Wall -> Vk(P, N)!Row \cup {Away}] /\ v1'[l] = Away /\ \A m \in Wall \ {l} : v1'[m] = v1[m]
  BY VkRowSet
<1> HIDE DEF Away
<1>2. v2' \subseteq Wall
  BY DEF Vk!IInv, Vk!TypeOK
<1>3. Vk(P, N)!TypeOK'
  BY <1>1, <1>2, VkNoteRests, Zenon DEF Vk!IInv, Vk!TypeOK, Away
<1>4. Vk(P, N)!Looked' /\ Vk(P, N)!Own' /\ Vk(P, N)!OwnChat'
  BY <1>1, Zenon DEF Vk!IInv, Vk!Looked, Vk!Own, Vk!OwnChat, Away
<1>5. \A m \in Wall : v1'[m] # Away => v1[m] # Away /\ v1'[m].i = v1[m].i
  BY <1>1
<1>6. \A m \in v2' : m \notin v2 => m \in Wall /\ \A k \in 1 .. Vk(P, N)!Wanted(m) : Vk(P, N)!IsRead(m, k)'
  <2> SUFFICES ASSUME l \in v2', l \notin v2 PROVE \A k \in 1 .. Vk(P, N)!Wanted(l) : Vk(P, N)!IsRead(l, k)'
    BY Zenon
  <2>1. v1[l] # Away /\ v1[l].i > Len(Vk(P, N)!Parts(l))
    BY DEF Away
  <2>2. v1[l].i \in Nat /\ \A k \in 1 .. v1[l].i - 1 : Vk(P, N)!IsRead(l, k)
    BY <2>1, VkRow DEF Vk!IInv, Vk!Behind, Away
  <2>3. Vk(P, N)!Wanted(l) = Len(Vk(P, N)!Parts(l)) /\ Vk(P, N)!Wanted(l) \in Nat
    BY VkWanted
  <2>4. \A k \in 1 .. Vk(P, N)!Wanted(l) : k \in Nat /\ Vk(P, N)!IsRead(l, k)
    BY <2>1, <2>2, <2>3
  <2> QED
    BY <2>4, VkSame
<1>7. Vk(P, N)!Behind'
  BY <1>5, <1>6, VkSame, VkBehind DEF Away
<1>8. Vk(P, N)!Once'
  BY <1>5, VkOnce DEF Away
<1> QED
  BY <1>3, <1>4, <1>7, <1>8, VkNoteRests DEF Vk!IInv

LEMMA VkReadFails ==
  ASSUME NEW P \in Nat, NEW N \in Nat, Vk(P, N)!IInv, NEW l \in Wall, Vk(P, N)!ReadFails(l)
  PROVE  Vk(P, N)!IInv'
<1>1. /\ v1' = [v1 EXCEPT ![l] = Vk(P, N)!Away] /\ UNCHANGED v2 /\ UNCHANGED <<v3, v4, v5, v6, v7, v8, v9, v10>>
      /\ ((v11 < MaxFails /\ v11' = v11 + 1) \/ UNCHANGED v11)
  BY Zenon DEF Vk!ReadFails, Vk!Refuse
<1>2. v11' \in 0 .. MaxFails
  BY <1>1, VkFailed
<1> QED
  BY <1>1, <1>2, VkOver, Zenon

LEMMA VkGetChannelFails ==
  ASSUME NEW P \in Nat, NEW N \in Nat, Vk(P, N)!IInv, NEW l \in Wall, Vk(P, N)!GetChannelFails(l)
  PROVE  Vk(P, N)!IInv'
<1>1. /\ v1' = [v1 EXCEPT ![l] = Vk(P, N)!Away] /\ UNCHANGED v2 /\ UNCHANGED <<v3, v4, v5, v6, v7, v8, v9, v10>>
      /\ v11 < MaxFails /\ v11' = v11 + 1
  BY Zenon DEF Vk!GetChannelFails
<1>2. v11' \in 0 .. MaxFails
  BY <1>1, VkFailed
<1> QED
  BY <1>1, <1>2, VkOver, Zenon

LEMMA VkOk ==
  ASSUME NEW P \in Nat, NEW N \in Nat, Vk(P, N)!IInv, NEW l \in Wall, Vk(P, N)!Ok(l)
  PROVE  Vk(P, N)!IInv'
<1>1. /\ v1' = [v1 EXCEPT ![l] = Vk(P, N)!Away] /\ UNCHANGED <<v3, v4, v5, v6, v7, v8, v9, v10, v11>>
      /\ v2' = v2 \cup {l} /\ v1[l] # Vk(P, N)!Away /\ v1[l].i > Len(Vk(P, N)!Parts(l))
  BY Zenon DEF Vk!Ok
<1>2. v11' \in 0 .. MaxFails
  BY <1>1, VkFailed
<1> QED
  BY <1>1, <1>2, VkOver

(* A part is read into the chat found for it. *)
LEMMA VkRead ==
  ASSUME NEW P \in Nat, NEW N \in Nat, Vk(P, N)!IInv, NEW l \in Wall, Vk(P, N)!Read(l)
  PROVE  Vk(P, N)!IInv'
<1> DEFINE Away == Vk(P, N)!Away
           Pr == Vk(P, N)!Peer
           ReadRow == [l : Wall, i : Nat, chat : Pr]
<1>1. /\ UNCHANGED <<v2, v3, v5, v7, v8, v9, v10, v11>> /\ v1[l] # Away /\ v1[l].pc = "read"
      /\ v6' = Append(v6, [l |-> l, i |-> v1[l].i, chat |-> v1[l].chat])
      /\ v1' = [v1 EXCEPT ![l].i = @ + 1]
      /\ v4' = Vk(P, N)!Started(v1[l].who, v1[l].chat)
  BY Zenon DEF Vk!Read
<1>2. /\ v1[l] \in Vk(P, N)!Row /\ v1[l].i \in Nat /\ v1[l].who \in Pr /\ v1[l].chat \in Pr
      /\ v6 \in Seq(ReadRow) /\ v4 \in [Pr -> Pr \cup {"none"}] /\ v5 \in BOOLEAN
  BY <1>1, VkRow DEF Vk!IInv, Vk!Looked, Vk!TypeOK, Vk!None
<1>3. PICK i \in Nat : i = v1[l].i
  BY <1>2
<1>4. PICK r : r = [v1[l] EXCEPT !.i = i + 1]
  OBVIOUS
<1>5. r \in Vk(P, N)!Row /\ r.pc = "read" /\ r.i = i + 1 /\ r.who = v1[l].who /\ r.chat = v1[l].chat
  <2>1. i + 1 \in Nat
    BY <1>3
  <2> QED
    BY <1>1, <1>2, <1>4, <2>1 DEF Vk!Row
<1>6. v1' \in [Wall -> Vk(P, N)!Row \cup {Away}] /\ v1'[l] = r /\ \A m \in Wall \ {l} : v1'[m] = v1[m]
  <2>1. v1' = [v1 EXCEPT ![l] = r]
    BY <1>1, <1>4, <1>3 DEF Vk!IInv, Vk!TypeOK
  <2> QED
    BY <1>5, <2>1, VkRowSet
<1>7. PICK n \in ReadRow : n.l = l /\ n.i = i /\ n.chat = v1[l].chat /\ v6' = Append(v6, n)
  BY <1>1, <1>2, <1>3
<1> HIDE DEF Away, Pr, ReadRow
<1>8. /\ v6' \in Seq(ReadRow) /\ Len(v6') = Len(v6) + 1 /\ v6'[Len(v6) + 1] = n /\ \A j \in 1 .. Len(v6) : v6'[j] = v6[j]
      /\ DOMAIN v6 = 1 .. Len(v6) /\ DOMAIN v6' = 1 .. Len(v6) + 1 /\ Len(v6) \in Nat
  BY <1>2, <1>7
<1>9. v4' \in [Pr -> Pr \cup {"none"}] /\ \A p \in Pr : v4'[p] = v4[p] \/ (p = v1[l].who /\ v4'[p] = v1[l].chat)
  <2>1. v4' = v4 \/ v4' = [v4 EXCEPT ![v1[l].who] = v1[l].chat]
    BY <1>1 DEF Vk!Started
  <2>2. v4 \in [Pr -> Pr \cup {"none"}] /\ v1[l].who \in Pr /\ v1[l].chat \in Pr
    BY <1>2, Zenon
  <2>3. CASE v4' = v4
    BY <2>2, <2>3, Zenon
  <2>4. CASE v4' = [v4 EXCEPT ![v1[l].who] = v1[l].chat]
    BY <2>2, <2>4
  <2> QED
    BY <2>1, <2>3, <2>4
<1>10. Vk(P, N)!TypeOK'
  BY <1>1, <1>6, <1>8, <1>9, VkNoteRests, Zenon DEF Vk!IInv, Vk!TypeOK, Vk!None, Away, Pr, ReadRow
<1>11. Vk(P, N)!Looked'
  BY <1>2, <1>5, <1>6 DEF Vk!IInv, Vk!Looked, Away, Pr
<1>12. ~ v5 => v1[l].who = l.peer /\ v1[l].chat = l.peer
  BY <1>1 DEF Vk!IInv, Vk!Own, Away
<1>13. Vk(P, N)!Own'
  <2> SUFFICES ASSUME ~ v5'
               PROVE  /\ \A p \in Pr : v3'[p] \in {"none", p} /\ v4'[p] \in {"none", p}
                      /\ \A m \in Wall : v1'[m] # Away /\ v1'[m].pc = "read" => v1'[m].who = m.peer /\ v1'[m].chat = m.peer
    BY Zenon DEF Vk!Own, Away, Pr, Vk!None
  <2>1. ~ v5
    BY <1>1, Zenon
  <2>2. /\ \A p \in Pr : v3[p] \in {"none", p} /\ v4[p] \in {"none", p}
        /\ \A m \in Wall : v1[m] # Away /\ v1[m].pc = "read" => v1[m].who = m.peer /\ v1[m].chat = m.peer
    BY <2>1, Zenon DEF Vk!IInv, Vk!Own, Away, Pr, Vk!None
  <2> QED
    BY <1>1, <1>5, <1>6, <1>9, <1>12, <2>1, <2>2
<1>14. Vk(P, N)!OwnChat'
  <2> SUFFICES ASSUME ~ v5' PROVE \A j \in DOMAIN v6' : v6'[j].chat = v6'[j].l.peer
    BY DEF Vk!OwnChat
  <2>1. ~ v5
    BY <1>1, Zenon
  <2>2. \A j \in DOMAIN v6 : v6[j].chat = v6[j].l.peer
    BY <2>1, Zenon DEF Vk!IInv, Vk!OwnChat
  <2> QED
    BY <1>7, <1>8, <1>12, <2>1, <2>2
<1>15. \A m \in Wall : \A k \in Nat : Vk(P, N)!IsRead(m, k) => Vk(P, N)!IsRead(m, k)'
  BY <1>8 DEF Vk!IsRead
<1>16. Vk(P, N)!IsRead(l, i)'
  <2>1. Len(v6) + 1 \in DOMAIN v6' /\ v6'[Len(v6) + 1].l = l /\ v6'[Len(v6) + 1].i = i
    BY <1>7, <1>8
  <2> QED
    BY <2>1 DEF Vk!IsRead
<1>17. Vk(P, N)!Behind'
  <2>1. \A m \in Wall : m # l /\ v1'[m] # Away => v1[m] # Away /\ v1'[m].i = v1[m].i
    BY <1>6
  <2>2. v1'[l].i >= 1 /\ \A k \in 1 .. v1'[l].i - 1 : Vk(P, N)!IsRead(l, k)'
    <3>1. \A k \in 1 .. i - 1 : Vk(P, N)!IsRead(l, k)
      BY <1>1, <1>3 DEF Vk!IInv, Vk!Behind, Away
    <3>2. \A k \in 1 .. i : Vk(P, N)!IsRead(l, k)'
      <4> TAKE k \in 1 .. i
      <4>1. CASE k = i
        BY <1>16, <4>1
      <4>2. CASE k # i
        BY <1>2, <1>15, <3>1, <4>2
      <4> QED
        BY <4>1, <4>2
    <3> QED
      BY <1>2, <1>5, <1>6, <3>2
  <2>3. \A m \in Wall : v1'[m] # Away => \/ v1[m] # Away /\ v1'[m].i = v1[m].i
                                         \/ v1'[m].i >= 1 /\ \A k \in 1 .. v1'[m].i - 1 : Vk(P, N)!IsRead(m, k)'
    BY <2>1, <2>2
  <2> QED
    BY <1>1, <1>15, <2>3, VkBehind DEF Away
<1>18. Vk(P, N)!Once'
  <2> SUFFICES ASSUME NEW m \in Wall \ v7'
               PROVE  /\ \A j, k \in DOMAIN v6' : v6'[j].l = m /\ v6'[k].l = m /\ v6'[j].i = v6'[k].i => j = k
                      /\ v1'[m] # Away => \A j \in DOMAIN v6' : v6'[j].l = m => v6'[j].i < v1'[m].i
    BY DEF Vk!Once, Away
  <2>1. /\ \A j, k \in DOMAIN v6 : v6[j].l = m /\ v6[k].l = m /\ v6[j].i = v6[k].i => j = k
        /\ v1[m] # Away => \A j \in DOMAIN v6 : v6[j].l = m => v6[j].i < v1[m].i
    BY <1>1 DEF Vk!IInv, Vk!Once, Away
  <2>2. CASE m = l
    <3>1. \A j \in 1 .. Len(v6) : v6[j].l = m => v6[j].i < i /\ v6[j].i \in Nat
      <4>1. \A j \in 1 .. Len(v6) : v6[j] \in ReadRow
        <5>1. v6 \in Seq(ReadRow)
          BY <1>2, Zenon
        <5> QED
          BY <5>1, ElementsOf
      <4>2. \A j \in 1 .. Len(v6) : v6[j].i \in Nat
        BY <4>1 DEF ReadRow
      <4> QED
        BY <1>1, <1>3, <1>8, <2>1, <2>2, <4>2
    <3>2. \A j, k \in DOMAIN v6' : v6'[j].l = m /\ v6'[k].l = m /\ v6'[j].i = v6'[k].i => j = k
      BY <1>2, <1>7, <1>8, <2>1, <3>1
    <3>3. \A j \in DOMAIN v6' : v6'[j].l = m => v6'[j].i < v1'[m].i
      BY <1>2, <1>5, <1>6, <1>7, <1>8, <2>2, <3>1
    <3> QED
      BY <3>2, <3>3
  <2>3. CASE m # l
    <3>1. \A j \in DOMAIN v6' : v6'[j].l = m => j \in DOMAIN v6 /\ v6'[j] = v6[j]
      BY <1>7, <1>8, <2>3
    <3> QED
      BY <1>6, <2>1, <2>3, <3>1
  <2> QED
    BY <2>2, <2>3, Zenon
<1> QED
  BY <1>1, <1>10, <1>11, <1>13, <1>14, <1>17, <1>18, VkNoteRests DEF Vk!IInv

LEMMA VkCloseConversation ==
  ASSUME NEW P \in Nat, NEW N \in Nat, Vk(P, N)!IInv, NEW p \in Vk(P, N)!Peer, Vk(P, N)!CloseConversation(p)
  PROVE  Vk(P, N)!IInv'
<1>1. UNCHANGED <<v1, v2, v3, v5, v6, v7, v8, v9, v10, v11>> /\ v4' = [v4 EXCEPT ![p] = "none"]
  BY Zenon DEF Vk!CloseConversation, Vk!None
<1>2. v4 \in [Vk(P, N)!Peer -> Vk(P, N)!Peer \cup {"none"}]
  BY Zenon DEF Vk!IInv, Vk!TypeOK, Vk!None
<1>3. v4' \in [Vk(P, N)!Peer -> Vk(P, N)!Peer \cup {"none"}] /\ \A q \in Vk(P, N)!Peer : v4'[q] \in {v4[q], "none"}
  BY <1>1, <1>2
<1>4. Vk(P, N)!TypeOK'
  BY <1>1, <1>3, VkNoteRests, Zenon DEF Vk!IInv, Vk!TypeOK, Vk!None
<1>5. Vk(P, N)!Looked' /\ Vk(P, N)!Own' /\ Vk(P, N)!OwnChat'
  BY <1>1, <1>3 DEF Vk!IInv, Vk!Looked, Vk!Own, Vk!OwnChat, Vk!None
<1>6. Vk(P, N)!Behind'
  BY <1>1, VkSame, VkBehind
<1>7. Vk(P, N)!Once'
  BY <1>1, VkOnce
<1> QED
  BY <1>1, <1>4, <1>5, <1>6, <1>7, VkNoteRests DEF Vk!IInv

(* What is sent: messages are left alone. *)
LEMMA VkReadsRest ==
  ASSUME NEW P \in Nat, NEW N \in Nat, Vk(P, N)!IInv, UNCHANGED <<v1, v2, v3, v4, v5, v6, v7, v9, v11>>,
         v10' \in 0 .. N, v8' \in Vk(P, N)!NoteRow \cup {Vk(P, N)!Quiet}, Vk(P, N)!Uploading',
         (v8' # Vk(P, N)!Quiet /\ v8'.pc = "sent") => (v8'.uploads = 1 <=> v8'.type \in {"image", "file"})
  PROVE  Vk(P, N)!IInv'
<1>1. Vk(P, N)!TypeOK'
  BY Zenon DEF Vk!IInv, Vk!TypeOK
<1>2. Vk(P, N)!Looked' /\ Vk(P, N)!Own' /\ Vk(P, N)!OwnChat'
  BY Zenon DEF Vk!IInv, Vk!Looked, Vk!Own, Vk!OwnChat
<1>3. Vk(P, N)!Behind'
  BY VkSame, VkBehind
<1>4. Vk(P, N)!Once'
  BY VkOnce
<1> QED
  BY <1>1, <1>2, <1>3, <1>4 DEF Vk!IInv

LEMMA VkSendNotify ==
  ASSUME NEW P \in Nat, NEW N \in Nat, Vk(P, N)!IInv,
         NEW t \in {"text", "image", "file", "joined", "left", "closed"}, Vk(P, N)!SendNotify(t)
  PROVE  Vk(P, N)!IInv'
<1>1. UNCHANGED <<v1, v2, v3, v4, v5, v6, v7, v9, v11>> /\ v10 < N /\ v10' = v10 + 1
  BY Zenon DEF Vk!SendNotify
<1>2. PICK pc \in Vk(P, N)!Begins(t) : v8' = [pc |-> pc, type |-> t, uploads |-> 0, saved |-> pc = "died"]
  BY Zenon DEF Vk!SendNotify
<1>3. /\ pc \in {"photo", "doc", "send", "silent", "failed", "died"}
      /\ (pc = "photo" => t = "image") /\ (pc = "doc" => t = "file") /\ (pc = "send" => t \notin {"image", "file"})
  BY <1>2 DEF Vk!Begins
<1>4. v8'.pc = pc /\ v8'.type = t /\ v8'.uploads = 0
  BY <1>2
<1>5. v8' \in Vk(P, N)!NoteRow
  BY <1>2, <1>3 DEF Vk!NoteRow
<1>6. Vk(P, N)!Uploading'
  BY <1>3, <1>4 DEF Vk!Uploading
<1>7. v10' \in 0 .. N
  <2>1. v10 \in 0 .. N
    BY Zenon DEF Vk!IInv, Vk!TypeOK
  <2> QED
    BY <1>1, <2>1
<1> QED
  BY <1>1, <1>3, <1>4, <1>5, <1>6, <1>7, VkReadsRest

LEMMA VkSent ==
  ASSUME NEW P \in Nat, NEW N \in Nat, Vk(P, N)!IInv, v8 # Vk(P, N)!Quiet, UNCHANGED <<v1, v2, v3, v4, v5, v6, v7, v9, v10, v11>>,
         NEW pc \in {"doc", "send", "sent", "failed"}, NEW u \in 0 .. 1, v8' = [v8 EXCEPT !.pc = pc, !.uploads = u],
         pc = "doc" => v8.type \in {"image", "file"} /\ u = 0,
         pc \in {"send", "sent"} => (u = 1 <=> v8.type \in {"image", "file"})
  PROVE  Vk(P, N)!IInv'
<1>1. v8 \in Vk(P, N)!NoteRow /\ v10' \in 0 .. N
  BY Zenon DEF Vk!IInv, Vk!TypeOK
<1>2. v8' \in Vk(P, N)!NoteRow /\ v8'.pc = pc /\ v8'.type = v8.type /\ v8'.uploads = u
  BY <1>1 DEF Vk!NoteRow
<1>3. Vk(P, N)!Uploading'
  BY <1>2 DEF Vk!Uploading
<1> QED
  BY <1>1, <1>2, <1>3, VkReadsRest

LEMMA VkSends ==
  ASSUME NEW P \in Nat, NEW N \in Nat, Vk(P, N)!IInv, NEW ok \in BOOLEAN,
         Vk(P, N)!SendPhoto(ok) \/ Vk(P, N)!SendDoc(ok) \/ Vk(P, N)!MessagesSend(ok)
  PROVE  Vk(P, N)!IInv'
<1>1. v8 # Vk(P, N)!Quiet
  BY Zenon DEF Vk!SendPhoto, Vk!SendDoc, Vk!MessagesSend
<1>2. v8 \in Vk(P, N)!NoteRow
  BY <1>1, Zenon DEF Vk!IInv, Vk!TypeOK
<1>3. /\ v8.pc = "photo" => v8.type = "image" /\ v8.uploads = 0
      /\ v8.pc = "doc" => v8.type \in {"image", "file"} /\ v8.uploads = 0
      /\ v8.pc = "send" => (v8.uploads = 1 <=> v8.type \in {"image", "file"})
  BY <1>1, Zenon DEF Vk!IInv, Vk!Uploading
<1>4. UNCHANGED <<v1, v2, v3, v4, v5, v6, v7, v9, v10, v11>>
  BY Zenon DEF Vk!SendPhoto, Vk!SendDoc, Vk!MessagesSend
<1>5. v8.uploads \in 0 .. 1
  BY <1>2 DEF Vk!NoteRow
<1>6. PICK pc \in {"doc", "send", "sent", "failed"}, u \in 0 .. 1 :
        /\ v8' = [v8 EXCEPT !.pc = pc, !.uploads = u]
        /\ pc = "doc" => v8.type \in {"image", "file"} /\ u = 0
        /\ pc \in {"send", "sent"} => (u = 1 <=> v8.type \in {"image", "file"})
  <2>1. CASE Vk(P, N)!SendPhoto(ok)
    <3>1. v8.pc = "photo" /\ v8.type = "image" /\ v8.uploads = 0
      BY <1>3, <2>1 DEF Vk!SendPhoto
    <3>2. CASE ok
      <4>1. v8' = [v8 EXCEPT !.pc = "send", !.uploads = 1]
        BY <2>1, <3>2 DEF Vk!SendPhoto, Vk!SentPhoto
      <4> QED
        BY <3>1, <4>1
    <3>3. CASE ~ ok
      <4>1. v8' = [v8 EXCEPT !.pc = "doc"]
        BY <2>1, <3>3 DEF Vk!SendPhoto, Vk!SentPhoto
      <4>2. v8' = [v8 EXCEPT !.pc = "doc", !.uploads = 0]
        BY <1>2, <3>1, <4>1 DEF Vk!NoteRow
      <4> QED
        BY <3>1, <4>2
    <3> QED
      BY <3>2, <3>3
  <2>2. CASE Vk(P, N)!SendDoc(ok)
    <3>1. v8.pc = "doc" /\ v8.type \in {"image", "file"} /\ v8.uploads = 0
      BY <1>3, <2>2 DEF Vk!SendDoc
    <3>2. CASE ok
      <4>1. v8' = [v8 EXCEPT !.pc = "send", !.uploads = 1]
        BY <2>2, <3>2 DEF Vk!SendDoc
      <4> QED
        BY <3>1, <4>1
    <3>3. CASE ~ ok
      <4>1. v8' = [v8 EXCEPT !.pc = "failed"]
        BY <2>2, <3>3 DEF Vk!SendDoc
      <4>2. v8' = [v8 EXCEPT !.pc = "failed", !.uploads = 0]
        BY <1>2, <3>1, <4>1 DEF Vk!NoteRow
      <4> QED
        BY <4>2
    <3> QED
      BY <3>2, <3>3
  <2>3. CASE Vk(P, N)!MessagesSend(ok)
    <3>1. v8.pc = "send" /\ v8' = [v8 EXCEPT !.pc = IF ok THEN "sent" ELSE "failed"]
      BY <2>3 DEF Vk!MessagesSend
    <3>2. PICK pc \in {"sent", "failed"} : v8' = [v8 EXCEPT !.pc = pc]
      BY <3>1
    <3>3. v8' = [v8 EXCEPT !.pc = pc, !.uploads = v8.uploads]
      BY <1>2, <3>2 DEF Vk!NoteRow
    <3> QED
      BY <1>3, <1>5, <3>1, <3>2, <3>3
  <2> QED
    BY <2>1, <2>2, <2>3
<1> QED
  BY <1>1, <1>4, <1>6, VkSent

LEMMA VkStep ==
  ASSUME NEW P \in Nat, NEW N \in Nat, Vk(P, N)!IInv, Vk(P, N)!Next
  PROVE  Vk(P, N)!IInv'
BY VkPost, VkGetChannel, VkGetChannelFails, VkRead, VkReadFails, VkOk, VkCloseConversation, VkSendNotify, VkSends, Zenon
   DEF Vk!Next

LEMMA VkRests ==
  ASSUME NEW P \in Nat, NEW N \in Nat, Vk(P, N)!IInv, UNCHANGED Vk(P, N)!vkVars
  PROVE  Vk(P, N)!IInv'
<1>1. UNCHANGED <<v1, v2, v3, v4, v5, v6, v7, v9, v11>> /\ UNCHANGED <<v8, v10>>
  BY Zenon DEF Vk!vkVars
<1>2. Vk(P, N)!TypeOK'
  BY <1>1, VkNoteRests, Zenon DEF Vk!IInv, Vk!TypeOK
<1>3. (v8' # Vk(P, N)!Quiet /\ v8'.pc = "sent") => (v8'.uploads = 1 <=> v8'.type \in {"image", "file"})
  BY <1>1, Zenon DEF Vk!IInv, Vk!TypeOK
<1> QED
  BY <1>1, <1>3, VkNoteRests, VkReadsRest

(* Counting agrees with reading at least once, and at most once. *)
LEMMA VkHolds ==
  ASSUME NEW P \in Nat, NEW N \in Nat, Vk(P, N)!IInv
  PROVE  Vk(P, N)!TypeOK /\ Vk(P, N)!OwnChat /\ Vk(P, N)!AckedWhole
<1>1. v6 \in Seq([l : Wall, i : Nat, chat : Vk(P, N)!Peer]) /\ v2 \subseteq Wall
  BY DEF Vk!IInv, Vk!TypeOK
<1>2. ASSUME NEW T, T \subseteq DOMAIN v6 PROVE IsFiniteSet(T)
  BY <1>1, <1>2, FinitePlaces
<1>3. ASSUME NEW l \in v2, NEW k \in 1 .. Vk(P, N)!Wanted(l) PROVE Vk(P, N)!Times(l, k) >= 1
  <2> DEFINE T == {i \in DOMAIN v6 : v6[i].l = l /\ v6[i].i = k}
  <2>1. Vk(P, N)!IsRead(l, k)
    BY DEF Vk!IInv, Vk!Behind
  <2>2. PICK j \in T : TRUE
    BY <2>1 DEF Vk!IsRead
  <2>3. T \subseteq DOMAIN v6
    OBVIOUS
  <2>4. Vk(P, N)!Times(l, k) = Cardinality(T)
    BY Zenon DEF Vk!Times, Vk!Cardinality, Cardinality
  <2> HIDE DEF T
  <2>5. Cardinality(T) >= 1
    BY <1>2, <2>2, <2>3, CountedSome
  <2> QED
    BY <2>4, <2>5
<1>4. ASSUME NEW l \in Wall \ v7, NEW k \in 1 .. Vk(P, N)!Wanted(l) PROVE Vk(P, N)!Times(l, k) <= 1
  <2> DEFINE T == {i \in DOMAIN v6 : v6[i].l = l /\ v6[i].i = k}
  <2>1. \A a, b \in T : a = b
    BY DEF Vk!IInv, Vk!Once
  <2>2. T \subseteq DOMAIN v6
    OBVIOUS
  <2>3. Vk(P, N)!Times(l, k) = Cardinality(T)
    BY Zenon DEF Vk!Times, Vk!Cardinality, Cardinality
  <2> HIDE DEF T
  <2>4. Cardinality(T) <= 1
    BY <1>2, <2>1, <2>2, CountedOnce
  <2> QED
    BY <2>3, <2>4
<1>5. Vk(P, N)!AckedWhole
  BY <1>3, <1>4 DEF Vk!AckedWhole
<1> QED
  BY <1>5 DEF Vk!IInv

-----------------------------------------------------------------------------

(* WhatsApp by Infobip *)

ObjType == [who : Customer, num : Number, conv : Nat]

(* The parts of the invariant: the objects and chats, *)
IbObjects ==
  /\ v5 \in Seq(ObjType) /\ Len(v5) <= MaxObj /\ v9 \in Nat
  /\ v6 \in [Customer -> 0 .. Len(v5)] /\ \A c \in Customer : v6[c] # 0 => v5[v6[c]].who = c
  /\ v7 \in [Customer -> [id : 1 .. v9, num : Number] \cup {Ib!NoChat}]
  /\ v8 \in [Customer -> Number \cup {"none"}] /\ v10 \subseteq Customer

IbBound ==
  \A c \in Customer : v7[c] # Ib!NoChat =>
    /\ v8[c] \in Number /\ (v6[c] # 0 => v5[v6[c]].conv # 0)
    /\ c \notin v10 => /\ v7[c].num = v8[c]
                       /\ v6[c] # 0 => v5[v6[c]].num = v8[c]

(* what was sent, *)
IbSent == \A s \in v12 : s \in [who : Customer, from : Number, opened : Number] /\ s.from = s.opened

(* the requests of Infobip, *)
IbHooks ==
  /\ v2 \in [Batched -> Ib!Row \cup {Ib!Idle}]
  /\ \A b \in Batched : v2[b] # Ib!Idle => v2[b].i >= 1 /\ (v2[b].pc \in {"media", "read"} => v2[b].o \in 1 .. Len(v5))

(* what was read of them, and the counters. *)
IbReads == v3 \subseteq Batched /\ v4 \subseteq Batched /\ Ib!Behind /\ Ib!Once

IbCounts == v1 \in Number \cup {"none"} /\ v13 \in 0 .. MaxBatches /\ v14 \in 0 .. MaxFails

LEMMA IbParts ==
  Ib!IInv <=> IbObjects /\ IbBound /\ IbSent /\ IbHooks /\ IbReads /\ IbCounts
<1>1. ASSUME Ib!IInv PROVE IbObjects /\ IbBound /\ IbSent /\ IbHooks /\ IbReads /\ IbCounts
  <2>1. Ib!TypeOK /\ Ib!Bindings /\ Ib!AnsweredFromOpened /\ Ib!Behind /\ Ib!Once
    BY <1>1, Zenon DEF Ib!IInv
  <2>2. IbObjects
    BY <2>1, Zenon DEF Ib!TypeOK, Ib!Bindings, IbObjects, ObjType, Ib!None
  <2>3. IbBound /\ IbSent
    BY <2>1, Zenon DEF Ib!TypeOK, Ib!Bindings, Ib!AnsweredFromOpened, IbBound, IbSent
  <2>4. DOMAIN v5 = 1 .. Len(v5)
    BY <2>2 DEF IbObjects
  <2>5. IbHooks
    BY <2>1, <2>4 DEF Ib!TypeOK, Ib!Bindings, IbHooks
  <2>6. IbReads /\ IbCounts
    BY <2>1, Zenon DEF Ib!TypeOK, IbReads, IbCounts, Ib!None
  <2> QED
    BY <2>2, <2>3, <2>5, <2>6
<1>2. ASSUME IbObjects, IbBound, IbSent, IbHooks, IbReads, IbCounts PROVE Ib!IInv
  <2>1. DOMAIN v5 = 1 .. Len(v5) /\ \A o \in DOMAIN v5 : v5[o] \in ObjType
    BY <1>2, ElementsOf DEF IbObjects
  <2>2. \A o \in DOMAIN v5 : v5[o] \in Ib!Obj
    BY <2>1 DEF Ib!Obj, ObjType, Ib!None
  <2>3. Ib!Bindings
    BY <1>2, <2>1 DEF Ib!Bindings, IbObjects, IbBound, IbHooks, ObjType
  <2>5. Ib!TypeOK /\ Ib!AnsweredFromOpened
    BY <1>2, <2>2, Zenon DEF Ib!TypeOK, Ib!AnsweredFromOpened, IbObjects, IbSent, IbHooks, IbReads, IbCounts, Ib!None
  <2> QED
    BY <1>2, <2>3, <2>5 DEF Ib!IInv, IbReads
<1> QED
  BY <1>1, <1>2

LEMMA IbPartsNext ==
  IbObjects' /\ IbBound' /\ IbSent' /\ IbHooks' /\ IbReads' /\ IbCounts' => Ib!IInv'
BY IbParts, PTL

LEMMA IbStarts ==
  ASSUME Ib!Init
  PROVE  Ib!IInv
<1>1. /\ v1 = "none" /\ v2 = [b \in Batched |-> Ib!Idle] /\ v3 = {} /\ v4 = {}
      /\ v5 = <<>> /\ v6 = [c \in Customer |-> 0] /\ v7 = [c \in Customer |-> Ib!NoChat] /\ v8 = [c \in Customer |-> "none"]
      /\ v9 = 0 /\ v10 = {} /\ v11 = <<>> /\ v12 = {} /\ v13 = 0 /\ v14 = 0
  BY Zenon DEF Ib!Init, Ib!None
<1>2. IbObjects
  BY <1>1, InfobipAssumption DEF IbObjects
<1>3. IbBound /\ IbSent
  BY <1>1 DEF IbBound, IbSent
<1>4. IbHooks
  BY <1>1 DEF IbHooks
<1>5. Ib!Behind
  BY <1>1 DEF Ib!Behind
<1>6. Ib!Once
  BY <1>1 DEF Ib!Once
<1>7. IbReads /\ IbCounts
  BY <1>1, <1>5, <1>6, InfobipAssumption DEF IbReads, IbCounts
<1> QED
  BY <1>2, <1>3, <1>4, <1>7, IbParts

(* Parts that a step does not touch. *)
LEMMA IbObjectsRest ==
  ASSUME IbObjects, IbBound, UNCHANGED <<v5, v6, v7, v8, v9, v10>>
  PROVE  IbObjects' /\ IbBound'
BY Zenon DEF IbObjects, IbBound

LEMMA IbFailed ==
  ASSUME IbCounts, v14 < MaxFails, v14' = v14 + 1
  PROVE  v14' \in 0 .. MaxFails
BY InfobipAssumption DEF IbCounts

(* What was read stays read. *)
LEMMA IbReadsKept ==
  ASSUME IbReads, UNCHANGED v11, v3' \subseteq Batched, v4' \subseteq Batched, v4 \subseteq v4',
         \A b \in v3' : b \notin v3 => \A i \in DOMAIN b : ~ Ib!Skipped(b[i]) => Ib!IsRead(b, i),
         \A b \in Batched : v2'[b] # Ib!Idle =>
           \/ v2[b] # Ib!Idle /\ v2'[b].i = v2[b].i
           \/ v2[b] # Ib!Idle /\ v2[b].i \in Nat /\ v2'[b].i = v2[b].i + 1 /\ Ib!Skipped(b[v2[b].i])
           \/ v2'[b].i = 1 /\ (b \notin v4' => \A j \in DOMAIN v11 : v11[j].b # b)
  PROVE  IbReads'
<1>1. \A b \in v3' : \A i \in DOMAIN b : ~ Ib!Skipped(b[i]) => Ib!IsRead(b, i)
  BY DEF IbReads, Ib!Behind
<1>2. ASSUME NEW b \in Batched, v2'[b] # Ib!Idle
      PROVE  \A i \in 1 .. v2'[b].i - 1 : i \in DOMAIN b /\ ~ Ib!Skipped(b[i]) => Ib!IsRead(b, i)
  <2>1. CASE v2[b] # Ib!Idle /\ v2'[b].i = v2[b].i
    BY <2>1 DEF IbReads, Ib!Behind
  <2>2. CASE v2[b] # Ib!Idle /\ v2[b].i \in Nat /\ v2'[b].i = v2[b].i + 1 /\ Ib!Skipped(b[v2[b].i])
    <3>1. \A i \in 1 .. v2[b].i - 1 : i \in DOMAIN b /\ ~ Ib!Skipped(b[i]) => Ib!IsRead(b, i)
      BY <2>2 DEF IbReads, Ib!Behind
    <3>2. ASSUME NEW i \in 1 .. v2'[b].i - 1 PROVE i \in 1 .. v2[b].i - 1 \/ i = v2[b].i
      BY <2>2, <3>2
    <3> QED
      BY <2>2, <3>1, <3>2
  <2>3. CASE v2'[b].i = 1
    BY <2>3
  <2> QED
    BY <1>2, <2>1, <2>2, <2>3
<1>3. \A b, i : Ib!IsRead(b, i) => Ib!IsRead(b, i)'
  BY DEF Ib!IsRead
<1>4. Ib!Behind'
  BY <1>1, <1>2, <1>3 DEF Ib!Behind
<1>5. ASSUME NEW b \in Batched \ v4'
      PROVE  /\ \A j, k \in DOMAIN v11 : v11[j].b = b /\ v11[k].b = b /\ v11[j].i = v11[k].i => j = k
             /\ v2'[b] # Ib!Idle => \A j \in DOMAIN v11 : v11[j].b = b => v11[j].i < v2'[b].i
  <2>1. /\ b \in Batched \ v4
        /\ \A j, k \in DOMAIN v11 : v11[j].b = b /\ v11[k].b = b /\ v11[j].i = v11[k].i => j = k
        /\ v2[b] # Ib!Idle => \A j \in DOMAIN v11 : v11[j].b = b => v11[j].i < v2[b].i
    BY DEF IbReads, Ib!Once
  <2>2. \A j \in DOMAIN v11 : v11[j].i \in Nat
    <3>1. v11 \in Seq([b : Batched, i : Nat, form : {"text", "file", "contact"}])
      BY DEF IbReads, Ib!Once
    <3>2. \A j \in DOMAIN v11 : v11[j] \in [b : Batched, i : Nat, form : {"text", "file", "contact"}]
      BY <3>1, ElementsOf
    <3> QED
      BY <3>2
  <2> QED
    BY <2>1, <2>2
<1>6. Ib!Once'
  BY <1>5 DEF IbReads, Ib!Once
<1> QED
  BY <1>4, <1>6 DEF IbReads

(* Steps of a request. *)
IbRowType == [pc : {"lookup", "media", "read"}, i : Nat, o : 0 .. MaxObj, form : {"text", "file", "contact"}]

LEMMA IbRow ==
  ASSUME IbHooks, NEW b \in Batched, v2[b] # Ib!Idle
  PROVE  v2[b] \in IbRowType /\ v2[b].i \in Nat /\ v2[b].i >= 1 /\ v2[b].o \in 0 .. MaxObj
<1>1. v2[b] \in IbRowType
  BY DEF IbHooks, Ib!Row, IbRowType
<1> QED
  BY <1>1 DEF IbHooks, IbRowType

LEMMA IbRowSet ==
  ASSUME IbHooks, NEW b \in Batched, NEW r \in IbRowType, v2' = [v2 EXCEPT ![b] = r], r.i >= 1, Len(v5') >= Len(v5),
         Len(v5) \in Nat, Len(v5') \in Nat, r.pc \in {"media", "read"} => r.o \in 1 .. Len(v5')
  PROVE  IbHooks' /\ v2'[b] = r /\ v2'[b] # Ib!Idle /\ \A a \in Batched \ {b} : v2'[a] = v2[a]
<1>1. v2 \in [Batched -> Ib!Row \cup {Ib!Idle}] /\ r \in Ib!Row
  BY DEF IbHooks, Ib!Row, IbRowType
<1>2. v2' \in [Batched -> Ib!Row \cup {Ib!Idle}] /\ v2'[b] = r /\ \A a \in Batched \ {b} : v2'[a] = v2[a]
  BY <1>1
<1>3. r # Ib!Idle
  BY DEF IbRowType, Ib!Idle
<1>4. \A a \in Batched : v2'[a] # Ib!Idle => v2'[a].i >= 1 /\ (v2'[a].pc \in {"media", "read"} => v2'[a].o \in 1 .. Len(v5'))
  BY <1>2 DEF IbHooks
<1> QED
  BY <1>2, <1>3, <1>4 DEF IbHooks

LEMMA IbIdleSet ==
  ASSUME IbHooks, NEW b \in Batched, v2' = [v2 EXCEPT ![b] = Ib!Idle], UNCHANGED v5
  PROVE  IbHooks' /\ v2'[b] = Ib!Idle /\ \A a \in Batched \ {b} : v2'[a] = v2[a]
<1>1. v2 \in [Batched -> Ib!Row \cup {Ib!Idle}]
  BY DEF IbHooks
<1>2. v2' \in [Batched -> Ib!Row \cup {Ib!Idle}] /\ v2'[b] = Ib!Idle /\ \A a \in Batched \ {b} : v2'[a] = v2[a]
  BY <1>1
<1> QED
  BY <1>2 DEF IbHooks

LEMMA IbLen ==
  ASSUME IbObjects
  PROVE  Len(v5) \in Nat /\ DOMAIN v5 = 1 .. Len(v5) /\ \A o \in DOMAIN v5 : v5[o] \in ObjType
BY ElementsOf DEF IbObjects

LEMMA IbNew ==
  ASSUME Ib!IInv, NEW n \in Number, Ib!New(n)
  PROVE  Ib!IInv'
<1>1. v1' = n /\ UNCHANGED <<v2, v3, v4, v5, v6, v7, v8, v9, v10, v11, v12, v13, v14>>
  BY Zenon DEF Ib!New
<1>2. IbObjects /\ IbBound /\ IbSent /\ IbHooks /\ IbReads /\ IbCounts
  BY IbParts
<1>3. IbObjects' /\ IbBound' /\ IbSent' /\ IbHooks' /\ IbCounts'
  BY <1>1, <1>2, IbObjectsRest DEF IbSent, IbHooks, IbCounts
<1>4. IbReads'
  <2>1. v3' \subseteq Batched /\ v4' \subseteq Batched
    BY <1>1, <1>2 DEF IbReads
  <2> QED
    BY <1>1, <1>2, <2>1, IbReadsKept
<1> QED
  BY <1>3, <1>4, IbPartsNext

LEMMA IbPosted ==
  ASSUME Ib!IInv, NEW b \in Batched, Ib!Posted(b)
  PROVE  Ib!IInv'
<1>1. /\ UNCHANGED <<v1, v3, v5, v6, v7, v8, v9, v10, v11, v12, v14>> /\ v13 < MaxBatches /\ v13' = v13 + 1
      /\ v4' = IF \E k \in DOMAIN v11 : v11[k].b = b THEN v4 \cup {b} ELSE v4
  BY Zenon DEF Ib!Posted
<1>2. IbObjects /\ IbBound /\ IbSent /\ IbHooks /\ IbReads /\ IbCounts
  BY IbParts
<1>3. PICK r : r = [pc |-> "lookup", i |-> 1, o |-> 0, form |-> "text"]
  OBVIOUS
<1>4. r \in IbRowType /\ r.i = 1 /\ r.pc = "lookup"
  BY <1>3, InfobipAssumption DEF IbRowType
<1>5. v2' = [v2 EXCEPT ![b] = r]
  BY <1>3 DEF Ib!Posted
<1>6. IbHooks' /\ v2'[b] = r /\ v2'[b] # Ib!Idle /\ \A a \in Batched \ {b} : v2'[a] = v2[a]
  <2>1. r.i >= 1 /\ Len(v5') >= Len(v5) /\ Len(v5) \in Nat /\ Len(v5') \in Nat /\ (r.pc \in {"media", "read"} => r.o \in 1 .. Len(v5'))
    BY <1>1, <1>2, <1>4, <1>5, IbLen
  <2> QED
    BY <1>2, <1>4, <1>5, <2>1, IbRowSet, Zenon
<1>7. IbReads'
  <2>1. v3' \subseteq Batched /\ v4' \subseteq Batched /\ v4 \subseteq v4' /\ (b \notin v4' => \A j \in DOMAIN v11 : v11[j].b # b)
    BY <1>1, <1>2 DEF IbReads
  <2> QED
    BY <1>1, <1>2, <1>4, <1>6, <2>1, IbReadsKept
<1>8. IbCounts'
  BY <1>1, <1>2, InfobipAssumption DEF IbCounts
<1>9. IbObjects' /\ IbBound' /\ IbSent'
  BY <1>1, <1>2, IbObjectsRest DEF IbSent
<1> QED
  BY <1>6, <1>7, <1>8, <1>9, IbPartsNext

(* A request that ends. *)
LEMMA IbFails ==
  ASSUME Ib!IInv, NEW b \in Batched, Ib!Fails(b)
  PROVE  Ib!IInv'
<1>1. /\ UNCHANGED <<v1, v3, v4, v5, v6, v7, v8, v9, v10, v11, v12, v13>> /\ v14 < MaxFails /\ v14' = v14 + 1
      /\ v2' = [v2 EXCEPT ![b] = Ib!Idle]
  BY Zenon DEF Ib!Fails, Ib!BadGateway
<1>2. IbObjects /\ IbBound /\ IbSent /\ IbHooks /\ IbReads /\ IbCounts
  BY IbParts
<1>3. IbHooks' /\ v2'[b] = Ib!Idle /\ \A a \in Batched \ {b} : v2'[a] = v2[a]
  BY <1>1, <1>2, IbIdleSet
<1>4. IbReads'
  <2>1. v3' \subseteq Batched /\ v4' \subseteq Batched
    BY <1>1, <1>2 DEF IbReads
  <2> QED
    BY <1>1, <1>2, <1>3, <2>1, IbReadsKept
<1>5. IbCounts'
  BY <1>1, <1>2, InfobipAssumption DEF IbCounts
<1>6. IbObjects' /\ IbBound' /\ IbSent'
  BY <1>1, <1>2, IbObjectsRest DEF IbSent
<1> QED
  BY <1>3, <1>4, <1>5, <1>6, IbPartsNext

LEMMA IbStatusOK ==
  ASSUME Ib!IInv, NEW b \in Batched, Ib!StatusOK(b)
  PROVE  Ib!IInv'
<1>1. /\ UNCHANGED <<v1, v4, v5, v6, v7, v8, v9, v10, v11, v12, v13, v14>> /\ v3' = v3 \cup {b}
      /\ v2' = [v2 EXCEPT ![b] = Ib!Idle] /\ v2[b] # Ib!Idle /\ v2[b].i > Len(b)
  BY Zenon DEF Ib!StatusOK
<1>2. IbObjects /\ IbBound /\ IbSent /\ IbHooks /\ IbReads /\ IbCounts
  BY IbParts
<1>3. IbHooks' /\ v2'[b] = Ib!Idle /\ \A a \in Batched \ {b} : v2'[a] = v2[a]
  BY <1>1, <1>2, IbIdleSet
<1>4. IbReads'
  <2>1. v3' \subseteq Batched /\ v4' \subseteq Batched
    BY <1>1, <1>2 DEF IbReads
  <2>2. v2[b].i \in Nat /\ \A i \in 1 .. v2[b].i - 1 : i \in DOMAIN b /\ ~ Ib!Skipped(b[i]) => Ib!IsRead(b, i)
    BY <1>1, <1>2, IbRow DEF IbReads, Ib!Behind
  <2>3. b \in Seq([from : Customer, to : Number, kind : STRING])
    BY InfobipAssumption
  <2>4. Len(b) \in Nat /\ DOMAIN b = 1 .. Len(b)
    BY <2>3
  <2>5. \A i \in DOMAIN b : ~ Ib!Skipped(b[i]) => Ib!IsRead(b, i)
    BY <1>1, <2>2, <2>4
  <2> QED
    BY <1>1, <1>2, <1>3, <2>1, <2>5, IbReadsKept
<1>5. IbCounts'
  BY <1>1, <1>2, Zenon DEF IbCounts
<1>6. IbObjects' /\ IbBound' /\ IbSent'
  BY <1>1, <1>2, IbObjectsRest DEF IbSent
<1> QED
  BY <1>3, <1>4, <1>5, <1>6, IbPartsNext

LEMMA IbNoMessage ==
  ASSUME Ib!IInv, NEW b \in Batched, Ib!NoMessage(b)
  PROVE  Ib!IInv'
<1>1. /\ UNCHANGED <<v1, v3, v4, v5, v6, v7, v8, v9, v10, v11, v12, v13, v14>>
      /\ v2' = [v2 EXCEPT ![b].i = @ + 1] /\ v2[b] # Ib!Idle /\ v2[b].pc = "lookup" /\ b[v2[b].i].kind = "none"
  BY Zenon DEF Ib!NoMessage, Ib!At, Ib!Upd
<1>2. IbObjects /\ IbBound /\ IbSent /\ IbHooks /\ IbReads /\ IbCounts
  BY IbParts
<1>3. v2[b] \in IbRowType /\ v2[b].i \in Nat /\ v2[b].i >= 1
  BY <1>1, <1>2, IbRow
<1>4. PICK i \in Nat : i = v2[b].i + 1
  BY <1>3
<1>5. PICK r : r = [v2[b] EXCEPT !.i = i]
  OBVIOUS
<1>6. r \in IbRowType /\ r.i = i /\ r.pc = "lookup"
  BY <1>1, <1>3, <1>5 DEF IbRowType
<1>7. v2' = [v2 EXCEPT ![b] = r]
  BY <1>1, <1>2, <1>4, <1>5 DEF IbHooks
<1>8. IbHooks' /\ v2'[b] = r /\ \A a \in Batched \ {b} : v2'[a] = v2[a]
  <2>1. r.i >= 1 /\ Len(v5') >= Len(v5) /\ Len(v5) \in Nat /\ Len(v5') \in Nat /\ (r.pc \in {"media", "read"} => r.o \in 1 .. Len(v5'))
    BY <1>1, <1>2, <1>3, <1>4, <1>6, <1>7, IbLen
  <2> QED
    BY <1>2, <1>6, <1>7, <2>1, IbRowSet, Zenon
<1>9. IbReads'
  <2>1. v3' \subseteq Batched /\ v4' \subseteq Batched /\ Ib!Skipped(b[v2[b].i])
    BY <1>1, <1>2 DEF IbReads, Ib!Skipped
  <2> QED
    BY <1>1, <1>2, <1>3, <1>4, <1>6, <1>8, <2>1, IbReadsKept
<1>10. IbObjects' /\ IbBound' /\ IbSent' /\ IbCounts'
  BY <1>1, <1>2, IbObjectsRest DEF IbSent, IbCounts
<1> QED
  BY <1>8, <1>9, <1>10, IbPartsNext

LEMMA IbForwardFile ==
  ASSUME Ib!IInv, NEW b \in Batched, NEW ok \in BOOLEAN, Ib!ForwardFile(b, ok)
  PROVE  Ib!IInv'
<1>1. /\ UNCHANGED <<v1, v3, v4, v5, v6, v7, v8, v9, v10, v11, v12, v13, v14>> /\ v2[b] # Ib!Idle /\ v2[b].pc = "media"
      /\ v2' = [v2 EXCEPT ![b].pc = "read", ![b].form = IF ok THEN "file" ELSE "text"]
  BY Zenon DEF Ib!ForwardFile, Ib!At
<1>2. IbObjects /\ IbBound /\ IbSent /\ IbHooks /\ IbReads /\ IbCounts
  BY IbParts
<1>3. v2[b] \in IbRowType /\ v2[b].i \in Nat /\ v2[b].i >= 1 /\ v2[b].o \in 1 .. Len(v5)
  BY <1>1, <1>2, IbRow DEF IbHooks
<1>4. PICK f \in {"file", "text"} : f = IF ok THEN "file" ELSE "text"
  OBVIOUS
<1>5. PICK r : r = [v2[b] EXCEPT !.pc = "read", !.form = f]
  OBVIOUS
<1>6. r \in IbRowType /\ r.i = v2[b].i /\ r.o = v2[b].o
  BY <1>3, <1>4, <1>5 DEF IbRowType
<1>7. v2' = [v2 EXCEPT ![b] = r]
  BY <1>1, <1>2, <1>4, <1>5 DEF IbHooks
<1>8. IbHooks' /\ v2'[b] = r /\ \A a \in Batched \ {b} : v2'[a] = v2[a]
  <2>1. r.i >= 1 /\ Len(v5') >= Len(v5) /\ Len(v5) \in Nat /\ Len(v5') \in Nat /\ (r.pc \in {"media", "read"} => r.o \in 1 .. Len(v5'))
    BY <1>1, <1>2, <1>3, <1>6, <1>7, IbLen
  <2> QED
    BY <1>2, <1>6, <1>7, <2>1, IbRowSet, Zenon
<1>9. IbReads'
  <2>1. v3' \subseteq Batched /\ v4' \subseteq Batched
    BY <1>1, <1>2 DEF IbReads
  <2> QED
    BY <1>1, <1>2, <1>6, <1>8, <2>1, IbReadsKept
<1>10. IbObjects' /\ IbBound' /\ IbSent' /\ IbCounts'
  BY <1>1, <1>2, IbObjectsRest DEF IbSent, IbCounts
<1> QED
  BY <1>8, <1>9, <1>10, IbPartsNext

(* The object a lookup ends with is the customer's, and of his chat if he has one. *)
LEMMA IbLooked ==
  ASSUME IbObjects, IbBound, NEW c \in Customer, NEW o, o = IF v6[c] # 0 THEN v6[c] ELSE Len(v5) + 1
  PROVE  /\ Ib!Looked(c).who = c /\ o \in 1 .. Len(v5) + 1
         /\ v7[c] # Ib!NoChat =>
              /\ Ib!Looked(c) \in ObjType /\ Ib!Looked(c).conv # 0
              /\ c \notin v10 => Ib!Looked(c).num = v8[c]
         /\ v6[c] # 0 => v6[c] \in DOMAIN v5 /\ Ib!Looked(c) = v5[v6[c]] /\ Ib!Looked(c) \in ObjType
         /\ v6[c] = 0 /\ v7[c] = Ib!NoChat => Ib!Looked(c) = [who |-> c, num |-> "none", conv |-> 0]
<1>1. v6[c] \in 0 .. Len(v5) /\ (v6[c] # 0 => v5[v6[c]].who = c) /\ v7[c] \in [id : 1 .. v9, num : Number] \cup {Ib!NoChat}
      /\ v9 \in Nat
  BY DEF IbObjects
<1>2. Len(v5) \in Nat /\ DOMAIN v5 = 1 .. Len(v5) /\ \A p \in DOMAIN v5 : v5[p] \in ObjType
  BY IbLen
<1>3. v7[c] # Ib!NoChat => (v6[c] # 0 => v5[v6[c]].conv # 0) /\ (c \notin v10 => v7[c].num = v8[c] /\ (v6[c] # 0 => v5[v6[c]].num = v8[c]))
  BY DEF IbBound
<1>4. CASE v6[c] # 0
  <2>1. v6[c] \in DOMAIN v5 /\ v5[v6[c]] \in ObjType /\ Ib!Looked(c) = v5[v6[c]]
    BY <1>1, <1>2, <1>4 DEF Ib!Looked
  <2> QED
    BY <1>1, <1>2, <1>3, <1>4, <2>1
<1>5. CASE v6[c] = 0 /\ v7[c] # Ib!NoChat
  <2>1. v7[c].id \in Nat \ {0} /\ v7[c].num \in Number
    BY <1>1, <1>5
  <2>2. Ib!Looked(c) = [who |-> c, num |-> v7[c].num, conv |-> v7[c].id]
    BY <1>5 DEF Ib!Looked
  <2>3. Ib!Looked(c) \in ObjType /\ Ib!Looked(c).who = c /\ Ib!Looked(c).num = v7[c].num /\ Ib!Looked(c).conv = v7[c].id
    BY <2>1, <2>2 DEF ObjType
  <2> QED
    BY <1>2, <1>3, <1>5, <2>1, <2>3
<1>6. CASE v6[c] = 0 /\ v7[c] = Ib!NoChat
  <2>1. Ib!Looked(c) = [who |-> c, num |-> "none", conv |-> 0]
    BY <1>6 DEF Ib!Looked, Ib!None
  <2> QED
    BY <1>2, <1>6, <2>1
<1> QED
  BY <1>4, <1>5, <1>6

(* The customer's object takes its place in the map; it is bound to no other number while his chat is open. *)
LEMMA IbObjectSet ==
  ASSUME IbObjects, IbBound, NEW c \in Customer, NEW o, o = IF v6[c] # 0 THEN v6[c] ELSE Len(v5) + 1, o <= MaxObj,
         NEW ob \in ObjType, ob.who = c,
         v7[c] # Ib!NoChat => ob.conv # 0 /\ (c \notin v10 => ob.num = v8[c]),
         v5' = IF o \in DOMAIN v5 THEN [v5 EXCEPT ![o] = ob] ELSE Append(v5, ob),
         v6' = [v6 EXCEPT ![c] = o], UNCHANGED <<v7, v8, v9, v10>>
  PROVE  IbObjects' /\ IbBound' /\ Len(v5') >= Len(v5) /\ Len(v5') \in Nat /\ o \in 1 .. Len(v5')
<1>1. Len(v5) \in Nat /\ DOMAIN v5 = 1 .. Len(v5) /\ \A p \in DOMAIN v5 : v5[p] \in ObjType
  BY IbLen
<1>2. v6 \in [Customer -> 0 .. Len(v5)] /\ v5 \in Seq(ObjType) /\ Len(v5) <= MaxObj
  BY DEF IbObjects
<1>3. /\ v5' \in Seq(ObjType) /\ Len(v5') <= MaxObj /\ Len(v5') >= Len(v5) /\ Len(v5') \in Nat /\ o \in 1 .. Len(v5')
      /\ v5'[o] = ob /\ \A p \in 1 .. Len(v5) : p # o => v5'[p] = v5[p]
  <2>1. CASE o \in DOMAIN v5
    BY <1>1, <1>2, <2>1
  <2>2. CASE o \notin DOMAIN v5
    <3>1. v6[c] \in 0 .. Len(v5)
      BY <1>2
    <3>2. v6[c] \in 1 .. Len(v5) => o = v6[c] /\ o \in DOMAIN v5
      BY <1>1, <3>1
    <3>3. v6[c] = 0
      BY <1>1, <2>2, <3>1, <3>2
    <3>4. o = Len(v5) + 1 /\ v5' = Append(v5, ob)
      BY <2>2, <3>3
    <3>5. /\ v5' \in Seq(ObjType) /\ Len(v5') = Len(v5) + 1 /\ v5'[Len(v5) + 1] = ob
          /\ \A p \in 1 .. Len(v5) : v5'[p] = v5[p]
      BY <1>2, <3>4, AppendTo
    <3>6. Len(v5') = o /\ v5'[o] = ob
      BY <3>4, <3>5
    <3>7. o \in 1 .. o /\ o >= Len(v5) /\ o \in Nat
      <4>1. o = Len(v5) + 1 /\ Len(v5) \in Nat
        BY <1>1, <3>4
      <4> QED
        BY <4>1
    <3> QED
      BY <3>5, <3>6, <3>7
  <2> QED
    BY <2>1, <2>2
<1>4. v6' \in [Customer -> 0 .. Len(v5')] /\ v6'[c] = o /\ \A d \in Customer \ {c} : v6'[d] = v6[d]
  BY <1>1, <1>2, <1>3
<1>5. \A d \in Customer \ {c} : v6[d] # 0 => v6[d] \in 1 .. Len(v5) /\ v6[d] # o
  BY <1>1, <1>2 DEF IbObjects
<1>6. \A d \in Customer \ {c} : v6'[d] # 0 => v5'[v6'[d]] = v5[v6[d]] /\ v6[d] # 0
  BY <1>3, <1>4, <1>5
<1>7. IbObjects'
  BY <1>3, <1>4, <1>6 DEF IbObjects
<1>8. IbBound'
  BY <1>3, <1>4, <1>6 DEF IbBound
<1> QED
  BY <1>3, <1>7, <1>8

LEMMA IbUpd ==
  ASSUME IbHooks, NEW b \in Batched, v2[b] # Ib!Idle, v2[b].i <= Len(b)
  PROVE  b[v2[b].i] \in [from : Customer, to : Number, kind : STRING] /\ v2[b].i \in DOMAIN b
<1>1. b \in Seq([from : Customer, to : Number, kind : STRING])
  BY InfobipAssumption
<1>2. DOMAIN b = 1 .. Len(b) /\ Len(b) \in Nat
  BY <1>1
<1>3. v2[b].i \in DOMAIN b
  BY <1>2, IbRow
<1> QED
  BY <1>1, <1>3, ElementsOf

LEMMA IbGetChannel ==
  ASSUME Ib!IInv, NEW b \in Batched, Ib!GetChannel(b)
  PROVE  Ib!IInv'
<1>1. IbObjects /\ IbBound /\ IbSent /\ IbHooks /\ IbReads /\ IbCounts
  BY IbParts
<1>2. v2[b] # Ib!Idle /\ v2[b].pc = "lookup" /\ v2[b].i <= Len(b)
  BY Zenon DEF Ib!GetChannel, Ib!At
<1>3. PICK u \in [from : Customer, to : Number, kind : STRING] : u = b[v2[b].i]
  BY <1>1, <1>2, IbUpd
<1>4. PICK c \in Customer : c = u.from
  BY <1>3
<1>5. PICK ob : ob = Ib!Bound(Ib!Looked(c), u.to)
  OBVIOUS
<1>6. PICK o : o = IF v6[c] # 0 THEN v6[c] ELSE Len(v5) + 1
  OBVIOUS
<1>7. Ib!Upd(b) = u
  BY <1>3 DEF Ib!Upd
<1>8. /\ UNCHANGED <<v1, v3, v4, v7, v8, v9, v10, v11, v12, v13, v14>>
      /\ o <= MaxObj
      /\ v5' = IF o \in DOMAIN v5 THEN [v5 EXCEPT ![o] = ob] ELSE Append(v5, ob)
      /\ v6' = [v6 EXCEPT ![c] = o]
      /\ v2' = IF Ib!Skipped(u) THEN [v2 EXCEPT ![b].i = @ + 1]
               ELSE [v2 EXCEPT ![b].o = o, ![b].form = Ib!FormOf(u), ![b].pc = IF Ib!FormOf(u) = "file" THEN "media" ELSE "read"]
  BY <1>4, <1>5, <1>6, <1>7 DEF Ib!GetChannel
<1>9. /\ Ib!Looked(c).who = c /\ o \in 1 .. Len(v5) + 1
      /\ v7[c] # Ib!NoChat =>
           /\ Ib!Looked(c) \in ObjType /\ Ib!Looked(c).conv # 0
           /\ c \notin v10 => Ib!Looked(c).num = v8[c]
      /\ v6[c] # 0 => v6[c] \in DOMAIN v5 /\ Ib!Looked(c) = v5[v6[c]] /\ Ib!Looked(c) \in ObjType
      /\ v6[c] = 0 /\ v7[c] = Ib!NoChat => Ib!Looked(c) = [who |-> c, num |-> "none", conv |-> 0]
  BY <1>1, <1>6, IbLooked, Zenon
<1>10. ob \in ObjType /\ ob.who = c /\ (v7[c] # Ib!NoChat => ob = Ib!Looked(c))
  <2>1. u.to \in Number
    BY <1>3
  <2>2. CASE Ib!Looked(c).conv = 0
    <3>1. ob = [Ib!Looked(c) EXCEPT !.num = u.to] /\ v7[c] = Ib!NoChat
      BY <1>5, <1>9, <2>2 DEF Ib!Bound
    <3>2. Ib!Looked(c) \in ObjType \/ Ib!Looked(c) = [who |-> c, num |-> "none", conv |-> 0]
      BY <1>9, <3>1
    <3> QED
      BY <1>9, <2>1, <3>1, <3>2 DEF ObjType
  <2>3. CASE Ib!Looked(c).conv # 0
    <3>1. ob = Ib!Looked(c)
      BY <1>5, <2>3 DEF Ib!Bound
    <3>2. Ib!Looked(c) # [who |-> c, num |-> "none", conv |-> 0]
      BY <2>3
    <3> QED
      BY <1>9, <3>1, <3>2
  <2> QED
    BY <2>2, <2>3
<1>11. IbObjects' /\ IbBound' /\ Len(v5') >= Len(v5) /\ Len(v5') \in Nat /\ o \in 1 .. Len(v5') /\ Len(v5) \in Nat
  <2>1. v7[c] # Ib!NoChat => ob.conv # 0 /\ (c \notin v10 => ob.num = v8[c])
    BY <1>9, <1>10
  <2>2. UNCHANGED <<v7, v8, v9, v10>>
    BY <1>8
  <2> QED
    BY <1>1, <1>6, <1>8, <1>10, <2>1, <2>2, IbObjectSet, IbLen
<1>12. v2[b] \in IbRowType /\ v2[b].i \in Nat /\ v2[b].i >= 1 /\ v3' \subseteq Batched /\ v4' \subseteq Batched
  BY <1>1, <1>2, <1>8, IbRow DEF IbReads
<1>13. IbSent' /\ IbCounts'
  BY <1>1, <1>8 DEF IbSent, IbCounts
<1>14. CASE Ib!Skipped(u)
  <2>1. PICK i \in Nat : i = v2[b].i + 1
    BY <1>12
  <2>2. PICK r : r = [v2[b] EXCEPT !.i = i]
    OBVIOUS
  <2>3. r \in IbRowType /\ r.i = i /\ r.pc = "lookup"
    BY <1>2, <1>12, <2>2 DEF IbRowType
  <2>4. v2' = [v2 EXCEPT ![b] = r]
    BY <1>1, <1>8, <1>14, <2>1, <2>2 DEF IbHooks
  <2>5. r.i >= 1 /\ (r.pc \in {"media", "read"} => r.o \in 1 .. Len(v5'))
    BY <1>12, <2>1, <2>3
  <2>6. IbHooks' /\ v2'[b] = r /\ \A a \in Batched \ {b} : v2'[a] = v2[a]
    BY <1>1, <1>11, <2>3, <2>4, <2>5, IbRowSet, Zenon
  <2>7. IbReads'
    BY <1>1, <1>2, <1>3, <1>8, <1>12, <1>14, <2>1, <2>3, <2>6, IbReadsKept
  <2> QED
    BY <1>11, <1>13, <2>6, <2>7, IbPartsNext
<1>15. CASE ~ Ib!Skipped(u)
  <2>1. PICK f \in {"text", "file", "contact"} : f = Ib!FormOf(u)
    BY DEF Ib!FormOf
  <2>2. PICK pc \in {"media", "read"} : pc = IF Ib!FormOf(u) = "file" THEN "media" ELSE "read"
    OBVIOUS
  <2>3. PICK r : r = [v2[b] EXCEPT !.o = o, !.form = f, !.pc = pc]
    OBVIOUS
  <2>4. o \in 0 .. MaxObj
    BY <1>8, <1>9, <1>11, InfobipAssumption
  <2>5. r \in IbRowType /\ r.i = v2[b].i /\ r.o = o
    BY <1>12, <2>1, <2>2, <2>3, <2>4 DEF IbRowType
  <2>6. v2' = [v2 EXCEPT ![b] = r]
    BY <1>1, <1>8, <1>15, <2>1, <2>2, <2>3 DEF IbHooks
  <2>7. r.i >= 1 /\ (r.pc \in {"media", "read"} => r.o \in 1 .. Len(v5'))
    BY <1>11, <1>12, <2>5
  <2>8. IbHooks' /\ v2'[b] = r /\ \A a \in Batched \ {b} : v2'[a] = v2[a]
    BY <1>1, <1>11, <2>5, <2>6, <2>7, IbRowSet, Zenon
  <2>9. IbReads'
    BY <1>1, <1>2, <1>8, <1>12, <2>5, <2>8, IbReadsKept
  <2> QED
    BY <1>11, <1>13, <2>8, <2>9, IbPartsNext
<1> QED
  BY <1>14, <1>15

LEMMA IbSendNotify ==
  ASSUME Ib!IInv, NEW c \in Customer, NEW file \in BOOLEAN, NEW text \in BOOLEAN, NEW n \in {0, 1, 4}, Ib!SendNotify(c, file, text, n)
  PROVE  Ib!IInv'
<1>1. IbObjects /\ IbBound /\ IbSent /\ IbHooks /\ IbReads /\ IbCounts
  BY IbParts
<1>2. PICK o : o = IF v6[c] # 0 THEN v6[c] ELSE Len(v5) + 1
  OBVIOUS
<1>3. PICK ob : ob = Ib!Looked(c)
  OBVIOUS
<1>4. /\ UNCHANGED <<v1, v2, v3, v4, v7, v8, v9, v10, v11, v13, v14>> /\ v7[c] # Ib!NoChat
      /\ o <= MaxObj
      /\ v5' = IF o \in DOMAIN v5 THEN v5 ELSE Append(v5, ob)
      /\ v6' = [v6 EXCEPT ![c] = o]
      /\ v12' = v12 \cup (IF c \in v10 THEN {} ELSE {[who |-> c, from |-> ob.num, opened |-> v8[c]]})
  BY <1>2, <1>3 DEF Ib!SendNotify, Ib!From
<1>5. /\ ob \in ObjType /\ ob.who = c /\ ob.conv # 0 /\ (c \notin v10 => ob.num = v8[c]) /\ o \in 1 .. Len(v5) + 1
      /\ v6[c] # 0 => v6[c] \in DOMAIN v5 /\ ob = v5[v6[c]]
  <2>1. /\ Ib!Looked(c).who = c /\ o \in 1 .. Len(v5) + 1
        /\ v7[c] # Ib!NoChat =>
              /\ Ib!Looked(c) \in ObjType /\ Ib!Looked(c).conv # 0
              /\ c \notin v10 => Ib!Looked(c).num = v8[c]
        /\ v6[c] # 0 => v6[c] \in DOMAIN v5 /\ Ib!Looked(c) = v5[v6[c]] /\ Ib!Looked(c) \in ObjType
        /\ v6[c] = 0 /\ v7[c] = Ib!NoChat => Ib!Looked(c) = [who |-> c, num |-> "none", conv |-> 0]
    BY <1>1, <1>2, IbLooked, Zenon
  <2> QED
    BY <1>3, <1>4, <2>1
<1>6. v5' = IF o \in DOMAIN v5 THEN [v5 EXCEPT ![o] = ob] ELSE Append(v5, ob)
  <2>1. CASE o \in DOMAIN v5
    <3>1. Len(v5) \in Nat /\ DOMAIN v5 = 1 .. Len(v5) /\ v5 \in Seq(ObjType)
      BY <1>1, IbLen DEF IbObjects
    <3>2. ob = v5[o]
      BY <1>2, <1>5, <2>1, <3>1
    <3> QED
      BY <1>4, <2>1, <3>1, <3>2
  <2> QED
    BY <1>4, <2>1
<1>7. IbObjects' /\ IbBound' /\ Len(v5') >= Len(v5) /\ Len(v5') \in Nat /\ Len(v5) \in Nat
  <2>1. UNCHANGED <<v7, v8, v9, v10>>
    BY <1>4
  <2> QED
    BY <1>1, <1>2, <1>4, <1>5, <1>6, <2>1, IbObjectSet, IbLen
<1>8. IbSent'
  <2>1. c \notin v10 => v8[c] \in Number /\ ob.num = v8[c]
    BY <1>1, <1>4, <1>5 DEF IbBound
  <2> QED
    BY <1>1, <1>4, <2>1 DEF IbSent
<1>9. IbHooks'
  BY <1>1, <1>4, <1>7, IbRow DEF IbHooks
<1>10. IbReads'
  <2>1. v3' \subseteq Batched /\ v4' \subseteq Batched
    BY <1>1, <1>4 DEF IbReads
  <2> QED
    BY <1>1, <1>4, <2>1, IbReadsKept
<1>11. IbCounts'
  BY <1>1, <1>4 DEF IbCounts
<1> QED
  BY <1>7, <1>8, <1>9, <1>10, <1>11, IbPartsNext

(* A message is read: the chat goes on, or starts with the object of the request. *)
LEMMA IbReadStep ==
  ASSUME Ib!IInv, NEW b \in Batched, Ib!Read(b)
  PROVE  Ib!IInv'
<1>1. IbObjects /\ IbBound /\ IbSent /\ IbHooks /\ IbReads /\ IbCounts
  BY IbParts
<1>2. v2[b] # Ib!Idle /\ v2[b].pc = "read" /\ v2[b].i <= Len(b)
  BY Zenon DEF Ib!Read, Ib!At
<1>3. PICK u \in [from : Customer, to : Number, kind : STRING] : u = b[v2[b].i] /\ v2[b].i \in DOMAIN b
  BY <1>1, <1>2, IbUpd
<1>4. Ib!Upd(b) = u /\ u.to \in Number
  BY <1>3 DEF Ib!Upd
<1>5. v2[b] \in IbRowType /\ v2[b].i \in Nat /\ v2[b].i >= 1 /\ v2[b].o \in 1 .. Len(v5) /\ v2[b].form \in {"text", "file", "contact"}
  BY <1>1, <1>2, IbRow DEF IbHooks, IbRowType
<1>6. PICK o \in 1 .. Len(v5) : o = v2[b].o
  BY <1>5
<1>7. Len(v5) \in Nat /\ DOMAIN v5 = 1 .. Len(v5) /\ \A p \in DOMAIN v5 : v5[p] \in ObjType
  BY <1>1, IbLen
<1>8. PICK c \in Customer : c = v5[o].who
  BY <1>7 DEF ObjType
<1>9. PICK on \in BOOLEAN : on <=> (v5[o].conv # 0 /\ v7[c] # Ib!NoChat /\ v7[c].id = v5[o].conv)
  OBVIOUS
<1>10. PICK id : id = IF on THEN v7[c].id ELSE v9 + 1
  OBVIOUS
<1>11. /\ UNCHANGED <<v1, v3, v4, v12, v13, v14>>
       /\ v5' = [v5 EXCEPT ![o].conv = id]
       /\ v7' = [v7 EXCEPT ![c] = [id |-> id, num |-> IF on THEN v7[c].num ELSE v5[o].num]]
       /\ v8' = IF on THEN v8 ELSE [v8 EXCEPT ![c] = u.to]
       /\ v9' = IF on THEN v9 ELSE v9 + 1
       /\ v6' = IF on THEN v6 ELSE [v6 EXCEPT ![c] = o]
       /\ v10' = IF on THEN v10 ELSE IF v5[o].conv # 0 \/ v5[o].num # u.to THEN v10 \cup {c} ELSE v10 \ {c}
       /\ v11' = Append(v11, [b |-> b, i |-> v2[b].i, form |-> v2[b].form])
       /\ v2' = [v2 EXCEPT ![b].i = @ + 1, ![b].pc = "lookup"]
  <2>1. on = (v5[o].conv # 0 /\ v7[c] # Ib!NoChat /\ v7[c].id = v5[o].conv)
    BY <1>9
  <2> QED
    BY <1>4, <1>6, <1>8, <1>10, <2>1 DEF Ib!Read
<1>12. /\ v9 \in Nat /\ v7 \in [Customer -> [id : 1 .. v9, num : Number] \cup {Ib!NoChat}] /\ v5 \in Seq(ObjType) /\ Len(v5) <= MaxObj
       /\ v6 \in [Customer -> 0 .. Len(v5)] /\ v8 \in [Customer -> Number \cup {"none"}] /\ v10 \subseteq Customer
       /\ \A d \in Customer : v6[d] # 0 => v5[v6[d]].who = d
  BY <1>1 DEF IbObjects
<1>13. v7[c] # Ib!NoChat => v7[c].id \in 1 .. v9 /\ v7[c].num \in Number
  BY <1>12
<1>14. id \in Nat /\ id # 0 /\ id \in 1 .. v9' /\ v9' \in Nat /\ v9' >= v9
  BY <1>9, <1>10, <1>11, <1>12, <1>13
<1>15. PICK ob : ob = [v5[o] EXCEPT !.conv = id]
  OBVIOUS
<1>16. ob \in ObjType /\ ob.who = c /\ ob.num = v5[o].num /\ ob.conv = id /\ v5[o].num \in Number
  BY <1>7, <1>8, <1>14, <1>15 DEF ObjType
<1>17. v5' = [v5 EXCEPT ![o] = ob]
  BY <1>11, <1>12, <1>15
<1>18. /\ v5' \in Seq(ObjType) /\ Len(v5') = Len(v5) /\ v5'[o] = ob
       /\ \A p \in 1 .. Len(v5) : p # o => v5'[p] = v5[p]
  BY <1>12, <1>16, <1>17
<1>19. PICK num \in Number : num = IF on THEN v7[c].num ELSE v5[o].num
  BY <1>9, <1>13, <1>16
<1>20. PICK ch : ch = [id |-> id, num |-> num]
  OBVIOUS
<1>21. ch \in [id : 1 .. v9', num : Number] /\ ch.num = num /\ ch.id = id /\ ch # Ib!NoChat
  BY <1>14, <1>20 DEF Ib!NoChat
<1>22. /\ v7' \in [Customer -> [id : 1 .. v9', num : Number] \cup {Ib!NoChat}] /\ v7'[c] = ch
       /\ \A d \in Customer \ {c} : v7'[d] = v7[d]
  <2>1. v7' = [v7 EXCEPT ![c] = ch]
    BY <1>11, <1>19, <1>20
  <2>2. \A x \in [id : 1 .. v9, num : Number] : x \in [id : 1 .. v9', num : Number]
    BY <1>12, <1>14
  <2> QED
    BY <1>12, <1>21, <2>1, <2>2
<1>23. /\ v6' \in [Customer -> 0 .. Len(v5')] /\ (~ on => v6'[c] = o) /\ (on => v6'[c] = v6[c])
       /\ \A d \in Customer \ {c} : v6'[d] = v6[d]
  BY <1>7, <1>11, <1>12, <1>18
<1>24. \A d \in Customer : v6'[d] # 0 => v5'[v6'[d]].who = d
  <2> TAKE d \in Customer
  <2> HAVE v6'[d] # 0
  <2>1. v6'[d] \in 1 .. Len(v5)
    BY <1>18, <1>23
  <2>2. CASE v6'[d] = o
    <3>1. d = c
      BY <1>8, <1>12, <1>23, <2>2
    <3> QED
      BY <1>16, <1>18, <2>2, <3>1
  <2>3. CASE v6'[d] # o
    <3>1. v6'[d] = v6[d] /\ v5'[v6'[d]] = v5[v6[d]]
      BY <1>18, <1>23, <2>1, <2>3
    <3> QED
      BY <1>12, <3>1
  <2> QED
    BY <2>2, <2>3
<1>25. /\ v8' \in [Customer -> Number \cup {"none"}] /\ v8'[c] = (IF on THEN v8[c] ELSE u.to)
       /\ \A d \in Customer \ {c} : v8'[d] = v8[d]
  BY <1>4, <1>11, <1>12
<1>26. v10' \subseteq Customer /\ \A d \in Customer \ {c} : d \in v10' <=> d \in v10
  BY <1>11, <1>12
<1>27. IbObjects'
  BY <1>12, <1>14, <1>18, <1>22, <1>23, <1>24, <1>25, <1>26 DEF IbObjects
<1>28. IbBound'
  <2> SUFFICES ASSUME NEW d \in Customer, v7'[d] # Ib!NoChat
               PROVE  /\ v8'[d] \in Number /\ (v6'[d] # 0 => v5'[v6'[d]].conv # 0)
                      /\ d \notin v10' => /\ v7'[d].num = v8'[d]
                                          /\ v6'[d] # 0 => v5'[v6'[d]].num = v8'[d]
    BY DEF IbBound
  <2>1. CASE d # c
    <3>1. v7[d] # Ib!NoChat /\ v7'[d] = v7[d] /\ v6'[d] = v6[d] /\ v8'[d] = v8[d] /\ (d \in v10' <=> d \in v10)
      <4>1. d \in Customer \ {c}
        BY <2>1
      <4>2. v7'[d] = v7[d]
        BY <1>22, <4>1
      <4> QED
        BY <1>23, <1>25, <1>26, <4>1, <4>2, Zenon
    <3>2. v6[d] # 0 => v6[d] \in 1 .. Len(v5) /\ v5'[v6[d]] = v5[v6[d]]
      <4>1. v6[d] \in 0 .. Len(v5) /\ (v6[d] # 0 => v5[v6[d]].who = d)
        BY <1>12
      <4>2. v6[d] # 0 => v6[d] # o
        BY <1>8, <2>1, <4>1
      <4> QED
        BY <1>7, <1>18, <4>1, <4>2
    <3> QED
      BY <1>1, <3>1, <3>2 DEF IbBound
  <2>2. CASE d = c /\ on
    <3>1. v7[c] # Ib!NoChat /\ v6'[c] = v6[c] /\ v8'[c] = v8[c] /\ v10' = v10 /\ num = v7[c].num
      BY <1>9, <1>11, <1>19, <1>23, <1>25, <2>2
    <3>2. v6[c] # 0 => /\ v6[c] \in 1 .. Len(v5) /\ v5'[v6[c]].num = v5[v6[c]].num
                       /\ (v5[v6[c]].conv # 0 => v5'[v6[c]].conv # 0)
      BY <1>12, <1>14, <1>16, <1>18
    <3> QED
      BY <1>1, <1>21, <1>22, <2>2, <3>1, <3>2 DEF IbBound
  <2>3. CASE d = c /\ ~ on
    <3>1. v6'[c] = o /\ v8'[c] = u.to /\ num = v5[o].num
      BY <1>11, <1>19, <1>23, <1>25, <2>3
    <3>2. c \notin v10' => v5[o].num = u.to
      BY <1>11, <2>3
    <3> QED
      BY <1>4, <1>14, <1>16, <1>18, <1>21, <1>22, <2>3, <3>1, <3>2
  <2> QED
    BY <2>1, <2>2, <2>3
<1>29. IbSent' /\ IbCounts'
  BY <1>1, <1>11 DEF IbSent, IbCounts
<1>30. PICK i \in Nat : i = v2[b].i
  BY <1>5
<1>31. PICK r : r = [v2[b] EXCEPT !.i = i + 1, !.pc = "lookup"]
  OBVIOUS
<1>32. r \in IbRowType /\ r.i = i + 1 /\ r.pc = "lookup"
  <2>1. i + 1 \in Nat
    BY <1>30
  <2> QED
    BY <1>5, <1>31, <2>1 DEF IbRowType
<1>33. v2' = [v2 EXCEPT ![b] = r]
  BY <1>1, <1>11, <1>30, <1>31 DEF IbHooks
<1>34. IbHooks' /\ v2'[b] = r /\ \A a \in Batched \ {b} : v2'[a] = v2[a]
  <2>1. r.i >= 1 /\ Len(v5') >= Len(v5) /\ Len(v5') \in Nat /\ Len(v5) \in Nat /\ (r.pc \in {"media", "read"} => r.o \in 1 .. Len(v5'))
    BY <1>7, <1>18, <1>32
  <2> QED
    BY <1>1, <1>32, <1>33, <2>1, IbRowSet, Zenon
<1>35. IbReads'
  <2>1. v11 \in Seq([b : Batched, i : Nat, form : {"text", "file", "contact"}])
    BY <1>1 DEF IbReads, Ib!Once
  <2>2. PICK n \in [b : Batched, i : Nat, form : {"text", "file", "contact"}] : n.b = b /\ n.i = i /\ v11' = Append(v11, n)
    BY <1>5, <1>11, <1>30
  <2>3. /\ v11' \in Seq([b : Batched, i : Nat, form : {"text", "file", "contact"}]) /\ Len(v11') = Len(v11) + 1
        /\ v11'[Len(v11) + 1] = n /\ \A k \in 1 .. Len(v11) : v11'[k] = v11[k]
    BY <2>1, <2>2, AppendTo
  <2>4. DOMAIN v11 = 1 .. Len(v11) /\ DOMAIN v11' = 1 .. Len(v11) + 1 /\ Len(v11) \in Nat
    BY <2>1, <2>3
  <2>5. \A k \in 1 .. Len(v11) : v11[k].i \in Nat
    <3>1. \A k \in DOMAIN v11 : v11[k] \in [b : Batched, i : Nat, form : {"text", "file", "contact"}]
      BY <2>1, ElementsOf
    <3> QED
      BY <2>4, <3>1
  <2>6. \A a, k : Ib!IsRead(a, k) => Ib!IsRead(a, k)'
    BY <2>3, <2>4 DEF Ib!IsRead
  <2>7. Ib!IsRead(b, i)'
    <3>1. Len(v11) + 1 \in DOMAIN v11' /\ v11'[Len(v11) + 1].b = b /\ v11'[Len(v11) + 1].i = i
      BY <2>2, <2>3, <2>4
    <3> QED
      BY <3>1 DEF Ib!IsRead
  <2>8. Ib!Behind'
    <3>1. \A a \in v3' : \A k \in DOMAIN a : ~ Ib!Skipped(a[k]) => Ib!IsRead(a, k)'
      BY <1>1, <1>11, <2>6 DEF IbReads, Ib!Behind
    <3>2. ASSUME NEW a \in Batched, v2'[a] # Ib!Idle, NEW k \in 1 .. v2'[a].i - 1, k \in DOMAIN a, ~ Ib!Skipped(a[k])
          PROVE  Ib!IsRead(a, k)'
      <4>1. CASE a # b
        BY <1>1, <1>34, <2>6, <3>2, <4>1 DEF IbReads, Ib!Behind
      <4>2. CASE a = b
        <5>1. k \in 1 .. i
          BY <1>30, <1>32, <1>34, <3>2, <4>2
        <5>2. CASE k = i
          BY <2>7, <4>2, <5>2
        <5>3. CASE k # i
          <6>1. k \in 1 .. v2[b].i - 1
            BY <1>30, <5>1, <5>3
          <6>2. Ib!IsRead(b, k)
            BY <1>1, <1>2, <3>2, <4>2, <6>1 DEF IbReads, Ib!Behind
          <6> QED
            BY <2>6, <4>2, <6>2
        <5> QED
          BY <5>2, <5>3
      <4> QED
        BY <4>1, <4>2
    <3> QED
      BY <3>1, <3>2 DEF Ib!Behind
  <2>9. ASSUME NEW a \in Batched \ v4'
        PROVE  /\ \A j, k \in DOMAIN v11' : v11'[j].b = a /\ v11'[k].b = a /\ v11'[j].i = v11'[k].i => j = k
               /\ v2'[a] # Ib!Idle => \A j \in DOMAIN v11' : v11'[j].b = a => v11'[j].i < v2'[a].i
    <3>1. /\ \A j, k \in DOMAIN v11 : v11[j].b = a /\ v11[k].b = a /\ v11[j].i = v11[k].i => j = k
          /\ v2[a] # Ib!Idle => \A j \in DOMAIN v11 : v11[j].b = a => v11[j].i < v2[a].i
      BY <1>1, <1>11, <2>9 DEF IbReads, Ib!Once
    <3>2. CASE a # b
      <4>1. \A j \in DOMAIN v11' : v11'[j].b = a => j \in DOMAIN v11 /\ v11'[j] = v11[j]
        BY <2>2, <2>3, <2>4, <3>2
      <4> QED
        BY <1>34, <3>1, <3>2, <4>1
    <3>3. CASE a = b
      <4>1. \A j \in 1 .. Len(v11) : v11[j].b = a => v11[j].i < i /\ v11[j].i \in Nat
        BY <1>2, <1>30, <2>4, <2>5, <3>1, <3>3
      <4>2. \A j, k \in DOMAIN v11' : v11'[j].b = a /\ v11'[k].b = a /\ v11'[j].i = v11'[k].i => j = k
        BY <1>30, <2>2, <2>3, <2>4, <3>1, <4>1
      <4>3. \A j \in DOMAIN v11' : v11'[j].b = a => v11'[j].i < v2'[a].i
        BY <1>30, <1>32, <1>34, <2>2, <2>3, <2>4, <3>3, <4>1
      <4> QED
        BY <4>2, <4>3
    <3> QED
      BY <3>2, <3>3
  <2>10. Ib!Once'
    BY <2>3, <2>9 DEF Ib!Once
  <2> QED
    BY <1>1, <1>11, <2>8, <2>10 DEF IbReads
<1> QED
  BY <1>27, <1>28, <1>29, <1>34, <1>35, IbPartsNext

(* The chat is closed: its object leaves the map, unless the notice is lost. *)
LEMMA IbCloseConversation ==
  ASSUME Ib!IInv, NEW c \in Customer, NEW lost \in BOOLEAN, Ib!CloseConversation(c, lost)
  PROVE  Ib!IInv'
<1>1. IbObjects /\ IbBound /\ IbSent /\ IbHooks /\ IbReads /\ IbCounts
  BY IbParts
<1>2. /\ UNCHANGED <<v1, v2, v3, v4, v5, v8, v9, v10, v11, v12, v13>> /\ v7' = [v7 EXCEPT ![c] = Ib!NoChat]
      /\ IF lost THEN v14 < MaxFails /\ v14' = v14 + 1 /\ UNCHANGED v6 ELSE v6' = [v6 EXCEPT ![c] = 0] /\ UNCHANGED v14
  BY Zenon DEF Ib!CloseConversation
<1>3. v6' \in [Customer -> 0 .. Len(v5)] /\ \A d \in Customer : v6'[d] # 0 => v6'[d] = v6[d]
  <2>1. v6 \in [Customer -> 0 .. Len(v5)] /\ Len(v5) \in Nat
    BY <1>1, IbLen DEF IbObjects
  <2> QED
    BY <1>2, <2>1
<1>4. /\ v7' \in [Customer -> [id : 1 .. v9, num : Number] \cup {Ib!NoChat}] /\ v7'[c] = Ib!NoChat
      /\ \A d \in Customer \ {c} : v7'[d] = v7[d]
  <2>1. v7 \in [Customer -> [id : 1 .. v9, num : Number] \cup {Ib!NoChat}]
    BY <1>1 DEF IbObjects
  <2> QED
    BY <1>2, <2>1
<1>5. IbObjects'
  BY <1>1, <1>2, <1>3, <1>4 DEF IbObjects
<1>6. IbBound'
  BY <1>1, <1>2, <1>3, <1>4 DEF IbBound
<1>7. IbSent' /\ IbHooks'
  BY <1>1, <1>2 DEF IbSent, IbHooks
<1>8. IbReads'
  <2>1. v3' \subseteq Batched /\ v4' \subseteq Batched
    BY <1>1, <1>2 DEF IbReads
  <2> QED
    BY <1>1, <1>2, <2>1, IbReadsKept
<1>9. IbCounts'
  BY <1>1, <1>2, IbFailed DEF IbCounts
<1> QED
  BY <1>5, <1>6, <1>7, <1>8, <1>9, IbPartsNext

(* The process starts again with nothing in memory. *)
LEMMA IbRestart ==
  ASSUME Ib!IInv, Ib!Restart
  PROVE  Ib!IInv'
<1>1. IbObjects /\ IbBound /\ IbSent /\ IbHooks /\ IbReads /\ IbCounts
  BY IbParts
<1>2. /\ UNCHANGED <<v1, v3, v4, v5, v7, v8, v9, v10, v11, v12, v13>> /\ v14 < MaxFails /\ v14' = v14 + 1
      /\ v6' = [c \in Customer |-> 0] /\ v2' = [b \in Batched |-> Ib!Idle]
  BY Zenon DEF Ib!Restart
<1>3. v6' \in [Customer -> 0 .. Len(v5)] /\ \A d \in Customer : v6'[d] = 0
  BY <1>1, <1>2, IbLen
<1>4. v2' \in [Batched -> Ib!Row \cup {Ib!Idle}] /\ \A b \in Batched : v2'[b] = Ib!Idle
  BY <1>2
<1>5. IbObjects' /\ IbBound'
  BY <1>1, <1>2, <1>3 DEF IbObjects, IbBound
<1>6. IbSent' /\ IbHooks'
  BY <1>1, <1>2, <1>4 DEF IbSent, IbHooks
<1>7. IbReads'
  <2>1. v3' \subseteq Batched /\ v4' \subseteq Batched
    BY <1>1, <1>2 DEF IbReads
  <2> QED
    BY <1>1, <1>2, <1>4, <2>1, IbReadsKept
<1>8. IbCounts'
  BY <1>1, <1>2, IbFailed DEF IbCounts
<1> QED
  BY <1>5, <1>6, <1>7, <1>8, IbPartsNext

LEMMA IbStep ==
  ASSUME Ib!IInv, Ib!Next
  PROVE  Ib!IInv'
BY IbNew, IbPosted, IbGetChannel, IbNoMessage, IbReadStep, IbFails, IbStatusOK, IbForwardFile, IbSendNotify, IbCloseConversation,
   IbRestart, Zenon DEF Ib!Next

LEMMA IbRests ==
  ASSUME Ib!IInv, UNCHANGED Ib!infobipVars
  PROVE  Ib!IInv'
<1>1. IbObjects /\ IbBound /\ IbSent /\ IbHooks /\ IbReads /\ IbCounts
  BY IbParts
<1>2. UNCHANGED <<v1, v2, v3, v4, v5, v6, v7, v8, v9, v10, v11, v12, v13, v14>>
  BY Zenon DEF Ib!infobipVars
<1>3. IbObjects' /\ IbBound' /\ IbSent' /\ IbHooks' /\ IbCounts'
  BY <1>1, <1>2, IbObjectsRest DEF IbSent, IbHooks, IbCounts
<1>4. IbReads'
  <2>1. v3' \subseteq Batched /\ v4' \subseteq Batched
    BY <1>1, <1>2 DEF IbReads
  <2> QED
    BY <1>1, <1>2, <2>1, IbReadsKept
<1> QED
  BY <1>3, <1>4, IbPartsNext

(* Counting agrees with reading at least once, and at most once. *)
LEMMA IbHolds ==
  ASSUME Ib!IInv
  PROVE  Ib!TypeOK /\ Ib!AnsweredFromOpened /\ Ib!BatchWhole
<1>1. v11 \in Seq([b : Batched, i : Nat, form : {"text", "file", "contact"}]) /\ v3 \subseteq Batched
  BY DEF Ib!IInv, Ib!TypeOK, Ib!Once
<1>2. ASSUME NEW T, T \subseteq DOMAIN v11 PROVE IsFiniteSet(T)
  BY <1>1, <1>2, FinitePlaces
<1>3. ASSUME NEW b \in v3, NEW k \in DOMAIN b, ~ Ib!Skipped(b[k]) PROVE Ib!TimesRead(b, k) >= 1
  <2> DEFINE T == {i \in DOMAIN v11 : v11[i].b = b /\ v11[i].i = k}
  <2>1. Ib!IsRead(b, k)
    BY <1>3 DEF Ib!IInv, Ib!Behind
  <2>2. PICK j \in T : TRUE
    BY <2>1 DEF Ib!IsRead
  <2>3. T \subseteq DOMAIN v11
    OBVIOUS
  <2>4. Ib!TimesRead(b, k) = Cardinality(T)
    BY Zenon DEF Ib!TimesRead, Ib!Cardinality, Cardinality
  <2> HIDE DEF T
  <2>5. Cardinality(T) >= 1
    BY <1>2, <2>2, <2>3, CountedSome
  <2> QED
    BY <2>4, <2>5
<1>4. ASSUME NEW b \in Batched \ v4, NEW k \in DOMAIN b PROVE Ib!TimesRead(b, k) <= 1
  <2> DEFINE T == {i \in DOMAIN v11 : v11[i].b = b /\ v11[i].i = k}
  <2>1. \A x, y \in T : x = y
    BY DEF Ib!IInv, Ib!Once
  <2>2. T \subseteq DOMAIN v11
    OBVIOUS
  <2>3. Ib!TimesRead(b, k) = Cardinality(T)
    BY Zenon DEF Ib!TimesRead, Ib!Cardinality, Cardinality
  <2> HIDE DEF T
  <2>4. Cardinality(T) <= 1
    BY <1>2, <2>1, <2>2, CountedOnce
  <2> QED
    BY <2>3, <2>4
<1>5. Ib!BatchWhole
  BY <1>3, <1>4 DEF Ib!BatchWhole
<1> QED
  BY <1>5 DEF Ib!IInv

LEMMA CzBounds ==
  MaxState \in Nat /\ MaxTold \in Nat /\ MaxFails \in Nat
BY CorezoidAssumption

-----------------------------------------------------------------------------

(* Corezoid *)

CzEv     == {"chat", "offer", "closeChat", "other"}

CzWho    == Party \cup {"nobody"}

CzName   == Party \cup {"", "bot"}

CzState  == [ev : CzEv, id : CzWho, name : CzName]

CzStored == [ev : CzEv, op : CzWho]

CzCopy   == [id : CzWho, name : CzName]

CzIn     == [pc : {"idle", "set", "read", "close"}, ev : CzEv, o : Nat, copy : CzCopy, empty : BOOLEAN]

CzNotice == [pc : {"idle", "send"}, t : {"none", "text", "closed", "other", "joined", "left"}, a : CzWho, o : Nat]

CzPlaced ==
  /\ v1 \in Seq(CzState) /\ v2 \in -1 .. Len(v1) /\ v3 \in BOOLEAN /\ v4 \in CzStored /\ v7 \subseteq Party /\ v9 \in BOOLEAN
  /\ v10 \in 0 .. MaxState /\ v11 \in 0 .. MaxTold /\ v12 \in 0 .. MaxFails
  /\ v5 \in CzIn /\ (v5.pc # "idle" => v5.o \in 1 .. Len(v1))
  /\ v6 \in [Task -> CzNotice]
  /\ \A n \in Task : v6[n].pc # "idle" => v6[n].o \in 1 .. Len(v1) /\ (v6[n].t \in {"joined", "left"} => v6[n].a \in Party)

CzAlone ==
  /\ v5.pc = "set" => v2 # v5.o /\ v5.copy = [id |-> Cz!Latest.id, name |-> Cz!Latest.name]
  /\ v5.pc \in {"read", "close"} => v2 = v5.o
  /\ \A n \in Task : v6[n].pc # "idle" =>
       /\ v5.pc = "idle" /\ v2 = v6[n].o /\ v3
       /\ \A m \in Task : v6[m].pc # "idle" => m = n

(* Who is named is here. *)
CzHere(s, on) == IF s.id = "nobody" THEN s.name \in {"", "bot"} ELSE s.id \in on /\ s.name = s.id

CzNamed ==
  /\ CzHere(Cz!Latest, v7)
  /\ IF v3 THEN v2 # 0 /\ Cz!Latest.id = v4.op ELSE v2 # -1 /\ Cz!Latest.id = "nobody"

CzSaid == v8.name \in {"", "bot"} \cup v8.here

CzCalm == ~ v9 => CzAlone /\ CzNamed /\ CzSaid

LEMMA CzLen ==
  ASSUME CzPlaced
  PROVE  Len(v1) \in Nat /\ DOMAIN v1 = 1 .. Len(v1) /\ \A o \in DOMAIN v1 : v1[o] \in CzState
BY ElementsOf DEF CzPlaced

LEMMA CzPlacedIs ==
  CzPlaced <=> Cz!TypeOK /\ Cz!Placed
<1>1. /\ Cz!Action = CzEv /\ CzWho = Party \cup {Cz!Nobody} /\ CzName = Party \cup {"", Cz!Bot}
      /\ CzState = [ev : Cz!Action, id : Party \cup {Cz!Nobody}, name : Party \cup {"", Cz!Bot}]
      /\ CzStored = [ev : Cz!Action, op : Party \cup {Cz!Nobody}]
      /\ CzIn = [pc : {"idle", "set", "read", "close"}, ev : Cz!Action, o : Nat,
                 copy : [id : Party \cup {Cz!Nobody}, name : Party \cup {"", Cz!Bot}], empty : BOOLEAN]
      /\ CzNotice = [pc : {"idle", "send"}, t : {"none", "text", "closed", "other", "joined", "left"},
                     a : Party \cup {Cz!Nobody}, o : Nat]
  BY DEF Cz!Action, Cz!Request, Cz!Nobody, Cz!Bot, CzEv, CzWho, CzName, CzState, CzStored, CzIn, CzCopy, CzNotice
<1>2. ASSUME CzPlaced PROVE Cz!TypeOK /\ Cz!Placed
  <2>1. Len(v1) \in Nat /\ DOMAIN v1 = 1 .. Len(v1) /\ \A o \in DOMAIN v1 : v1[o] \in CzState
    BY <1>2, CzLen
  <2>2. \A o \in DOMAIN v1 : v1[o].ev \in CzEv /\ v1[o].id \in CzWho /\ v1[o].name \in CzName
    BY <2>1 DEF CzState
  <2>3. v4.op \in CzWho
    BY <1>2 DEF CzPlaced, CzStored
  <2>4. Cz!TypeOK
    BY <1>1, <1>2, <2>2, <2>3, Zenon DEF Cz!TypeOK, CzPlaced
  <2>5. Cz!Placed
    BY <1>1, <1>2, <2>1, Zenon DEF Cz!Placed, CzPlaced
  <2> QED
    BY <2>4, <2>5
<1>3. ASSUME Cz!TypeOK, Cz!Placed PROVE CzPlaced
  <2>1. v1 \in Seq(CzState)
    BY <1>1, <1>3, Zenon DEF Cz!Placed
  <2>2. DOMAIN v1 = 1 .. Len(v1)
    BY <2>1
  <2> QED
    BY <1>1, <1>3, <2>2, Zenon DEF Cz!TypeOK, Cz!Placed, CzPlaced
<1> QED
  BY <1>2, <1>3

LEMMA CzParts ==
  Cz!IInv <=> CzPlaced /\ CzCalm
<1>1. Cz!Alone <=> (~ v9 => CzAlone)
  BY Zenon DEF Cz!Alone, CzAlone, Cz!TakeOver
<1>2. Cz!Named <=> (~ v9 => CzNamed)
  BY Zenon DEF Cz!Named, CzNamed, CzHere, Cz!Nobody, Cz!Bot, Cz!None, Cz!AsStored
<1>3. Cz!NamedIsHere <=> (~ v9 => CzSaid)
  BY Zenon DEF Cz!NamedIsHere, CzSaid, Cz!Bot
<1> QED
  BY <1>1, <1>2, <1>3, CzPlacedIs, Zenon DEF Cz!IInv, CzCalm

LEMMA CzPartsNext ==
  CzPlaced' /\ CzCalm' => Cz!IInv'
BY CzParts, PTL

(* The latest state, by where it is found. *)
CzFound ==
  /\ Cz!Latest.id \in CzWho /\ Cz!Latest.name \in CzName
  /\ v2 = -1 => Cz!Latest = Cz!Recovered /\ Cz!Latest.id = v4.op /\ Cz!Latest.name = (IF v4.op = "nobody" THEN "" ELSE v4.op)
  /\ v2 = 0 => Cz!Latest.id = "nobody" /\ Cz!Latest.name = ""
  /\ v2 \in 1 .. Len(v1) => Cz!Latest = v1[v2]

LEMMA CzLatestIs ==
  CzPlaced => CzFound
<1> HAVE CzPlaced
<1>1. v2 \in -1 .. Len(v1) /\ v4.op \in CzWho /\ v4.ev \in CzEv
  BY DEF CzPlaced, CzStored
<1>2. Len(v1) \in Nat /\ DOMAIN v1 = 1 .. Len(v1) /\ \A o \in DOMAIN v1 : v1[o] \in CzState
  BY CzLen
<1>3. CASE v2 = -1
  <2>1. Cz!Latest = Cz!Recovered
    BY <1>3 DEF Cz!Latest, Cz!AsStored
  <2>2. PICK nm : nm = IF v4.op = "nobody" THEN "" ELSE v4.op
    OBVIOUS
  <2>3. Cz!Latest = [ev |-> v4.ev, id |-> v4.op, name |-> nm]
    BY <2>1, <2>2 DEF Cz!Recovered, Cz!Nobody
  <2>4. Cz!Latest.id = v4.op /\ Cz!Latest.name = nm /\ nm \in CzName
    BY <1>1, <2>2, <2>3 DEF CzWho, CzName
  <2>5. v2 # 0 /\ v2 \notin 1 .. Len(v1)
    BY <1>2, <1>3
  <2> QED
    BY <1>1, <2>1, <2>2, <2>4, <2>5 DEF CzFound
<1>4. CASE v2 = 0
  <2>1. Cz!Latest = [id |-> "nobody", name |-> ""]
    BY <1>4 DEF Cz!Latest, Cz!AsStored, Cz!None, Cz!Unnamed, Cz!Nobody
  <2>2. Cz!Latest.id = "nobody" /\ Cz!Latest.name = "" /\ "nobody" \in CzWho /\ "" \in CzName
    BY <2>1 DEF CzWho, CzName
  <2>3. v2 # -1 /\ v2 \notin 1 .. Len(v1)
    BY <1>2, <1>4
  <2> QED
    BY <2>2, <2>3 DEF CzFound
<1>5. CASE v2 \in 1 .. Len(v1)
  <2>1. v2 # -1 /\ v2 # 0 /\ v2 \in DOMAIN v1
    BY <1>2, <1>5
  <2>2. Cz!Latest = v1[v2]
    BY <2>1 DEF Cz!Latest, Cz!AsStored, Cz!None
  <2>3. v1[v2] \in CzState
    BY <1>2, <2>1
  <2>4. v1[v2].id \in CzWho /\ v1[v2].name \in CzName
    BY <2>3 DEF CzState
  <2> QED
    BY <2>1, <2>2, <2>4 DEF CzFound
<1>6. v2 = -1 \/ v2 = 0 \/ v2 \in 1 .. Len(v1)
  BY <1>1, <1>2
<1> QED
  BY <1>3, <1>4, <1>5, <1>6

LEMMA CzLatestNext ==
  CzPlaced' => CzFound'
BY CzLatestIs, PTL

LEMMA CzStarts ==
  ASSUME Cz!Init
  PROVE  Cz!IInv
<1>1. /\ v1 = <<>> /\ v2 = 0 /\ v3 = FALSE /\ v4 = [ev |-> "chat", op |-> "nobody"]
      /\ v5 = [pc |-> "idle", ev |-> "chat", o |-> 0, copy |-> [id |-> "nobody", name |-> ""], empty |-> FALSE]
      /\ v6 = [n \in Task |-> [pc |-> "idle", t |-> "none", a |-> "nobody", o |-> 0]]
      /\ v7 = {} /\ v8 = [t |-> "none", name |-> "", here |-> {}] /\ v9 = FALSE /\ v10 = 0 /\ v11 = 0 /\ v12 = 0
  BY Zenon DEF Cz!Init, Cz!None, Cz!Nobody, Cz!Silent, Cz!Quiet
<1>0. v2 = 0 /\ v3 = FALSE /\ v7 = {} /\ v9 = FALSE /\ v10 = 0 /\ v11 = 0 /\ v12 = 0
  BY <1>1, Zenon
<1>2. v4 \in CzStored
  BY <1>1 DEF CzStored, CzEv, CzWho
<1>3. v5 \in CzIn /\ v5.pc = "idle"
  BY <1>1 DEF CzIn, CzCopy, CzEv, CzWho, CzName
<1>4. v6 \in [Task -> CzNotice] /\ \A n \in Task : v6[n].pc = "idle"
  BY <1>1 DEF CzNotice, CzWho
<1>5. v1 \in Seq(CzState) /\ Len(v1) = 0
  <2>1. v1 = <<>>
    BY <1>1
  <2> QED
    BY <2>1
<1>6. CzPlaced
  <2>1. v2 \in -1 .. Len(v1)
    BY <1>0, <1>5
  <2>2. v10 \in 0 .. MaxState /\ v11 \in 0 .. MaxTold /\ v12 \in 0 .. MaxFails
    BY <1>0, CzBounds
  <2>3. v3 \in BOOLEAN /\ v9 \in BOOLEAN /\ v7 \subseteq Party
    BY <1>0
  <2> QED
    BY <1>2, <1>3, <1>4, <1>5, <2>1, <2>2, <2>3, Zenon DEF CzPlaced
<1>7. Cz!Latest.id = "nobody" /\ Cz!Latest.name = ""
  BY <1>1, <1>6, CzLatestIs DEF CzFound
<1>8. CzAlone
  BY <1>3, <1>4 DEF CzAlone
<1>9. CzNamed
  <2>1. ~ v3 /\ v2 # -1
    BY <1>0
  <2>2. CzHere(Cz!Latest, v7)
    BY <1>7 DEF CzHere
  <2> QED
    BY <1>7, <2>1, <2>2 DEF CzNamed
<1>10. CzSaid
  BY <1>1 DEF CzSaid
<1> QED
  BY <1>6, <1>8, <1>9, <1>10, CzParts DEF CzCalm

(* Busy, in the model's words. *)
LEMMA CzBusy ==
  Cz!Busy <=> (v5.pc # "idle" \/ \E n \in Task : v6[n].pc # "idle")
BY Zenon DEF Cz!Busy

LEMMA CzWebHook ==
  ASSUME Cz!IInv, NEW ev \in Cz!Action, NEW empty \in BOOLEAN, Cz!WebHook(ev, empty)
  PROVE  Cz!IInv'
<1>1. CzPlaced /\ CzCalm
  BY CzParts
<1>2. PICK L : L = Cz!Latest
  OBVIOUS
<1>3. L.id \in CzWho /\ L.name \in CzName /\ ev \in CzEv
  BY <1>1, <1>2, CzLatestIs DEF Cz!Action, Cz!Request, CzEv, CzFound
<1>4. PICK cp : cp = [id |-> L.id, name |-> L.name]
  OBVIOUS
<1>5. Len(v1) \in Nat /\ DOMAIN v1 = 1 .. Len(v1) /\ v1 \in Seq(CzState) /\ v2 \in -1 .. Len(v1)
  BY <1>1, CzLen DEF CzPlaced
<1>6. PICK o \in Nat : o = Len(v1) + 1
  BY <1>5
<1>7. PICK s : s = [ev |-> ev, id |-> "nobody", name |-> ""]
  OBVIOUS
<1>8. /\ UNCHANGED <<v2, v3, v4, v6, v7, v8, v11, v12>> /\ v10 < MaxState /\ v10' = v10 + 1 /\ v5.pc = "idle"
      /\ v5' = [pc |-> "set", ev |-> ev, o |-> o, copy |-> cp, empty |-> empty]
      /\ (v9' <=> (v9 \/ Cz!Busy)) /\ v9' \in BOOLEAN /\ v1' = Append(v1, s)
  <2>1. v9 \in BOOLEAN
    BY <1>1 DEF CzPlaced
  <2> QED
    BY <1>2, <1>4, <1>6, <1>7, <2>1 DEF Cz!WebHook, Cz!TakeOver, Cz!Nobody
<1>9. s \in CzState
  BY <1>3, <1>7 DEF CzState, CzWho, CzName
<1>10. v1' \in Seq(CzState) /\ Len(v1') = o /\ \A p \in 1 .. Len(v1) : v1'[p] = v1[p]
  BY <1>5, <1>6, <1>8, <1>9, AppendTo
<1>11. v5' \in CzIn /\ v5'.pc = "set" /\ v5'.o = o /\ v5'.copy = cp
  <2>1. cp \in CzCopy
    BY <1>3, <1>4 DEF CzCopy
  <2> QED
    BY <1>3, <1>8, <2>1 DEF CzIn
<1>12. \A n \in Task : v6[n].pc # "idle" => v6[n].o \in 1 .. Len(v1) /\ (v6[n].t \in {"joined", "left"} => v6[n].a \in Party)
  BY <1>1 DEF CzPlaced
<1>13. \A p \in 1 .. Len(v1) : p \in 1 .. o
  BY <1>5, <1>6
<1>14. CzPlaced'
  <2>1. v2' \in -1 .. Len(v1') /\ o \in 1 .. o
    BY <1>5, <1>6, <1>8, <1>10
  <2>2. v10' \in 0 .. MaxState
    <3>1. v10 \in 0 .. MaxState
      BY <1>1 DEF CzPlaced
    <3>2. v10 < MaxState /\ v10' = v10 + 1
      BY <1>8, Zenon
    <3> QED
      BY <3>1, <3>2, CzBounds
  <2> QED
    BY <1>1, <1>8, <1>10, <1>11, <1>12, <1>13, <2>1, <2>2 DEF CzPlaced
<1>15. Cz!Latest'.id = L.id /\ Cz!Latest'.name = L.name
  <2>1. CzFound /\ CzFound'
    BY <1>1, <1>14, CzLatestIs, CzLatestNext
  <2>2. v2' = v2 /\ v4' = v4 /\ Len(v1') = o
    BY <1>8, <1>10
  <2>3. CASE v2 = -1
    BY <1>2, <2>1, <2>2, <2>3 DEF CzFound
  <2>4. CASE v2 = 0
    BY <1>2, <2>1, <2>2, <2>4 DEF CzFound
  <2>5. CASE v2 \in 1 .. Len(v1)
    <3>1. Cz!Latest = v1[v2] /\ Cz!Latest' = v1'[v2]
      BY <1>13, <2>1, <2>2, <2>5 DEF CzFound
    <3> QED
      BY <1>2, <1>10, <2>5, <3>1
  <2> QED
    BY <1>5, <2>3, <2>4, <2>5
<1>16. ASSUME ~ v9' PROVE CzAlone' /\ CzNamed' /\ CzSaid'
  <2>1. ~ v9 /\ \A n \in Task : v6'[n].pc = "idle"
    BY <1>8, <1>16, CzBusy
  <2>2. CzAlone /\ CzNamed /\ CzSaid
    BY <1>1, <2>1 DEF CzCalm
  <2>3. CzAlone'
    BY <1>4, <1>5, <1>6, <1>8, <1>11, <1>15, <2>1 DEF CzAlone
  <2>4. CzNamed'
    BY <1>2, <1>8, <1>15, <2>2 DEF CzNamed, CzHere
  <2>5. CzSaid'
    BY <1>8, <2>2 DEF CzSaid
  <2> QED
    BY <2>3, <2>4, <2>5
<1> QED
  BY <1>14, <1>16, CzPartsNext DEF CzCalm

(* A request that is done has answered the customer, or not. *)
LEMMA CzExcuse ==
  ASSUME CzPlaced, NEW st \in Seq(CzState), NEW o \in DOMAIN st, Cz!Excuse(st, o),
         ~ v9 => CzHere(st[o], v7) /\ CzSaid, UNCHANGED v7
  PROVE  /\ v1' \in Seq(CzState) /\ Len(v1') = Len(st) /\ \A p \in 1 .. Len(st) : p # o => v1'[p] = st[p]
         /\ v1'[o].id = st[o].id /\ (~ v9 => CzHere(v1'[o], v7) /\ CzSaid')
<1>1. PICK s \in CzState : s = Cz!Answer(st[o])
  <2>1. st[o] \in CzState
    BY ElementsOf
  <2>2. PICK nm \in CzName : nm = IF st[o].name = "" THEN "bot" ELSE st[o].name
    BY <2>1 DEF CzState, CzName
  <2>3. Cz!Answer(st[o]) = [st[o] EXCEPT !.name = nm]
    BY <2>1, <2>2 DEF Cz!Answer, Cz!Bot, CzState
  <2> QED
    BY <2>1, <2>2, <2>3 DEF CzState
<1>2. st[o] \in CzState
  BY ElementsOf
<1>3. s.id = st[o].id /\ (CzHere(st[o], v7) => CzHere(s, v7))
  <2>1. s = [st[o] EXCEPT !.name = IF st[o].name = "" THEN "bot" ELSE st[o].name]
    BY <1>1, <1>2 DEF Cz!Answer, Cz!Bot, CzState
  <2>2. s.id = st[o].id /\ s.name = IF st[o].name = "" THEN "bot" ELSE st[o].name
    BY <1>2, <2>1 DEF CzState
  <2>3. st[o].id \in CzWho
    BY <1>2 DEF CzState
  <2> QED
    BY <2>2, <2>3, CorezoidAssumption DEF CzHere, CzWho
<1>4. ASSUME NEW e \in CzState, v1' = [st EXCEPT ![o] = e], e.id = st[o].id, CzHere(st[o], v7) => CzHere(e, v7), ~ v9 => CzSaid'
      PROVE  /\ v1' \in Seq(CzState) /\ Len(v1') = Len(st) /\ \A p \in 1 .. Len(st) : p # o => v1'[p] = st[p]
             /\ v1'[o].id = st[o].id /\ (~ v9 => CzHere(v1'[o], v7) /\ CzSaid')
  <2>1. /\ v1' \in Seq(CzState) /\ Len(v1') = Len(st) /\ v1'[o] = e
        /\ \A p \in 1 .. Len(st) : p # o => v1'[p] = st[p]
    BY <1>4, ReplaceIn
  <2> QED
    BY <1>4, <2>1
<1>5. ASSUME NEW e \in CzState, CzHere(e, v7), NEW t, v8' = [t |-> t, name |-> e.name, here |-> v7] PROVE CzSaid'
  <2>1. e.name \in {"", "bot"} \cup v7
    BY <1>5 DEF CzHere
  <2>2. v8'.name = e.name /\ v8'.here = v7
    BY <1>5
  <2> QED
    BY <2>1, <2>2 DEF CzSaid
<1>6. CASE v5.empty /\ st[o].ev \in Cz!Request
  <2>1. PICK e \in CzState : e = IF st[o].ev = "chat" THEN s ELSE st[o]
    BY <1>2
  <2>2. v1' = [st EXCEPT ![o] = e] /\ v8' = [t |-> "text", name |-> e.name, here |-> v7]
    BY <1>1, <1>6, <2>1 DEF Cz!Excuse
  <2>3. e.id = st[o].id /\ (CzHere(st[o], v7) => CzHere(e, v7))
    BY <1>3, <2>1
  <2>4. ~ v9 => CzSaid'
    BY <1>5, <2>2, <2>3
  <2> QED
    BY <1>4, <2>2, <2>3, <2>4
<1>7. CASE ~ (v5.empty /\ st[o].ev \in Cz!Request)
  <2>1. v1' = st /\ v8' = v8
    BY <1>7, Zenon DEF Cz!Excuse
  <2>2. ~ v9 => CzSaid'
    BY <2>1 DEF CzSaid
  <2> QED
    BY <2>1, <2>2
<1> QED
  BY <1>6, <1>7

(* Steps of the request served: the rest stays as it is. *)
LEMMA CzServed ==
  ASSUME CzPlaced, v1' \in Seq(CzState), Len(v1') = Len(v1), v2' \in -1 .. Len(v1), v3' \in BOOLEAN, v4' \in CzStored,
         v5' \in CzIn, v5'.pc # "idle" => v5'.o \in 1 .. Len(v1), UNCHANGED <<v6, v7, v9, v10, v11, v12>>
  PROVE  CzPlaced'
BY DEF CzPlaced

LEMMA CzSilent ==
  Cz!Silent \in CzIn /\ Cz!Silent.pc = "idle"
BY DEF Cz!Silent, Cz!Nobody, CzIn, CzCopy, CzEv, CzWho, CzName

LEMMA CzSetState ==
  ASSUME Cz!IInv, Cz!SetState
  PROVE  Cz!IInv'
<1>1. CzPlaced /\ CzCalm /\ v5.pc = "set"
  BY CzParts DEF Cz!SetState
<1>2. PICK o \in 1 .. Len(v1) : o = v5.o
  BY <1>1 DEF CzPlaced
<1>3. Len(v1) \in Nat /\ DOMAIN v1 = 1 .. Len(v1) /\ v1 \in Seq(CzState) /\ v3 \in BOOLEAN /\ v4 \in CzStored
  BY <1>1, CzLen DEF CzPlaced
<1>4. v5 \in CzIn /\ v5.copy \in CzCopy /\ v5.ev \in CzEv
  BY <1>1 DEF CzPlaced, CzIn
<1>5. PICK e : e = [ev |-> v5.ev, id |-> v5.copy.id, name |-> v5.copy.name]
  OBVIOUS
<1>6. e \in CzState /\ e.id = v5.copy.id /\ e.name = v5.copy.name
  BY <1>4, <1>5 DEF CzState, CzCopy
<1>7. PICK st : st = [v1 EXCEPT ![o] = e]
  OBVIOUS
<1>8. PICK goesOn \in BOOLEAN :
        goesOn = (IF v5.ev \in Cz!Request THEN v3 \/ ~ v5.empty ELSE v5.ev = "closeChat" /\ v3)
  OBVIOUS
<1>9. /\ v2' = o /\ UNCHANGED <<v3, v4, v6, v7, v9, v10, v11, v12>>
      /\ IF goesOn THEN v1' = st /\ UNCHANGED v8 ELSE Cz!Excuse(st, o)
      /\ v5' = IF goesOn THEN [v5 EXCEPT !.pc = IF v5.ev \in Cz!Request THEN "read" ELSE "close"] ELSE Cz!Silent
  BY <1>2, <1>5, <1>7, <1>8 DEF Cz!SetState
<1>10. st \in Seq(CzState) /\ Len(st) = Len(v1) /\ st[o] = e /\ o \in DOMAIN st
  <2>1. o \in DOMAIN v1
    BY <1>3
  <2>2. st \in Seq(CzState) /\ Len(st) = Len(v1) /\ st[o] = e
    BY <1>3, <1>6, <1>7, <2>1, ReplaceIn
  <2> QED
    BY <1>3, <2>2
<1>11. ~ v9 => CzAlone /\ CzNamed /\ CzSaid /\ e.id = Cz!Latest.id /\ e.name = Cz!Latest.name
  <2> HAVE ~ v9
  <2>1. CzAlone /\ CzNamed /\ CzSaid
    BY <1>1 DEF CzCalm
  <2>2. v5.copy = [id |-> Cz!Latest.id, name |-> Cz!Latest.name]
    BY <1>1, <2>1 DEF CzAlone
  <2> QED
    BY <1>6, <2>1, <2>2
<1>12. ~ v9 => CzHere(e, v7)
  BY <1>11 DEF CzNamed, CzHere
<1>13. /\ v1' \in Seq(CzState) /\ Len(v1') = Len(v1) /\ v1'[o].id = e.id
       /\ ~ v9 => CzHere(v1'[o], v7) /\ CzSaid'
  <2>1. CASE goesOn
    <3>1. v1' = st /\ v8' = v8
      BY <1>9, <2>1
    <3>2. ~ v9 => CzSaid'
      BY <1>11, <3>1 DEF CzSaid
    <3> QED
      BY <1>10, <1>12, <3>1, <3>2
  <2>2. CASE ~ goesOn
    <3>1. Cz!Excuse(st, o) /\ v7' = v7
      BY <1>9, <2>2
    <3>2. ~ v9 => CzHere(st[o], v7) /\ CzSaid
      BY <1>10, <1>11, <1>12
    <3> QED
      BY <1>1, <1>10, <3>1, <3>2, CzExcuse
  <2> QED
    BY <2>1, <2>2
<1>14. v5' \in CzIn /\ (v5'.pc # "idle" => v5'.o = o /\ v5'.pc \in {"read", "close"})
  <2>1. CASE goesOn
    <3>1. PICK pc \in {"read", "close"} : pc = IF v5.ev \in Cz!Request THEN "read" ELSE "close"
      OBVIOUS
    <3>2. v5' = [v5 EXCEPT !.pc = pc]
      BY <1>9, <2>1, <3>1
    <3> QED
      BY <1>2, <1>4, <3>2 DEF CzIn
  <2>2. CASE ~ goesOn
    BY <1>9, <2>2, CzSilent
  <2> QED
    BY <2>1, <2>2
<1>15. CzPlaced'
  <2>1. v2' \in -1 .. Len(v1) /\ v3' \in BOOLEAN /\ v4' \in CzStored /\ (v5'.pc # "idle" => v5'.o \in 1 .. Len(v1))
    BY <1>2, <1>3, <1>9, <1>14
  <2>2. UNCHANGED <<v6, v7, v9, v10, v11, v12>>
    BY <1>9
  <2> QED
    BY <1>1, <1>13, <1>14, <2>1, <2>2, CzServed, Zenon
<1>16. Cz!Latest' = v1'[o]
  BY <1>9, <1>13, <1>15, CzLatestNext DEF CzFound
<1>17. ASSUME ~ v9' PROVE CzAlone' /\ CzNamed' /\ CzSaid'
  <2>1. ~ v9 /\ CzAlone /\ CzNamed
    BY <1>9, <1>11, <1>17
  <2>2. \A n \in Task : v6'[n].pc = "idle"
    BY <1>1, <1>9, <2>1 DEF CzAlone
  <2>3. CzAlone'
    BY <1>9, <1>14, <2>2 DEF CzAlone
  <2>4. CzNamed'
    <3>1. v2' # 0 /\ v2' # -1
      BY <1>3, <1>9
    <3>2. CzHere(Cz!Latest', v7') /\ Cz!Latest'.id = Cz!Latest.id
      BY <1>9, <1>11, <1>13, <1>16, <2>1
    <3> QED
      BY <1>9, <2>1, <3>1, <3>2 DEF CzNamed
  <2> QED
    BY <1>13, <2>1, <2>3, <2>4
<1> QED
  BY <1>15, <1>17, CzPartsNext DEF CzCalm

LEMMA CzRead ==
  ASSUME Cz!IInv, NEW ok \in BOOLEAN, Cz!Read(ok)
  PROVE  Cz!IInv'
<1>1. CzPlaced /\ CzCalm /\ v5.pc = "read"
  BY CzParts DEF Cz!Read
<1>2. PICK o \in 1 .. Len(v1) : o = v5.o
  BY <1>1 DEF CzPlaced
<1>3. Len(v1) \in Nat /\ DOMAIN v1 = 1 .. Len(v1) /\ v1 \in Seq(CzState) /\ v3 \in BOOLEAN /\ v4 \in CzStored /\ v2 \in -1 .. Len(v1)
  BY <1>1, CzLen DEF CzPlaced
<1>4. v5 \in CzIn /\ v5.ev \in CzEv
  BY <1>1 DEF CzPlaced, CzIn
<1>5. PICK b : b = [ev |-> v5.ev, op |-> "nobody"]
  OBVIOUS
<1>6. /\ UNCHANGED <<v2, v6, v7, v9, v10, v11, v12>> /\ v5' = Cz!Silent /\ Cz!Excuse(v1, o)
      /\ (v3' <=> (v3 \/ ok)) /\ v3' \in BOOLEAN /\ v4' = IF ok /\ ~ v3 THEN b ELSE v4
  BY <1>2, <1>3, <1>5 DEF Cz!Read, Cz!Nobody
<1>7. b \in CzStored /\ b.op = "nobody"
  BY <1>4, <1>5 DEF CzStored, CzWho
<1>8. ~ v9 => CzAlone /\ CzNamed /\ CzSaid /\ v2 = o /\ Cz!Latest = v1[o]
  <2> HAVE ~ v9
  <2>1. CzAlone /\ CzNamed /\ CzSaid
    BY <1>1 DEF CzCalm
  <2>2. v2 = o
    BY <1>1, <1>2, <2>1 DEF CzAlone
  <2> QED
    BY <1>1, <2>1, <2>2, CzLatestIs DEF CzFound
<1>9. /\ v1' \in Seq(CzState) /\ Len(v1') = Len(v1) /\ v1'[o].id = v1[o].id
      /\ ~ v9 => CzHere(v1'[o], v7) /\ CzSaid'
  <2>1. ~ v9 => CzHere(v1[o], v7) /\ CzSaid
    BY <1>8 DEF CzNamed
  <2>2. o \in DOMAIN v1 /\ v7' = v7
    BY <1>3, <1>6
  <2> QED
    BY <1>1, <1>3, <1>6, <2>1, <2>2, CzExcuse
<1>10. CzPlaced'
  <2>1. v2' \in -1 .. Len(v1) /\ v3' \in BOOLEAN /\ v4' \in CzStored /\ v5' \in CzIn /\ v5'.pc = "idle"
    BY <1>3, <1>6, <1>7, CzSilent
  <2>2. UNCHANGED <<v6, v7, v9, v10, v11, v12>>
    BY <1>6
  <2> QED
    BY <1>1, <1>9, <2>1, <2>2, CzServed, Zenon
<1>11. ASSUME ~ v9' PROVE CzAlone' /\ CzNamed' /\ CzSaid'
  <2>1. ~ v9 /\ CzAlone /\ CzNamed /\ CzSaid /\ v2' = o
    BY <1>6, <1>8, <1>11
  <2>2. \A n \in Task : v6'[n].pc = "idle"
    BY <1>1, <1>6, <2>1 DEF CzAlone
  <2>3. CzAlone'
    BY <1>6, <2>2, CzSilent DEF CzAlone
  <2>4. Cz!Latest' = v1'[o] /\ Cz!Latest'.id = Cz!Latest.id
    BY <1>8, <1>9, <1>10, <2>1, CzLatestNext DEF CzFound
  <2>5. CzNamed'
    <3>1. v2' # 0 /\ v2' # -1
      BY <1>3, <2>1
    <3>2. CzHere(Cz!Latest', v7')
      BY <1>6, <1>9, <2>1, <2>4
    <3>3. v3' => Cz!Latest'.id = v4'.op
      BY <1>6, <1>7, <2>1, <2>4 DEF CzNamed
    <3>4. ~ v3' => Cz!Latest'.id = "nobody"
      BY <1>6, <2>1, <2>4 DEF CzNamed
    <3> QED
      BY <3>1, <3>2, <3>3, <3>4 DEF CzNamed
  <2> QED
    BY <1>9, <2>1, <2>3, <2>5
<1> QED
  BY <1>10, <1>11, CzPartsNext DEF CzCalm

LEMMA CzCloseRequest ==
  ASSUME Cz!IInv, Cz!CloseRequest
  PROVE  Cz!IInv'
<1>1. CzPlaced /\ CzCalm /\ v5.pc = "close"
  BY CzParts DEF Cz!CloseRequest
<1>2. UNCHANGED <<v1, v2, v3, v4, v6, v7, v8, v9, v10, v11, v12>> /\ v5' = Cz!Silent
  BY Zenon DEF Cz!CloseRequest
<1>3. CzPlaced'
  BY <1>1, <1>2, CzSilent DEF CzPlaced
<1>4. Cz!Latest' = Cz!Latest
  BY <1>2, Zenon DEF Cz!Latest, Cz!Recovered
<1>5. ASSUME ~ v9' PROVE CzAlone' /\ CzNamed' /\ CzSaid'
  <2>1. ~ v9 /\ CzAlone /\ CzNamed /\ CzSaid
    BY <1>1, <1>2, <1>5 DEF CzCalm
  <2>2. \A n \in Task : v6'[n].pc = "idle"
    BY <1>1, <1>2, <2>1 DEF CzAlone
  <2>3. CzAlone'
    BY <1>2, <2>2, CzSilent DEF CzAlone
  <2> QED
    BY <1>2, <1>4, <2>1, <2>3, Zenon DEF CzNamed, CzSaid
<1> QED
  BY <1>3, <1>5, CzPartsNext DEF CzCalm

(* A notice is taken. *)
LEMMA CzReceive ==
  ASSUME Cz!IInv, NEW n \in Task, NEW t \in {"text", "closed", "other", "joined", "left"}, NEW a \in CzWho,
         t \in {"joined", "left"} => a \in Party, Cz!Receive(n, t, a)
  PROVE  Cz!IInv'
<1>1. CzPlaced /\ CzCalm /\ v6[n].pc = "idle"
  BY CzParts DEF Cz!Receive
<1>2. Len(v1) \in Nat /\ DOMAIN v1 = 1 .. Len(v1) /\ v1 \in Seq(CzState) /\ v4 \in CzStored /\ v2 \in -1 .. Len(v1) /\ v9 \in BOOLEAN
  BY <1>1, CzLen DEF CzPlaced
<1>3. PICK R : R = Cz!Recovered
  OBVIOUS
<1>4. R \in CzState
  <2>1. PICK nm \in CzName : nm = IF v4.op = "nobody" THEN "" ELSE v4.op
    BY <1>2 DEF CzStored, CzWho, CzName
  <2>2. R = [ev |-> v4.ev, id |-> v4.op, name |-> nm]
    BY <1>3, <2>1 DEF Cz!Recovered, Cz!Nobody
  <2> QED
    BY <1>2, <2>1, <2>2 DEF CzStored, CzState
<1>5. PICK o : o = IF v2 = -1 THEN Len(v1) + 1 ELSE v2
  OBVIOUS
<1>6. PICK w : w = [pc |-> "send", t |-> t, a |-> a, o |-> o]
  OBVIOUS
<1>7. /\ UNCHANGED <<v3, v4, v5, v7, v8, v10, v12>> /\ v3 /\ v11 < MaxTold /\ v11' = v11 + 1
      /\ v9' = (v9 \/ Cz!Busy)
      /\ IF v2 = 0 THEN UNCHANGED <<v1, v2, v6>>
         ELSE v1' = (IF v2 = -1 THEN Append(v1, R) ELSE v1) /\ v2' = o /\ v6' = [v6 EXCEPT ![n] = w]
  BY <1>3, <1>5, <1>6 DEF Cz!Receive, Cz!None, Cz!AsStored
<1>8. v11' \in 0 .. MaxTold
  <2>1. v11 \in 0 .. MaxTold
    BY <1>1 DEF CzPlaced
  <2>2. v11 < MaxTold /\ v11' = v11 + 1
    BY <1>7, Zenon
  <2> QED
    BY <2>1, <2>2, CzBounds
<1>9. UNCHANGED <<v3, v4, v5, v7, v8, v10, v12>> /\ v9' \in BOOLEAN /\ v3
  BY <1>2, <1>7
<1>10. ASSUME ~ v9' PROVE CzCalm /\ CzAlone /\ CzNamed /\ CzSaid /\ ~ v9 /\ v5.pc = "idle" /\ \A m \in Task : v6[m].pc = "idle"
  <2>1. ~ v9 /\ v5.pc = "idle" /\ \A m \in Task : v6[m].pc = "idle"
    BY <1>2, <1>7, <1>10, CzBusy
  <2> QED
    BY <1>1, <2>1 DEF CzCalm
<1>11. CASE v2 = 0
  <2>1. UNCHANGED <<v1, v2, v6>>
    BY <1>7, <1>11
  <2>2. CzPlaced'
    BY <1>1, <1>8, <1>9, <2>1 DEF CzPlaced
  <2>3. Cz!Latest' = Cz!Latest
    BY <1>9, <2>1, Zenon DEF Cz!Latest, Cz!Recovered
  <2>4. ASSUME ~ v9' PROVE CzAlone' /\ CzNamed' /\ CzSaid'
    BY <1>9, <1>10, <2>1, <2>3, <2>4, Zenon DEF CzAlone, CzNamed, CzSaid
  <2> QED
    BY <2>2, <2>4, CzPartsNext DEF CzCalm
<1>12. CASE v2 # 0
  <2>1. v1' = (IF v2 = -1 THEN Append(v1, R) ELSE v1) /\ v2' = o /\ v6' = [v6 EXCEPT ![n] = w]
    BY <1>7, <1>12
  <2>2. v1' \in Seq(CzState) /\ Len(v1') \in Nat /\ Len(v1') >= Len(v1) /\ o \in 1 .. Len(v1') /\ (v2 = -1 => v1'[o] = R) /\ (v2 # -1 => v1' = v1)
    <3>1. CASE v2 = -1
      <4>1. v1' = Append(v1, R) /\ o = Len(v1) + 1
        BY <1>5, <2>1, <3>1
      <4>2. v1' \in Seq(CzState) /\ Len(v1') = Len(v1) + 1 /\ v1'[o] = R
        BY <1>2, <1>4, <4>1, AppendTo
      <4> QED
        BY <1>2, <3>1, <4>1, <4>2
    <3>2. CASE v2 # -1
      <4>1. v1' = v1 /\ o = v2 /\ v2 \in 1 .. Len(v1)
        BY <1>2, <1>5, <1>12, <2>1, <3>2
      <4> QED
        BY <1>2, <3>2, <4>1
    <3> QED
      BY <3>1, <3>2
  <2>3. w \in CzNotice /\ w.pc = "send" /\ w.o = o /\ w.t = t /\ w.a = a
    <3>1. o \in Nat
      BY <2>2
    <3> QED
      BY <1>6, <3>1 DEF CzNotice
  <2>4. v6' \in [Task -> CzNotice] /\ v6'[n] = w /\ \A m \in Task \ {n} : v6'[m] = v6[m]
    <3>1. v6 \in [Task -> CzNotice]
      BY <1>1 DEF CzPlaced
    <3> QED
      BY <2>1, <2>3, <3>1
  <2>5. CzPlaced'
    <3>1. \A k \in 1 .. Len(v1) : k \in 1 .. Len(v1')
      BY <1>2, <2>2
    <3>2. v2' \in -1 .. Len(v1')
      BY <2>1, <2>2
    <3>3. /\ \A m \in Task : v6[m].pc # "idle" => v6[m].o \in 1 .. Len(v1) /\ (v6[m].t \in {"joined", "left"} => v6[m].a \in Party)
          /\ v5.pc # "idle" => v5.o \in 1 .. Len(v1)
      BY <1>1 DEF CzPlaced
    <3>4. \A m \in Task : v6'[m].pc # "idle" => v6'[m].o \in 1 .. Len(v1') /\ (v6'[m].t \in {"joined", "left"} => v6'[m].a \in Party)
      BY <2>2, <2>3, <2>4, <3>1, <3>3
    <3>5. v5' = v5 /\ (v5'.pc # "idle" => v5'.o \in 1 .. Len(v1'))
      BY <1>9, <3>1, <3>3
    <3>6. v3' \in BOOLEAN /\ v4' \in CzStored /\ v7' \subseteq Party /\ v10' \in 0 .. MaxState /\ v12' \in 0 .. MaxFails /\ v5' \in CzIn
      BY <1>1, <1>9 DEF CzPlaced
    <3> QED
      BY <1>8, <1>9, <2>2, <2>4, <3>2, <3>4, <3>5, <3>6, Zenon DEF CzPlaced
  <2>6. Cz!Latest' = Cz!Latest
    <3>1. CzFound /\ CzFound'
      BY <1>1, <2>5, CzLatestIs, CzLatestNext
    <3>2. Cz!Latest' = v1'[o]
      BY <2>1, <2>2, <3>1 DEF CzFound
    <3>3. v2 = -1 => Cz!Latest = R
      BY <1>3, <3>1 DEF CzFound
    <3>4. v2 # -1 => v2 \in 1 .. Len(v1) /\ o = v2
      BY <1>2, <1>5, <1>12
    <3>5. v2 # -1 => Cz!Latest = v1[o]
      BY <3>1, <3>4 DEF CzFound
    <3> QED
      BY <2>2, <3>2, <3>3, <3>5
  <2>7. ASSUME ~ v9' PROVE CzAlone' /\ CzNamed' /\ CzSaid'
    <3>1. \A m \in Task : v6'[m].pc # "idle" => m = n
      BY <1>10, <2>4, <2>7
    <3>2. v5'.pc = "idle" /\ v3' /\ v2' = o /\ v2' # 0
      BY <1>9, <1>10, <2>1, <2>2, <2>7
    <3>3. CzAlone'
      BY <2>3, <2>4, <3>1, <3>2 DEF CzAlone
    <3>4. CzNamed'
      BY <1>9, <1>10, <2>6, <2>7, <3>2 DEF CzNamed
    <3> QED
      BY <1>9, <1>10, <2>7, <3>3, <3>4, Zenon DEF CzSaid
  <2> QED
    BY <2>5, <2>7, CzPartsNext DEF CzCalm
<1> QED
  BY <1>11, <1>12

(* Another process recovers the channel with what is stored. *)
LEMMA CzRestart ==
  ASSUME Cz!IInv, Cz!Restart
  PROVE  Cz!IInv'
<1>1. CzPlaced /\ CzCalm
  BY CzParts
<1>2. /\ UNCHANGED <<v1, v3, v4, v7, v8, v9, v10, v11>> /\ v12 < MaxFails /\ v12' = v12 + 1
      /\ v2' = (IF v3 THEN -1 ELSE 0) /\ v5' = Cz!Silent /\ v6' = [n \in Task |-> Cz!Quiet]
  BY Zenon DEF Cz!Restart, Cz!None, Cz!AsStored
<1>3. v6' \in [Task -> CzNotice] /\ \A n \in Task : v6'[n].pc = "idle"
  BY <1>2 DEF Cz!Quiet, Cz!Nobody, CzNotice, CzWho
<1>4. CzPlaced'
  <2>1. v12' \in 0 .. MaxFails
    <3>1. v12 \in 0 .. MaxFails
      BY <1>1 DEF CzPlaced
    <3>2. v12 < MaxFails /\ v12' = v12 + 1
      BY <1>2, Zenon
    <3> QED
      BY <3>1, <3>2, CzBounds
  <2>2. v2' \in -1 .. Len(v1)
    <3>1. Len(v1) \in Nat
      BY <1>1, CzLen
    <3>2. v2' = -1 \/ v2' = 0
      BY <1>2
    <3> QED
      BY <3>1, <3>2
  <2>3. UNCHANGED <<v1, v3, v4, v7, v9, v10, v11>> /\ v5' = Cz!Silent
    BY <1>2
  <2> QED
    BY <1>1, <1>3, <2>1, <2>2, <2>3, CzSilent DEF CzPlaced
<1>5. ASSUME ~ v9' PROVE CzAlone' /\ CzNamed' /\ CzSaid'
  <2>1. CzAlone /\ CzNamed /\ CzSaid /\ CzFound /\ CzFound'
    BY <1>1, <1>2, <1>4, <1>5, CzLatestIs, CzLatestNext DEF CzCalm
  <2>2. v5'.pc = "idle" /\ v4' = v4 /\ v7' = v7 /\ v3' = v3 /\ v8' = v8
    BY <1>2, CzSilent
  <2>3. CzAlone'
    BY <1>3, <2>2 DEF CzAlone
  <2>4. CASE v3
    <3>1. v2' = -1 /\ Cz!Latest.id = v4.op /\ CzHere(Cz!Latest, v7)
      BY <1>2, <2>1, <2>4 DEF CzNamed
    <3>2. Cz!Latest'.id = v4.op /\ Cz!Latest'.name = IF v4.op = "nobody" THEN "" ELSE v4.op
      BY <2>1, <2>2, <3>1 DEF CzFound
    <3>3. CzHere(Cz!Latest', v7')
      BY <2>2, <3>1, <3>2 DEF CzHere
    <3>4. v2' # 0
      BY <3>1
    <3> QED
      BY <2>1, <2>2, <2>3, <2>4, <3>2, <3>3, <3>4 DEF CzNamed, CzSaid
  <2>5. CASE ~ v3
    <3>1. v2' = 0
      BY <1>2, <2>5
    <3>2. Cz!Latest'.id = "nobody" /\ Cz!Latest'.name = "" /\ v2' # -1
      <4>1. v2' # -1
        BY <3>1
      <4> QED
        BY <2>1, <3>1, <4>1 DEF CzFound
    <3>3. CzHere(Cz!Latest', v7')
      BY <3>2 DEF CzHere
    <3> QED
      BY <2>1, <2>2, <2>3, <2>5, <3>2, <3>3 DEF CzNamed, CzSaid
  <2> QED
    BY <2>4, <2>5
<1> QED
  BY <1>4, <1>5, CzPartsNext DEF CzCalm

(* A notice is done with its state, the latest; the conversation goes on with it or is over. *)
LEMMA CzDone ==
  ASSUME CzPlaced, CzCalm, NEW n \in Task, v6[n].pc = "send", NEW o \in 1 .. Len(v1), o = v6[n].o,
         NEW e \in CzState, NEW on, on \subseteq Party, NEW t, NEW over \in BOOLEAN,
         UNCHANGED <<v5, v10, v11, v12>>, v6' = [v6 EXCEPT ![n] = Cz!Quiet], v7' = on, v1' = [v1 EXCEPT ![o] = e],
         v8' = [t |-> t, name |-> e.name, here |-> on] \/ UNCHANGED v8,
         v4' \in CzStored, v9' \in BOOLEAN, v9 => v9',
         ~ v9' /\ CzHere(v1[o], v7) => CzHere(e, on),
         ~ v9' /\ ~ over /\ v1[o].id = v4.op => e.id = v4'.op,
         IF over THEN v3' = FALSE /\ v2' = 0 ELSE UNCHANGED <<v3, v2>>
  PROVE  Cz!IInv'
<1>1. Len(v1) \in Nat /\ DOMAIN v1 = 1 .. Len(v1) /\ v1 \in Seq(CzState) /\ v2 \in -1 .. Len(v1) /\ v3 \in BOOLEAN
  BY CzLen DEF CzPlaced
<1>2. v1' \in Seq(CzState) /\ Len(v1') = Len(v1) /\ v1'[o] = e
  BY <1>1, ReplaceIn
<1>3. Cz!Quiet \in CzNotice /\ Cz!Quiet.pc = "idle"
  BY DEF Cz!Quiet, Cz!Nobody, CzNotice, CzWho
<1>4. v6' \in [Task -> CzNotice] /\ v6'[n].pc = "idle" /\ \A m \in Task \ {n} : v6'[m] = v6[m]
  <2>1. v6 \in [Task -> CzNotice]
    BY DEF CzPlaced
  <2> QED
    BY <1>3, <2>1
<1>5. CzPlaced'
  <2>1. v2' \in -1 .. Len(v1) /\ v3' \in BOOLEAN
    <3>1. CASE over
      <4>1. v2' = 0 /\ v3' = FALSE
        BY <3>1
      <4>2. 0 \in -1 .. Len(v1)
        BY <1>1
      <4> QED
        BY <4>1, <4>2, Zenon
    <3>2. CASE ~ over
      <4>1. v2' = v2 /\ v3' = v3
        BY <3>2
      <4> QED
        BY <1>1, <4>1, Zenon
    <3> QED
      BY <3>1, <3>2
  <2>2. /\ \A m \in Task : v6[m].pc # "idle" => v6[m].o \in 1 .. Len(v1) /\ (v6[m].t \in {"joined", "left"} => v6[m].a \in Party)
        /\ v5.pc # "idle" => v5.o \in 1 .. Len(v1)
    BY DEF CzPlaced
  <2>3. /\ \A m \in Task : v6'[m].pc # "idle" => v6'[m].o \in 1 .. Len(v1') /\ (v6'[m].t \in {"joined", "left"} => v6'[m].a \in Party)
        /\ v5'.pc # "idle" => v5'.o \in 1 .. Len(v1')
    BY <1>2, <1>4, <2>2
  <2>4. v5' \in CzIn /\ v10' \in 0 .. MaxState /\ v11' \in 0 .. MaxTold /\ v12' \in 0 .. MaxFails
    BY DEF CzPlaced
  <2> QED
    BY <1>2, <1>4, <2>1, <2>3, <2>4, Zenon DEF CzPlaced
<1>6. ASSUME ~ v9' PROVE CzAlone' /\ CzNamed' /\ CzSaid'
  <2>1. CzAlone /\ CzNamed /\ CzSaid
    BY <1>6 DEF CzCalm
  <2>2. v5'.pc = "idle" /\ v2 = o /\ v3 /\ \A m \in Task : v6[m].pc # "idle" => m = n
    BY <2>1 DEF CzAlone
  <2>3. \A m \in Task : v6'[m].pc = "idle"
    BY <1>4, <2>2
  <2>4. CzAlone'
    BY <2>2, <2>3 DEF CzAlone
  <2>5. CzFound /\ CzFound' /\ Cz!Latest = v1[o]
    BY <1>5, <2>2, CzLatestIs, CzLatestNext DEF CzFound
  <2>6. CzHere(e, on)
    BY <1>6, <2>1, <2>5 DEF CzNamed
  <2>7. CzSaid'
    <3>1. CASE UNCHANGED v8
      BY <2>1, <3>1, Zenon DEF CzSaid
    <3>2. CASE v8' = [t |-> t, name |-> e.name, here |-> on]
      <4>1. v8'.name = e.name /\ v8'.here = on
        BY <3>2
      <4>2. e.name \in {"", "bot"} \cup on
        BY <2>6 DEF CzHere
      <4> QED
        BY <4>1, <4>2 DEF CzSaid
    <3> QED
      BY <3>1, <3>2
  <2>8. CzNamed'
    <3>1. CASE over
      <4>1. v2' = 0 /\ ~ v3'
        BY <3>1
      <4>2. v2' # -1
        BY <4>1
      <4>3. Cz!Latest'.id = "nobody" /\ Cz!Latest'.name = ""
        BY <2>5, <4>1 DEF CzFound
      <4>4. CzHere(Cz!Latest', v7')
        BY <4>3 DEF CzHere
      <4> QED
        BY <4>1, <4>2, <4>3, <4>4 DEF CzNamed
    <3>2. CASE ~ over
      <4>1. v2' = o /\ v3' /\ v2' # 0
        BY <1>1, <2>2, <3>2
      <4>2. Cz!Latest' = e
        BY <1>2, <2>5, <4>1 DEF CzFound
      <4>3. e.id = v4'.op
        BY <1>6, <2>1, <2>2, <2>5, <3>2 DEF CzNamed
      <4> QED
        BY <2>6, <4>1, <4>2, <4>3 DEF CzNamed
    <3> QED
      BY <3>1, <3>2
  <2> QED
    BY <2>4, <2>7, <2>8
<1> QED
  BY <1>5, <1>6, CzPartsNext DEF CzCalm

(* A notice is served: who comes is named if nobody was, who leaves is not any more. *)
LEMMA CzSendNotify ==
  ASSUME Cz!IInv, NEW n \in Task, NEW kept \in BOOLEAN, Cz!SendNotify(n, kept)
  PROVE  Cz!IInv'
<1>1. CzPlaced /\ CzCalm /\ v6[n].pc = "send"
  BY CzParts DEF Cz!SendNotify
<1>2. Len(v1) \in Nat /\ DOMAIN v1 = 1 .. Len(v1) /\ v1 \in Seq(CzState) /\ v4 \in CzStored /\ v9 \in BOOLEAN /\ v7 \subseteq Party
  BY <1>1, CzLen DEF CzPlaced
<1>3. PICK w \in CzNotice : w = v6[n]
  BY <1>1 DEF CzPlaced
<1>4. PICK o \in 1 .. Len(v1) : o = w.o
  BY <1>1, <1>3 DEF CzPlaced
<1>5. PICK s \in CzState : s = v1[o]
  BY <1>2, <1>4, ElementsOf
<1>6. PICK a \in CzWho : a = w.a /\ (w.t \in {"joined", "left"} => a \in Party)
  BY <1>1, <1>3 DEF CzPlaced, CzNotice
<1>7. PICK e : e = CASE w.t = "text" /\ s.ev = "chat" -> Cz!Answer(s)
                     [] w.t = "joined"                -> Cz!Joined(s, a)
                     [] w.t = "left"                  -> Cz!Left(s, a)
                     [] w.t = "closed" /\ s.ev \in {"chat", "closeChat"} -> [s EXCEPT !.id = "nobody", !.name = ""]
                     [] OTHER                         -> s
  OBVIOUS
<1>8. PICK on : on = IF w.t = "joined" THEN v7 \cup {a} ELSE IF w.t = "left" THEN v7 \ {a} ELSE v7
  OBVIOUS
<1>9. /\ UNCHANGED <<v5, v10, v11, v12>> /\ v6' = [v6 EXCEPT ![n] = Cz!Quiet] /\ v7' = on /\ v1' = [v1 EXCEPT ![o] = e]
      /\ (v8' = [t |-> w.t, name |-> v1'[o].name, here |-> v7'] \/ UNCHANGED v8)
      /\ IF w.t = "joined" /\ s.id = "nobody" THEN Cz!Bind(a, kept)
         ELSE IF w.t = "left" /\ s.id = a THEN Cz!Bind("nobody", kept)
         ELSE kept /\ UNCHANGED <<v4, v9>>
      /\ IF w.t = "closed" THEN v3' = FALSE /\ v2' = 0 ELSE UNCHANGED <<v3, v2>>
  BY <1>3, <1>4, <1>5, <1>6, <1>7, <1>8 DEF Cz!SendNotify, Cz!Reply, Cz!Nobody, Cz!None
<1>10. s.ev \in CzEv /\ s.id \in CzWho /\ s.name \in CzName
  BY DEF CzState
<1>11. w.t \in {"none", "text", "closed", "other", "joined", "left"}
  BY DEF CzNotice
<1>12. PICK over \in BOOLEAN : over = (w.t = "closed")
  OBVIOUS
<1>13. /\ e \in CzState => v1'[o] = e
       /\ on \subseteq Party
       /\ IF over THEN v3' = FALSE /\ v2' = 0 ELSE UNCHANGED <<v3, v2>>
  <2>1. e \in CzState => v1'[o] = e
    BY <1>2, <1>9, ReplaceIn
  <2>2. on \subseteq Party
    BY <1>2, <1>6, <1>8
  <2> QED
    BY <1>9, <1>12, <2>1, <2>2
<1>14. ASSUME e \in CzState, v4' \in CzStored, v9' \in BOOLEAN, v9 => v9', ~ v9' /\ CzHere(s, v7) => CzHere(e, on),
              ~ v9' /\ ~ over /\ s.id = v4.op => e.id = v4'.op
       PROVE  Cz!IInv'
  <2>1. v8' = [t |-> w.t, name |-> e.name, here |-> on] \/ UNCHANGED v8
    BY <1>9, <1>13, <1>14
  <2>2. UNCHANGED <<v5, v10, v11, v12>> /\ v6' = [v6 EXCEPT ![n] = Cz!Quiet] /\ v7' = on /\ v1' = [v1 EXCEPT ![o] = e]
    BY <1>9
  <2>3. o = v6[n].o /\ v6[n].pc = "send" /\ s = v1[o]
    BY <1>1, <1>3, <1>4, <1>5
  <2> QED
    BY <1>1, <1>13, <1>14, <2>1, <2>2, <2>3, CzDone
<1>15. ASSUME NEW op \in CzWho, Cz!Bind(op, kept)
       PROVE  v4' \in CzStored /\ v9' \in BOOLEAN /\ (v9 => v9') /\ (~ v9' => v4'.op = op)
  <2>1. (v4' = IF kept THEN [v4 EXCEPT !.op = op] ELSE v4) /\ v9' = (v9 \/ ~ kept)
    BY <1>15, Zenon DEF Cz!Bind
  <2> QED
    BY <1>2, <2>1 DEF CzStored
<1>16. CASE w.t \in {"none", "text", "other", "closed"}
  <2>1. UNCHANGED <<v4, v9>> /\ on = v7
    BY <1>8, <1>9, <1>16
  <2>2. CASE e = s
    BY <1>2, <1>14, <2>1, <2>2
  <2>3. CASE e = Cz!Answer(s)
    <3>1. PICK nm \in CzName : nm = IF s.name = "" THEN "bot" ELSE s.name
      BY <1>10 DEF CzName
    <3>2. e = [s EXCEPT !.name = nm]
      BY <2>3, <3>1 DEF Cz!Answer, Cz!Bot, CzState
    <3>3. e \in CzState /\ e.id = s.id /\ e.name = nm
      BY <3>1, <3>2 DEF CzState
    <3>4. CzHere(s, v7) => CzHere(e, on)
      BY <1>10, <2>1, <3>1, <3>3, CorezoidAssumption DEF CzHere, CzWho
    <3> QED
      BY <1>2, <1>14, <2>1, <3>3, <3>4
  <2>4. CASE w.t = "closed" /\ e = [s EXCEPT !.id = "nobody", !.name = ""]
    <3>1. e \in CzState /\ e.id = "nobody" /\ e.name = ""
      BY <2>4 DEF CzState, CzWho, CzName
    <3>2. CzHere(e, on)
      BY <3>1 DEF CzHere
    <3> QED
      BY <1>2, <1>12, <1>14, <2>1, <2>4, <3>1, <3>2
  <2> QED
    BY <1>7, <1>16, <2>2, <2>3, <2>4
<1>17. CASE w.t = "joined"
  <2>1. e = Cz!Joined(s, a) /\ on = v7 \cup {a} /\ a \in Party
    BY <1>6, <1>7, <1>8, <1>17
  <2>2. CASE s.id = "nobody"
    <3>1. Cz!Bind(a, kept)
      BY <1>9, <1>17, <2>2
    <3>2. e = [s EXCEPT !.id = a, !.name = a]
      BY <2>1, <2>2 DEF Cz!Joined, Cz!Nobody
    <3>3. e \in CzState /\ e.id = a /\ e.name = a
      BY <2>1, <3>2 DEF CzState, CzWho, CzName
    <3>4. CzHere(e, on)
      BY <2>1, <3>3, CorezoidAssumption DEF CzHere
    <3> QED
      BY <1>14, <1>15, <3>1, <3>3, <3>4
  <2>3. CASE s.id # "nobody"
    <3>1. UNCHANGED <<v4, v9>>
      BY <1>9, <1>17, <2>3
    <3>2. e = s
      BY <2>1, <2>3 DEF Cz!Joined, Cz!Nobody
    <3>3. CzHere(s, v7) => CzHere(s, on)
      BY <2>1 DEF CzHere
    <3> QED
      BY <1>2, <1>14, <3>1, <3>2, <3>3
  <2> QED
    BY <2>2, <2>3
<1>18. CASE w.t = "left"
  <2>1. e = Cz!Left(s, a) /\ on = v7 \ {a} /\ a \in Party
    BY <1>6, <1>7, <1>8, <1>18
  <2>2. CASE s.id = a
    <3>1. Cz!Bind("nobody", kept) /\ "nobody" \in CzWho
      BY <1>9, <1>18, <2>2 DEF CzWho
    <3>2. e = [s EXCEPT !.id = "nobody", !.name = ""]
      BY <2>1, <2>2 DEF Cz!Left, Cz!Nobody
    <3>3. e \in CzState /\ e.id = "nobody" /\ e.name = ""
      BY <3>2 DEF CzState, CzWho, CzName
    <3>4. CzHere(e, on)
      BY <3>3 DEF CzHere
    <3> QED
      BY <1>14, <1>15, <3>1, <3>3, <3>4
  <2>3. CASE s.id # a
    <3>1. UNCHANGED <<v4, v9>>
      BY <1>9, <1>18, <2>3
    <3>2. e = s
      BY <2>1, <2>3 DEF Cz!Left
    <3>3. CzHere(s, v7) => CzHere(s, on)
      BY <2>1, <2>3 DEF CzHere
    <3> QED
      BY <1>2, <1>14, <3>1, <3>2, <3>3
  <2> QED
    BY <2>2, <2>3
<1> QED
  BY <1>11, <1>16, <1>17, <1>18

LEMMA CzStep ==
  ASSUME Cz!IInv, Cz!Next
  PROVE  Cz!IInv'
<1>1. ASSUME NEW n \in Task, NEW t \in {"text", "closed", "other"}, Cz!Receive(n, t, Cz!Nobody) PROVE Cz!IInv'
  BY <1>1, CzReceive DEF Cz!Nobody, CzWho
<1>2. ASSUME NEW n \in Task, NEW t \in {"joined", "left"}, NEW a \in Party, Cz!Receive(n, t, a) PROVE Cz!IInv'
  BY <1>2, CzReceive DEF CzWho
<1> QED
  BY <1>1, <1>2, CzWebHook, CzSetState, CzCloseRequest, CzRead, CzSendNotify, CzRestart, Zenon DEF Cz!Next

LEMMA CzRests ==
  ASSUME Cz!IInv, UNCHANGED Cz!czVars
  PROVE  Cz!IInv'
<1>1. UNCHANGED <<v1, v2, v3, v4, v5, v6, v7, v8, v9, v10, v11, v12>>
  BY Zenon DEF Cz!czVars
<1>2. CzPlaced /\ CzCalm
  BY CzParts
<1>3. CzPlaced'
  BY <1>1, <1>2, Zenon DEF CzPlaced
<1>4. Cz!Latest' = Cz!Latest
  BY <1>1, Zenon DEF Cz!Latest, Cz!Recovered
<1>5. CzCalm'
  BY <1>1, <1>2, <1>4, Zenon DEF CzCalm, CzAlone, CzNamed, CzSaid
<1> QED
  BY <1>3, <1>5, CzPartsNext

(* With an object, the latest state is that object. *)
LEMMA CzHolds ==
  ASSUME Cz!IInv
  PROVE  Cz!TypeOK /\ Cz!NamedIsHere /\ Cz!OperatorStored
<1>1. CzPlaced /\ CzCalm
  BY CzParts
<1>2. ASSUME ~ v9, v2 > 0, v3 PROVE v1[v2].id = v4.op
  <2>1. Len(v1) \in Nat /\ v2 \in -1 .. Len(v1)
    BY <1>1, CzLen DEF CzPlaced
  <2>2. v2 \in 1 .. Len(v1)
    BY <1>2, <2>1
  <2>3. Cz!Latest = v1[v2]
    BY <1>1, <2>2, CzLatestIs DEF CzFound
  <2> QED
    BY <1>1, <1>2, <2>3 DEF CzCalm, CzNamed
<1>3. Cz!OperatorStored
  BY <1>2, Zenon DEF Cz!OperatorStored
<1> QED
  BY <1>3, Zenon DEF Cz!IInv

-----------------------------------------------------------------------------
(* All of them: the invariant of the provider at work. *)

ProvidersInv ==
  /\ part = "login" => Login!IInv
  /\ part = "viber" => Vb!IInv
  /\ part = "vk" => Vk(MaxPosts, 0)!IInv
  /\ part = "vkNotes" => Vk(MaxPostsOut, MaxNotes)!IInv
  /\ part = "infobip" => Ib!IInv
  /\ part = "corezoid" => Cz!IInv

LEMMA ProviderBounds ==
  MaxPosts \in Nat /\ MaxPostsOut \in Nat /\ MaxNotes \in Nat /\ 0 \in Nat
BY VkAssumption

LEMMA ProvidersStart ==
  ASSUME MCInit
  PROVE  ProvidersInv
<1>1. CASE part = "login" /\ Login!Init
  BY <1>1, ProviderBounds, LoginStarts DEF ProvidersInv
<1>2. CASE part = "viber" /\ Vb!Init
  BY <1>2, ProviderBounds, ViberStarts DEF ProvidersInv
<1>3. CASE part = "vk" /\ Vk(MaxPosts, 0)!Init
  BY <1>3, ProviderBounds, VkStarts DEF ProvidersInv
<1>4. CASE part = "vkNotes" /\ Vk(MaxPostsOut, MaxNotes)!Init
  BY <1>4, ProviderBounds, VkStarts DEF ProvidersInv
<1>5. CASE part = "infobip" /\ Ib!Init
  BY <1>5, ProviderBounds, IbStarts DEF ProvidersInv
<1>6. CASE part = "corezoid" /\ Cz!Init
  BY <1>6, ProviderBounds, CzStarts DEF ProvidersInv
<1>7. CASE part \in {"telegram", "notices", "gotd", "custom", "keyboard"}
  BY <1>7 DEF ProvidersInv
<1> QED
  BY <1>1, <1>2, <1>3, <1>4, <1>5, <1>6, <1>7, Zenon DEF MCInit

LEMMA ProvidersStep ==
  ASSUME ProvidersInv, MCNext
  PROVE  ProvidersInv'
<1>1. CASE part = "login" /\ Login!Next /\ part' = part
  BY <1>1, ProviderBounds, LoginStep DEF ProvidersInv
<1>2. CASE part = "viber" /\ Vb!Next /\ part' = part
  BY <1>2, ProviderBounds, ViberStep DEF ProvidersInv
<1>3. CASE part = "vk" /\ Vk(MaxPosts, 0)!Next /\ part' = part
  BY <1>3, ProviderBounds, VkStep DEF ProvidersInv
<1>4. CASE part = "vkNotes" /\ Vk(MaxPostsOut, MaxNotes)!Next /\ part' = part
  BY <1>4, ProviderBounds, VkStep DEF ProvidersInv
<1>5. CASE part = "infobip" /\ Ib!Next /\ part' = part
  BY <1>5, ProviderBounds, IbStep DEF ProvidersInv
<1>6. CASE part = "corezoid" /\ Cz!Next /\ part' = part
  BY <1>6, ProviderBounds, CzStep DEF ProvidersInv
<1>7. CASE part \in {"telegram", "notices", "gotd", "custom", "keyboard"} /\ part' = part
  BY <1>7 DEF ProvidersInv
<1> QED
  BY <1>1, <1>2, <1>3, <1>4, <1>5, <1>6, <1>7, Zenon DEF MCNext

LEMMA ProvidersRest ==
  ASSUME ProvidersInv, UNCHANGED vars
  PROVE  ProvidersInv'
<1>1. /\ part' = part /\ v1' = v1 /\ v2' = v2 /\ v3' = v3 /\ v4' = v4 /\ v5' = v5 /\ v6' = v6 /\ v7' = v7
      /\ v8' = v8 /\ v9' = v9 /\ v10' = v10 /\ v11' = v11 /\ v12' = v12 /\ v13' = v13 /\ v14' = v14
  BY Zenon DEF vars
<1>2. CASE part = "login"
  <2>1. UNCHANGED Login!loginVars
    BY <1>1, Zenon DEF Login!loginVars
  <2> QED
    BY <1>1, <1>2, <2>1, ProviderBounds, LoginRests DEF ProvidersInv
<1>3. CASE part = "viber"
  <2>1. UNCHANGED Vb!viberVars
    BY <1>1, Zenon DEF Vb!viberVars
  <2> QED
    BY <1>1, <1>3, <2>1, ProviderBounds, ViberRests DEF ProvidersInv
<1>4. CASE part = "vk"
  <2>1. UNCHANGED Vk(MaxPosts, 0)!vkVars
    BY <1>1, Zenon DEF Vk!vkVars
  <2> QED
    BY <1>1, <1>4, <2>1, ProviderBounds, VkRests DEF ProvidersInv
<1>5. CASE part = "vkNotes"
  <2>1. UNCHANGED Vk(MaxPostsOut, MaxNotes)!vkVars
    BY <1>1, Zenon DEF Vk!vkVars
  <2> QED
    BY <1>1, <1>5, <2>1, ProviderBounds, VkRests DEF ProvidersInv
<1>6. CASE part = "infobip"
  <2>1. UNCHANGED Ib!infobipVars
    BY <1>1, Zenon DEF Ib!infobipVars
  <2> QED
    BY <1>1, <1>6, <2>1, ProviderBounds, IbRests DEF ProvidersInv
<1>7. CASE part = "corezoid"
  <2>1. UNCHANGED Cz!czVars
    BY <1>1, Zenon DEF Cz!czVars
  <2> QED
    BY <1>1, <1>7, <2>1, ProviderBounds, CzRests DEF ProvidersInv
<1>8. CASE part \notin {"login", "viber", "vk", "vkNotes", "infobip", "corezoid"}
  BY <1>1, <1>8 DEF ProvidersInv
<1> QED
  BY <1>2, <1>3, <1>4, <1>5, <1>6, <1>7, <1>8, Zenon

(***************************************************************************)
(* The invariant is kept by every step of every provider: webhooks and     *)
(* their retries, refusals and failures, notifications, broadcasts, the    *)
(* login's requests, updates and session file, and restarts.               *)
(***************************************************************************)
THEOREM ProvidersKept == MCSpec => []ProvidersInv
<1>1. MCInit => ProvidersInv
  BY ProvidersStart
<1>2. ProvidersInv /\ [MCNext]_vars => ProvidersInv'
  BY ProvidersStep, ProvidersRest
<1> QED
  BY <1>1, <1>2, PTL DEF MCSpec

(***************************************************************************)
(* The account of a Telegram gateway, of any accounts, keys and requests   *)
(* to sign in and out: the key it is signed in with is in the database for *)
(* the next start, the cached peers are those of the account signed in,    *)
(* and the logout tokens kept are the newest, newest first, whatever comes *)
(* between a request, Telegram's answer and the updates read.              *)
(***************************************************************************)
THEOREM AccountKept == MCSpec => []LoginKept
<1>1. ProvidersInv => LoginKept
  <2>1. part = "login" /\ ProvidersInv => Login!LoginSaved /\ Login!PeersOfUser /\ Login!TokensNewestFirst
    BY LoginHolds DEF ProvidersInv
  <2> QED
    BY <2>1, Zenon DEF LoginKept
<1> QED
  BY <1>1, ProvidersKept, PTL

(***************************************************************************)
(* Chats of Viber, VK, Infobip and Corezoid, of any peers, letters and     *)
(* numbers: a welcome opens a chat and comes into none that goes on, and a *)
(* customer who left is closed; a letter is read into the chat of its      *)
(* peer; a customer is answered from the number that opened the chat; who  *)
(* a reply names is in the chat, and the binding stored is his.            *)
(***************************************************************************)
THEOREM ChatsOfPeers == MCSpec => []ChatsKept
<1>1. ProvidersInv => ChatsKept
  <2>1. part = "viber" /\ ProvidersInv => Vb!WelcomeFirst /\ Vb!GoneIsClosed
    BY ViberHolds DEF ProvidersInv
  <2>2. part = "vk" /\ ProvidersInv => Vk(MaxPosts, 0)!OwnChat
    BY ProviderBounds, VkHolds DEF ProvidersInv
  <2>3. part = "vkNotes" /\ ProvidersInv => Vk(MaxPostsOut, MaxNotes)!OwnChat
    BY ProviderBounds, VkHolds DEF ProvidersInv
  <2>4. part = "infobip" /\ ProvidersInv => Ib!AnsweredFromOpened
    BY IbHolds DEF ProvidersInv
  <2>5. part = "corezoid" /\ ProvidersInv => Cz!NamedIsHere /\ Cz!OperatorStored
    BY CzHolds DEF ProvidersInv
  <2> QED
    BY <2>1, <2>2, <2>3, <2>4, <2>5, Zenon DEF ChatsKept
<1> QED
  BY <1>1, ProvidersKept, PTL
==============================================================================
