---------------------------- MODULE McpAuthProofs ----------------------------
(***************************************************************************)
(* McpAuth's safety, proved for any users, apps, bounds and times: a code  *)
(* or a refresh token is exchanged once, and whatever opens the MCP server *)
(* belongs to a connection its user can see and end.                       *)
(***************************************************************************)
EXTENDS McpAuth, TLAPS

-----------------------------------------------------------------------------
(* The inductive invariant. *)

\* Secrets are numbered as they are made.
Numbered ==
    /\ \A c \in codes : c.secret <= secrets
    /\ \A row \in tokens : row.pair <= secrets
    /\ \A p \in begot : p[1] <= secrets

\* No two rows hold one secret.
Apart ==
    /\ \A c, d \in codes : c.secret = d.secret => c = d
    /\ \A row, other \in tokens : row.pair = other.pair => row = other
    /\ \A c \in codes, row \in tokens : c.secret # row.pair

\* What was exchanged is in no row any more.
Spent ==
    \A p \in begot :
        /\ \A c \in codes : c.secret # p[1]
        /\ \A row \in tokens : row.pair # p[1]

SecretInv == Numbered /\ Apart /\ Spent /\ ExchangedOnce

Timed == \A row \in tokens : row.used <= now /\ row.until <= row.used + AccessTtl

\* An app is pruned only when no code and no connection of it is left.
AppsKept ==
    /\ \A c \in codes : registered[c.app] # None
    /\ \A row \in tokens : registered[row.app] # None

EndedWithAccess == \A row \in tokens : ~HasAccess(row.user) => row.revoked

HandInv == Timed /\ AppsKept /\ EndedWithAccess

-----------------------------------------------------------------------------
(* Type correctness. *)

\* A connection's row with fields set is a connection's row.
LEMMA RowTypes ==
    ASSUME TypeOK, NEW row \in tokens
    PROVE /\ row \in Tokens /\ row.user \in Users /\ row.app \in Apps /\ row.pair \in Nat
          /\ row.until \in Nat /\ row.used \in Nat /\ row.revoked \in BOOLEAN
          /\ RevokedRow(row) \in Tokens
          /\ [row EXCEPT !.used = now] \in Tokens
          /\ Refreshed(row) \in Tokens
<1>1. row \in Tokens
  BY DEF TypeOK
<1>2. now \in Nat /\ secrets \in Nat /\ now + AccessTtl \in Nat
  BY ConstantsAssumption DEF TypeOK
<1>3. /\ row.user \in Users /\ row.app \in Apps /\ row.pair \in Nat
      /\ row.until \in Nat /\ row.used \in Nat /\ row.revoked \in BOOLEAN
  BY <1>1 DEF Tokens
<1>4. RevokedRow(row) \in Tokens
  BY <1>1 DEF Tokens, RevokedRow
<1>5. [row EXCEPT !.used = now] \in Tokens
  BY <1>1, <1>2 DEF Tokens
<1>6. Refreshed(row) \in Tokens
  <2>1. secrets + 1 \in Nat
    BY <1>2
  <2> QED BY <1>1, <1>2, <2>1 DEF Tokens, Refreshed
<1> QED BY <1>1, <1>3, <1>4, <1>5, <1>6

LEMMA CodeTypes ==
    ASSUME TypeOK, NEW c \in codes
    PROVE c \in Codes /\ c.secret \in Nat /\ c.user \in Users /\ c.app \in Apps /\ c.expires \in Nat
BY DEF TypeOK, Codes

LEMMA RevokeTyped ==
    ASSUME TypeOK, NEW rows \in SUBSET tokens, Revoke(rows)
    PROVE tokens' \subseteq Tokens
<1> SUFFICES ASSUME NEW row \in tokens' PROVE row \in Tokens
  OBVIOUS
<1>1. CASE row \in tokens \ rows
  BY <1>1 DEF TypeOK
<1>2. CASE \E old \in rows : row = RevokedRow(old)
  BY <1>2, RowTypes
<1> QED BY <1>1, <1>2 DEF Revoke

\* Every step keeps McpAuth's types.
LEMMA NextTyped == ASSUME TypeOK, [Next]_vars PROVE TypeOK'
<1>1. CASE UNCHANGED vars
  BY <1>1 DEF vars, TypeOK
<1>2. ASSUME NEW a \in Apps, Register(a) PROVE TypeOK'
  <2>1. registered' \in [Apps -> Nat \cup {None}]
    BY <1>2 DEF Register, TypeOK
  <2> QED BY <1>2, <2>1 DEF Register, TypeOK
<1>3. ASSUME NEW u \in Users, NEW a \in Apps, AskConsent(u, a) PROVE TypeOK'
  BY <1>3 DEF AskConsent, TypeOK
<1>4. ASSUME NEW u \in Users, NEW a \in Apps, Authorize(u, a) PROVE TypeOK'
  <2>1. secrets' \in Nat /\ now + CodeTtl \in Nat
    BY <1>4, ConstantsAssumption DEF Authorize, Make, TypeOK
  <2>2. [secret |-> secrets', user |-> u, app |-> a, expires |-> now + CodeTtl] \in Codes
    BY <2>1 DEF Codes
  <2>3. consent' \in [Users -> Apps \cup {None}]
    BY <1>4 DEF Authorize, TypeOK
  <2> QED BY <1>4, <2>1, <2>2, <2>3 DEF Authorize, TypeOK
<1>5. ASSUME NEW u \in Users, FormRefused(u) PROVE TypeOK'
  BY <1>5 DEF FormRefused, TypeOK
<1>6. ASSUME NEW u \in Users, GrantAdmin(u) \/ GiveAccess(u) PROVE TypeOK'
  BY <1>6 DEF GrantAdmin, GiveAccess, TypeOK
<1>7. ASSUME NEW u \in Users, RemoveAdmin(u) \/ TakeAccess(u) PROVE TypeOK'
  <2>1. EndedWith(u) \in SUBSET tokens
    BY DEF EndedWith
  <2>2. tokens' \subseteq Tokens
    BY <1>7, <2>1, RevokeTyped DEF RemoveAdmin, TakeAccess, TypeOK
  <2> QED BY <1>7, <2>2 DEF RemoveAdmin, TakeAccess, TypeOK
<1>8. ASSUME NEW a \in Apps, NEW c \in codes, Exchange(a, c) PROVE TypeOK'
  <2>1. secrets' \in Nat /\ now + AccessTtl \in Nat /\ c.secret \in Nat /\ c.user \in Users
    BY <1>8, CodeTypes, ConstantsAssumption DEF Exchange, Make, TypeOK
  <2>2. [user |-> c.user, app |-> a, pair |-> secrets', until |-> now + AccessTtl, used |-> now, revoked |-> FALSE] \in Tokens
    BY <2>1 DEF Tokens, TypeOK
  <2>3. tokens' \subseteq Tokens
    BY <1>8, <2>2, Zenon DEF Exchange, TypeOK
  <2>4. <<c.secret, secrets'>> \in Nat \X Nat
    BY <2>1
  <2>5. begot' \subseteq Nat \X Nat
    BY <1>8, <2>4, Zenon DEF Exchange, TypeOK
  <2> QED BY <1>8, <2>1, <2>3, <2>5 DEF Exchange, UseUp, TypeOK
<1>9. ASSUME NEW a \in Apps, NEW c \in codes, ExchangeRefused(a, c) PROVE TypeOK'
  BY <1>9 DEF ExchangeRefused, UseUp, TypeOK
<1>10. ASSUME NEW a \in Apps, NEW row \in tokens, Refresh(a, row) PROVE TypeOK'
  <2>1. secrets' = secrets + 1 /\ secrets' \in Nat
    BY <1>10 DEF Refresh, Make, TypeOK
  <2>2. Refreshed(row) \in Tokens /\ row.pair \in Nat
    BY <2>1, RowTypes
  <2> QED BY <1>10, <2>1, <2>2 DEF Refresh, TypeOK
<1>11. ASSUME NEW row \in tokens, Revoke({row}), UNCHANGED <<now, admins, given, registered, consent, codes, secrets, begot>>
       PROVE TypeOK'
  BY <1>11, RevokeTyped DEF TypeOK
<1>12. ASSUME NEW row \in tokens, Call(row) PROVE TypeOK'
  <2>1. [row EXCEPT !.used = now] \in Tokens
    BY RowTypes
  <2> QED BY <1>12, <2>1 DEF Call, TypeOK
<1>13. CASE Tick
  BY <1>13 DEF Tick, TypeOK
<1> QED
  BY <1>1, <1>2, <1>3, <1>4, <1>5, <1>6, <1>7, <1>8, <1>9, <1>10, <1>11, <1>12, <1>13 DEF Next, AppRevokes, UserRevokes

\* The tables only ever hold what their columns take.
THEOREM McpTyped == Spec => []TypeOK
<1>1. Init => TypeOK
  BY ConstantsAssumption DEF Init, TypeOK
<1>2. TypeOK /\ [Next]_vars => TypeOK'
  BY NextTyped
<1> QED BY <1>1, <1>2, PTL DEF Spec
-----------------------------------------------------------------------------
(* Exchanged once. *)

\* Revoking changes no secret.
LEMMA RevokeKeepsSecrets ==
    ASSUME TypeOK, SecretInv, NEW rows \in SUBSET tokens, Revoke(rows), UNCHANGED <<codes, secrets, begot>>
    PROVE SecretInv'
<1>1. \A row \in tokens' : \E old \in tokens : row.pair = old.pair /\ row = IF old \in rows THEN RevokedRow(old) ELSE old
  <2>1. \A row \in tokens : RevokedRow(row).pair = row.pair
    BY RowTypes DEF Tokens, RevokedRow
  <2> QED BY <2>1 DEF Revoke
<1>2. Numbered'
  BY <1>1 DEF SecretInv, Numbered
<1>3. Apart'
  <2>1. \A row, other \in tokens' : row.pair = other.pair => row = other
    <3> SUFFICES ASSUME NEW row \in tokens', NEW other \in tokens', row.pair = other.pair PROVE row = other
      OBVIOUS
    <3>1. PICK was \in tokens : row.pair = was.pair /\ row = IF was \in rows THEN RevokedRow(was) ELSE was
      BY <1>1
    <3>2. PICK wasOther \in tokens :
            other.pair = wasOther.pair /\ other = IF wasOther \in rows THEN RevokedRow(wasOther) ELSE wasOther
      BY <1>1
    <3>3. was = wasOther
      BY <3>1, <3>2 DEF SecretInv, Apart
    <3> QED BY <3>1, <3>2, <3>3
  <2>2. \A c \in codes', row \in tokens' : c.secret # row.pair
    BY <1>1 DEF SecretInv, Apart
  <2> QED BY <2>1, <2>2 DEF SecretInv, Apart
<1>4. Spent'
  BY <1>1 DEF SecretInv, Spent
<1> QED BY <1>2, <1>3, <1>4 DEF SecretInv, ExchangedOnce

\* Nor does a call, or anything that makes no code and no token.
LEMMA FewerKeepSecrets ==
    ASSUME SecretInv, codes' \subseteq codes, tokens' \subseteq tokens, UNCHANGED <<secrets, begot>>
    PROVE SecretInv'
BY DEF SecretInv, Numbered, Apart, Spent, ExchangedOnce

\* A pair is made for a code or a refresh token that goes, and is numbered anew.
LEMMA PairKeepsSecrets ==
    ASSUME TypeOK, SecretInv, NEW first, NEW row \in Tokens, row.pair = secrets + 1, secrets' = secrets + 1,
           codes' \subseteq codes, tokens' \subseteq tokens \cup {row}, begot' = begot \cup {<<first, secrets + 1>>},
           \/ \E c \in codes : c.secret = first /\ c \notin codes'
           \/ \E old \in tokens : old.pair = first /\ old \notin tokens' \ {row}
    PROVE SecretInv'
<1>1. first \in Nat /\ first <= secrets /\ secrets \in Nat
  BY RowTypes, CodeTypes DEF TypeOK, SecretInv, Numbered
<1>2. /\ \A c \in codes : c.secret \in Nat
      /\ \A old \in tokens : old.pair \in Nat
      /\ \A p \in begot : p[1] \in Nat
  BY RowTypes, CodeTypes DEF TypeOK
<1>3. \A p \in begot' : p \in begot \/ p[1] = first
  OBVIOUS
<1>4. Numbered'
  BY <1>1, <1>2, <1>3 DEF SecretInv, Numbered
<1>5. Apart'
  BY <1>1, <1>2 DEF SecretInv, Numbered, Apart
<1>6. /\ \A c \in codes' : c.secret # first
      /\ \A old \in tokens' : old.pair # first
  BY <1>1 DEF SecretInv, Numbered, Apart
<1>7. Spent'
  BY <1>1, <1>2, <1>3, <1>6 DEF SecretInv, Numbered, Spent
<1>8. \A p \in begot : p[1] # first
  BY DEF SecretInv, Spent
<1>9. ExchangedOnce'
  BY <1>8, <1>3 DEF SecretInv, ExchangedOnce
<1> QED BY <1>4, <1>5, <1>7, <1>9 DEF SecretInv

LEMMA CodeKeepsSecrets ==
    ASSUME TypeOK, SecretInv, NEW c \in Codes, c.secret = secrets + 1, secrets' = secrets + 1,
           codes' = codes \cup {c}, UNCHANGED <<tokens, begot>>
    PROVE SecretInv'
<1>1. secrets \in Nat
  BY DEF TypeOK
<1>2. /\ \A d \in codes : d.secret \in Nat
      /\ \A row \in tokens : row.pair \in Nat
      /\ \A p \in begot : p[1] \in Nat
  BY CodeTypes DEF TypeOK, Tokens
<1>3. Numbered'
  BY <1>1, <1>2 DEF SecretInv, Numbered
<1>4. Apart'
  BY <1>1, <1>2 DEF SecretInv, Numbered, Apart
<1>5. Spent'
  BY <1>1, <1>2 DEF SecretInv, Numbered, Spent
<1> QED BY <1>3, <1>4, <1>5 DEF SecretInv, ExchangedOnce

LEMMA NextKeepsSecrets == ASSUME TypeOK, SecretInv, [Next]_vars PROVE SecretInv'
<1>1. CASE UNCHANGED vars
  BY <1>1, FewerKeepSecrets DEF vars
<1>2. ASSUME NEW a \in Apps, Register(a) PROVE SecretInv'
  BY <1>2, FewerKeepSecrets DEF Register
<1>3. ASSUME NEW u \in Users, NEW a \in Apps, AskConsent(u, a) PROVE SecretInv'
  BY <1>3, FewerKeepSecrets DEF AskConsent
<1>4. ASSUME NEW u \in Users, NEW a \in Apps, Authorize(u, a) PROVE SecretInv'
  <2> DEFINE code == [secret |-> secrets', user |-> u, app |-> a, expires |-> now + CodeTtl]
  <2>1. secrets' = secrets + 1 /\ secrets' \in Nat /\ now + CodeTtl \in Nat
    BY <1>4, ConstantsAssumption DEF Authorize, Make, TypeOK
  <2>2. code \in Codes /\ code.secret = secrets + 1
    BY <2>1 DEF Codes
  <2>3. codes' = codes \cup {code} /\ UNCHANGED <<tokens, begot>>
    BY <1>4 DEF Authorize
  <2> HIDE DEF code
  <2> QED BY <2>1, <2>2, <2>3, CodeKeepsSecrets
<1>5. ASSUME NEW u \in Users, FormRefused(u) \/ GrantAdmin(u) \/ GiveAccess(u) PROVE SecretInv'
  BY <1>5, FewerKeepSecrets DEF FormRefused, GrantAdmin, GiveAccess
<1>6. ASSUME NEW u \in Users, RemoveAdmin(u) \/ TakeAccess(u) PROVE SecretInv'
  <2>1. EndedWith(u) \in SUBSET tokens
    BY DEF EndedWith
  <2>2. CASE Revoke(EndedWith(u))
    BY <1>6, <2>1, <2>2, RevokeKeepsSecrets DEF RemoveAdmin, TakeAccess
  <2>3. CASE UNCHANGED tokens
    BY <1>6, <2>3, FewerKeepSecrets DEF RemoveAdmin, TakeAccess
  <2> QED BY <1>6, <2>2, <2>3 DEF RemoveAdmin, TakeAccess
<1>7. ASSUME NEW a \in Apps, NEW c \in codes, Exchange(a, c) PROVE SecretInv'
  <2> DEFINE row == [user |-> c.user, app |-> a, pair |-> secrets', until |-> now + AccessTtl, used |-> now, revoked |-> FALSE]
  <2>1. secrets' = secrets + 1 /\ secrets' \in Nat /\ now + AccessTtl \in Nat /\ c.user \in Users
    BY <1>7, CodeTypes, ConstantsAssumption DEF Exchange, Make, TypeOK
  <2>2. row \in Tokens /\ row.pair = secrets + 1
    BY <2>1 DEF Tokens, TypeOK
  <2>3. /\ codes' \subseteq codes /\ c \notin codes'
        /\ tokens' \subseteq tokens \cup {row}
        /\ begot' = begot \cup {<<c.secret, secrets + 1>>}
    BY <1>7, <2>1 DEF Exchange, UseUp
  <2> HIDE DEF row
  <2> QED BY <2>1, <2>2, <2>3, PairKeepsSecrets
<1>8. ASSUME NEW a \in Apps, NEW c \in codes, ExchangeRefused(a, c) PROVE SecretInv'
  BY <1>8, FewerKeepSecrets DEF ExchangeRefused, UseUp
<1>9. ASSUME NEW a \in Apps, NEW old \in tokens, Refresh(a, old) PROVE SecretInv'
  <2> DEFINE row == Refreshed(old)
  <2>1. secrets' = secrets + 1
    BY <1>9 DEF Refresh, Make
  <2>2. row \in Tokens /\ row.pair = secrets + 1
    BY RowTypes DEF Tokens, Refreshed
  <2>3. /\ codes' \subseteq codes
        /\ tokens' \subseteq tokens \cup {row} /\ old \notin tokens' \ {row}
        /\ begot' = begot \cup {<<old.pair, secrets + 1>>}
    BY <1>9, <2>1 DEF Refresh
  <2> HIDE DEF row
  <2> QED BY <2>1, <2>2, <2>3, PairKeepsSecrets
<1>10. ASSUME NEW row \in tokens, Revoke({row}), UNCHANGED <<codes, secrets, begot>> PROVE SecretInv'
  BY <1>10, RevokeKeepsSecrets
<1>11. ASSUME NEW row \in tokens, Call(row) PROVE SecretInv'
  <2> DEFINE new == [row EXCEPT !.used = now]
  <2>1. new.pair = row.pair
    BY RowTypes DEF Tokens
  <2>2. tokens' = (tokens \ {row}) \cup {new} /\ UNCHANGED <<codes, secrets, begot>>
    BY <1>11 DEF Call
  <2> HIDE DEF new
  <2>3. Numbered' /\ Spent'
    BY <2>1, <2>2 DEF SecretInv, Numbered, Spent
  <2>4. Apart'
    BY <2>1, <2>2 DEF SecretInv, Apart
  <2> QED BY <2>2, <2>3, <2>4 DEF SecretInv, ExchangedOnce
<1>12. CASE Tick
  BY <1>12, FewerKeepSecrets DEF Tick
<1> QED
  BY <1>1, <1>2, <1>3, <1>4, <1>5, <1>6, <1>7, <1>8, <1>9, <1>10, <1>11, <1>12 DEF Next, AppRevokes, UserRevokes

\* A code or a refresh token is exchanged for one pair of tokens, whoever presents it, however often: a repeated or raced
\* refresh can't both win.
THEOREM SecretsExchangedOnce == Spec => []ExchangedOnce
<1>1. Init => SecretInv
  BY DEF Init, SecretInv, Numbered, Apart, Spent, ExchangedOnce
<1>2. TypeOK /\ SecretInv /\ [Next]_vars => SecretInv'
  BY NextKeepsSecrets
<1>3. SecretInv => ExchangedOnce
  BY DEF SecretInv
<1>4. Spec => []TypeOK
  BY McpTyped
<1> QED BY <1>1, <1>2, <1>3, <1>4, PTL DEF Spec
-----------------------------------------------------------------------------
(* Connections in hand. *)

\* A row that was revoked keeps its user, app and times.
LEMMA RevokeKeepsHand ==
    ASSUME TypeOK, Timed, AppsKept, NEW rows \in SUBSET tokens, Revoke(rows), UNCHANGED <<now, registered, codes>>,
           \A row \in tokens \ rows : ~HasAccess(row.user)' => row.revoked
    PROVE HandInv'
<1>1. \A row \in tokens :
        LET new == RevokedRow(row)
        IN  new.user = row.user /\ new.app = row.app /\ new.until = row.until /\ new.used = row.used /\ new.revoked = TRUE
  BY RowTypes DEF Tokens, RevokedRow
<1>2. \A row \in tokens' : \/ row \in tokens \ rows
                          \/ \E old \in rows : row = RevokedRow(old)
  BY DEF Revoke
<1>3. Timed'
  BY <1>1, <1>2 DEF Timed
<1>4. AppsKept'
  BY <1>1, <1>2 DEF AppsKept
<1>5. EndedWithAccess'
  BY <1>1, <1>2 DEF EndedWithAccess
<1> QED BY <1>3, <1>4, <1>5 DEF HandInv

\* One connection takes another row of its own user and app, in use from now on.
LEMMA OneRowKeepsHand ==
    ASSUME TypeOK, HandInv, NEW row \in Tokens, HasAccess(row.user), registered[row.app] # None,
           row.used = now, row.until <= now + AccessTtl,
           codes' \subseteq codes, tokens' \subseteq tokens \cup {row}, UNCHANGED <<now, admins, given, registered>>
    PROVE HandInv'
<1>1. now \in Nat
  BY DEF TypeOK
<1>2. Timed'
  BY <1>1 DEF HandInv, Timed
<1>3. AppsKept'
  BY DEF HandInv, AppsKept
<1>4. EndedWithAccess'
  BY DEF HandInv, EndedWithAccess, HasAccess
<1> QED BY <1>2, <1>3, <1>4 DEF HandInv

\* Nobody loses access, no app its registration while it has rows.
LEMMA FewerKeepHand ==
    ASSUME TypeOK, HandInv, now' \in Nat, now <= now', admins \subseteq admins', given \subseteq given',
           codes' \subseteq codes, tokens' \subseteq tokens,
           \A a \in Apps : registered'[a] = None => \A held \in codes' \cup tokens' : registered[held.app] = None \/ held.app # a
    PROVE HandInv'
<1>1. Timed'
  <2> SUFFICES ASSUME NEW row \in tokens PROVE row.used <= now' /\ row.until <= row.used + AccessTtl
    BY DEF Timed
  <2>1. row.used \in Nat /\ now \in Nat
    BY RowTypes DEF TypeOK
  <2>2. row.used <= now /\ row.until <= row.used + AccessTtl
    BY DEF HandInv, Timed
  <2> QED BY <2>1, <2>2
<1>2. AppsKept'
  BY RowTypes, CodeTypes DEF HandInv, AppsKept
<1>3. EndedWithAccess'
  BY DEF HandInv, EndedWithAccess, HasAccess
<1> QED BY <1>1, <1>2, <1>3 DEF HandInv

LEMMA NextKeepsHand == ASSUME TypeOK, HandInv, [Next]_vars PROVE HandInv'
<1> USE DEF HandInv
<1>0. now \in Nat /\ now <= now
  BY DEF TypeOK
<1>1. CASE UNCHANGED <<now, admins, given, registered, codes, tokens>>
  BY <1>1, <1>0, FewerKeepHand, RowTypes, CodeTypes DEF AppsKept
<1>2. ASSUME NEW a \in Apps, Register(a) PROVE HandInv'
  <2>1. \A b \in Apps : registered'[b] = None => b # a /\ (registered[b] = None \/ Unused(b, codes', tokens'))
    BY <1>2, <1>0, ConstantsAssumption DEF Register, TypeOK
  <2>2. \A b \in Apps : registered'[b] = None => \A held \in codes' \cup tokens' : registered[held.app] = None \/ held.app # b
    BY <2>1 DEF Unused
  <2> QED BY <1>0, <1>2, <2>2, FewerKeepHand DEF Register
<1>3. ASSUME NEW u \in Users, FormRefused(u) \/ \E a \in Apps : AskConsent(u, a) PROVE HandInv'
  BY <1>1, <1>3 DEF AskConsent, FormRefused
<1>4. ASSUME NEW u \in Users, NEW a \in Apps, Authorize(u, a) PROVE HandInv'
  <2> DEFINE code == [secret |-> secrets', user |-> u, app |-> a, expires |-> now + CodeTtl]
  <2>1. code.app = a /\ registered[a] # None
    BY <1>4 DEF Authorize
  <2>2. codes' = codes \cup {code} /\ UNCHANGED <<now, admins, given, registered, tokens>>
    BY <1>4 DEF Authorize
  <2> HIDE DEF code
  <2> QED BY <2>1, <2>2 DEF Timed, AppsKept, EndedWithAccess, HasAccess
<1>5. ASSUME NEW u \in Users, GrantAdmin(u) \/ GiveAccess(u) PROVE HandInv'
  BY <1>0, <1>5, FewerKeepHand, RowTypes, CodeTypes DEF GrantAdmin, GiveAccess, AppsKept
<1>6. ASSUME NEW u \in Users, RemoveAdmin(u) PROVE HandInv'
  <2>1. EndedWith(u) \in SUBSET tokens /\ Revoke(EndedWith(u)) /\ UNCHANGED <<now, registered, codes>>
    BY <1>6 DEF EndedWith, RemoveAdmin
  <2>2. \A row \in tokens \ EndedWith(u) : ~HasAccess(row.user)' => row.revoked
    BY <1>6 DEF RemoveAdmin, EndedWith, EndedWithAccess, HasAccess
  <2> QED BY <2>1, <2>2, RevokeKeepsHand
<1>7. ASSUME NEW u \in Users, TakeAccess(u) PROVE HandInv'
  <2>1. CASE u \in admins
    BY <1>7, <2>1 DEF TakeAccess, Timed, AppsKept, EndedWithAccess, HasAccess
  <2>2. CASE u \notin admins
    <3>1. EndedWith(u) \in SUBSET tokens /\ Revoke(EndedWith(u)) /\ UNCHANGED <<now, registered, codes>>
      BY <1>7, <2>2 DEF EndedWith, TakeAccess
    <3>2. \A row \in tokens \ EndedWith(u) : ~HasAccess(row.user)' => row.revoked
      BY <1>7 DEF TakeAccess, EndedWith, EndedWithAccess, HasAccess
    <3> QED BY <3>1, <3>2, RevokeKeepsHand
  <2> QED BY <2>1, <2>2
<1>8. ASSUME NEW a \in Apps, NEW c \in codes, Exchange(a, c) PROVE HandInv'
  <2> DEFINE row == [user |-> c.user, app |-> a, pair |-> secrets', until |-> now + AccessTtl, used |-> now, revoked |-> FALSE]
  <2>1. secrets' \in Nat /\ now + AccessTtl \in Nat /\ c.user \in Users
    BY <1>8, CodeTypes, ConstantsAssumption DEF Exchange, Make, TypeOK
  <2>2. row \in Tokens
    BY <2>1 DEF Tokens, TypeOK
  <2>3. row.user = c.user /\ row.app = a /\ row.used = now /\ row.until = now + AccessTtl
    OBVIOUS
  <2>4. /\ codes' \subseteq codes /\ tokens' \subseteq tokens \cup {row}
        /\ HasAccess(c.user) /\ registered[a] # None
        /\ UNCHANGED <<now, admins, given, registered>>
    BY <1>8 DEF Exchange, UseUp
  <2> HIDE DEF row
  <2> QED BY <2>1, <2>2, <2>3, <2>4, OneRowKeepsHand
<1>9. ASSUME NEW a \in Apps, NEW c \in codes, ExchangeRefused(a, c) PROVE HandInv'
  BY <1>0, <1>9, FewerKeepHand, RowTypes, CodeTypes DEF ExchangeRefused, UseUp, AppsKept
<1>10. ASSUME NEW a \in Apps, NEW old \in tokens, Refresh(a, old) PROVE HandInv'
  <2> DEFINE row == Refreshed(old)
  <2>1. row \in Tokens /\ row.user = old.user /\ row.app = old.app /\ row.used = now /\ row.until = now + AccessTtl
    BY RowTypes DEF Tokens, Refreshed
  <2>2. /\ codes' \subseteq codes /\ tokens' \subseteq tokens \cup {row}
        /\ HasAccess(old.user) /\ registered[old.app] # None
        /\ UNCHANGED <<now, admins, given, registered>>
    BY <1>10 DEF Refresh, Renews
  <2> HIDE DEF row
  <2>3. now + AccessTtl <= now + AccessTtl
    BY ConstantsAssumption DEF TypeOK
  <2> QED BY <2>1, <2>2, <2>3, OneRowKeepsHand
<1>11. ASSUME NEW row \in tokens, Revoke({row}), UNCHANGED <<now, admins, given, registered, codes>> PROVE HandInv'
  <2>1. \A other \in tokens \ {row} : ~HasAccess(other.user)' => other.revoked
    BY <1>11 DEF EndedWithAccess, HasAccess
  <2> QED BY <1>11, <2>1, RevokeKeepsHand
<1>12. ASSUME NEW old \in tokens, Call(old) PROVE HandInv'
  <2> DEFINE row == [old EXCEPT !.used = now]
  <2>1. row \in Tokens /\ row.user = old.user /\ row.app = old.app /\ row.used = now /\ row.until = old.until
    BY RowTypes DEF Tokens
  <2>2. /\ codes' \subseteq codes /\ tokens' \subseteq tokens \cup {row}
        /\ HasAccess(old.user) /\ UNCHANGED <<now, admins, given, registered>>
    BY <1>12 DEF Call, Opens
  <2>3. old.until <= now + AccessTtl
    <3>1. old.used \in Nat /\ old.until \in Nat /\ AccessTtl \in Nat
      BY RowTypes, ConstantsAssumption
    <3>2. old.used <= now /\ old.until <= old.used + AccessTtl
      BY DEF Timed
    <3> QED BY <1>0, <3>1, <3>2
  <2>4. registered[old.app] # None
    BY DEF AppsKept
  <2> HIDE DEF row
  <2> QED BY <2>1, <2>2, <2>3, <2>4, OneRowKeepsHand
<1>13. CASE Tick
  BY <1>0, <1>13, FewerKeepHand, RowTypes, CodeTypes DEF Tick, AppsKept
<1> QED
  BY <1>1, <1>2, <1>3, <1>4, <1>5, <1>6, <1>7, <1>8, <1>9, <1>10, <1>11, <1>12, <1>13 DEF Next, vars, AppRevokes, UserRevokes

\* Whatever opens the MCP server or renews itself belongs to a connection its user's list shows, and whoever has lost
\* access holds nothing that would work again once they have it back.
THEOREM HandsOnConnections == Spec => []ConnectionsInHand
<1>1. Init => HandInv
  BY DEF Init, HandInv, Timed, AppsKept, EndedWithAccess
<1>2. TypeOK /\ HandInv /\ [Next]_vars => HandInv'
  BY NextKeepsHand
<1>3. TypeOK /\ HandInv => ConnectionsInHand
  <2> SUFFICES ASSUME TypeOK, HandInv, NEW row \in tokens
               PROVE /\ ~HasAccess(row.user) => row.revoked
                     /\ Opens(row) \/ Renews(row) => row \in Listed
    BY DEF ConnectionsInHand
  <2>1. ~HasAccess(row.user) => row.revoked
    BY DEF HandInv, EndedWithAccess
  <2>2. Opens(row) => Live(row)
    <3>1. row.used \in Nat /\ row.until \in Nat /\ now \in Nat /\ AccessTtl \in Nat /\ Idle \in Nat /\ AccessTtl <= Idle
      BY RowTypes, ConstantsAssumption DEF TypeOK
    <3>2. row.until <= row.used + AccessTtl
      BY DEF HandInv, Timed
    <3>3. row.until > now => row.used + Idle >= now
      BY <3>1, <3>2
    <3> QED BY <3>3 DEF Opens, Live
  <2>3. registered[row.app] # None
    BY DEF HandInv, AppsKept
  <2> QED BY <2>1, <2>2, <2>3 DEF Renews, Listed
<1>4. Spec => []TypeOK
  BY McpTyped
<1> QED BY <1>1, <1>2, <1>3, <1>4, PTL DEF Spec
=============================================================================
