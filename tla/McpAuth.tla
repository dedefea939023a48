------------------------------ MODULE McpAuth -------------------------------
(***************************************************************************)
(* Who may use the MCP server, and for how long: the OAuth provider's      *)
(* codes and tokens (oauthProvider), the connections a user and an Owner   *)
(* see and revoke (connections), and the access they hang on (userService).*)
(*                                                                         *)
(* Every handler's reads and writes are one step of the server's one       *)
(* thread. An app may present any secret it was ever sent, again and in    *)
(* any order; one that no row has any more is refused and changes nothing, *)
(* so an answer that is lost, repeated or raced needs no actions of its    *)
(* own. Redirects, the code challenge, the one scope and the one resource  *)
(* are left out: a request that fails them is refused where the code       *)
(* refuses it.                                                             *)
(***************************************************************************)
EXTENDS Naturals

CONSTANTS
    Users,
    Owners,         \* ADMIN_DISCORD_IDS
    Apps,           \* the ids apps are registered with
    None,
    CodeTtl, AccessTtl, Idle, UnusedTtl, \* CODE_TTL_MS, ACCESS_TOKEN_TTL_MS, CONNECTION_IDLE_MS, UNUSED_CLIENT_TTL_MS
    MaxTime,        \* bound
    MaxSecrets      \* bound: how many codes and pairs of tokens are made

\* ADMIN_DISCORD_IDS are users, and an access token ends before its connection goes idle.
ASSUME ConstantsAssumption ==
    /\ None \notin Nat
    /\ Owners \subseteq Users
    /\ {CodeTtl, AccessTtl, Idle, UnusedTtl} \subseteq Nat
    /\ AccessTtl <= Idle

VARIABLES
    now,
    admins,         \* users.isAdmin
    given,          \* users.mcpAccess
    registered,     \* oauthClients: when each app was, None for no such row
    consent,        \* the app of the consent page whose token each user's session holds
    codes,          \* oauthCodes
    tokens,         \* oauthTokens: a connection each
    secrets,        \* how many codes and pairs were made: the latest one's number
    begot           \* history: what each code or refresh token was exchanged for, <<its number, the new pair's>>

vars == <<now, admins, given, registered, consent, codes, tokens, secrets, begot>>

Codes == [secret : Nat, user : Users, app : Apps, expires : Nat]
Tokens == [user : Users, app : Apps, pair : Nat, until : Nat, used : Nat, revoked : BOOLEAN]

TypeOK ==
    /\ now \in Nat
    /\ admins \subseteq Users
    /\ given \subseteq Users
    /\ registered \in [Apps -> Nat \cup {None}]
    /\ consent \in [Users -> Apps \cup {None}]
    /\ codes \subseteq Codes
    /\ tokens \subseteq Tokens
    /\ secrets \in Nat
    /\ begot \subseteq Nat \X Nat

Init ==
    /\ now = 0
    /\ admins = Owners
    /\ given = {}
    /\ registered = [a \in Apps |-> None]
    /\ consent = [u \in Users |-> None]
    /\ codes = {}
    /\ tokens = {}
    /\ secrets = 0
    /\ begot = {}

-----------------------------------------------------------------------------
(* What the code asks of the tables. *)

\* mcpScope: what it covers is left out.
HasAccess(u) == u \in admins \cup given

\* selectConnections, and hasLiveConnection without its apps.
Live(row) == ~row.revoked /\ row.used + Idle >= now

\* The rows an owner's list shows: joined with their app's registration.
Listed == {row \in tokens : Live(row) /\ registered[row.app] # None}

\* The access tokens verifyAccessToken takes, and the refresh tokens exchangeRefreshToken does.
Opens(row) == ~row.revoked /\ row.until > now /\ HasAccess(row.user)
Renews(row) == Live(row) /\ HasAccess(row.user)

\* A code, or an access and a refresh token made together.
Make == secrets < MaxSecrets /\ secrets' = secrets + 1

-----------------------------------------------------------------------------
(* Apps. *)

Unused(a, keptCodes, keptTokens) ==
    /\ registered[a] # None /\ registered[a] + UnusedTtl < now
    /\ \A c \in keptCodes : c.app # a
    /\ \A row \in keptTokens : row.app # a

\* registerClient, which prunes first.
Register(a) ==
    /\ registered[a] = None
    /\ codes' = {c \in codes : c.expires >= now}
    /\ tokens' = {row \in tokens : row.used + Idle >= now}
    /\ registered' = [b \in Apps |-> IF b = a THEN now ELSE IF Unused(b, codes', tokens') THEN None ELSE registered[b]]
    /\ UNCHANGED <<now, admins, given, consent, secrets, begot>>

-----------------------------------------------------------------------------
(* authorize. *)

HasConnection(u, a) == \E row \in tokens : row.user = u /\ row.app = a /\ Live(row)

\* The consent page: only the newest one's form counts, and once.
AskConsent(u, a) ==
    /\ registered[a] # None
    /\ HasAccess(u)
    /\ ~HasConnection(u, a)
    /\ consent' = [consent EXCEPT ![u] = a]
    /\ UNCHANGED <<now, admins, given, registered, codes, tokens, secrets, begot>>

\* A form that is declined, or isn't the newest page's.
FormRefused(u) ==
    /\ HasAccess(u)
    /\ consent[u] # None
    /\ consent' = [consent EXCEPT ![u] = None]
    /\ UNCHANGED <<now, admins, given, registered, codes, tokens, secrets, begot>>

\* The app gets its code: at once while the user has a live connection with it, otherwise for the form.
Authorize(u, a) ==
    /\ registered[a] # None
    /\ HasAccess(u)
    /\ HasConnection(u, a) \/ consent[u] = a
    /\ consent' = IF consent[u] = a THEN [consent EXCEPT ![u] = None] ELSE consent
    /\ Make
    /\ codes' = codes \cup {[secret |-> secrets', user |-> u, app |-> a, expires |-> now + CodeTtl]}
    /\ UNCHANGED <<now, admins, given, registered, tokens, begot>>

-----------------------------------------------------------------------------
(* The token endpoint. *)

\* Mutation: a code is good until it expires.
KeepCode(c) == codes

UseUp(c) == codes \ {c}

\* exchangeAuthorizationCode: the code is used up, whatever happens next.
Exchange(a, c) ==
    /\ c.app = a /\ c.expires > now
    /\ registered[a] # None
    /\ HasAccess(c.user)
    /\ Make
    /\ codes' = UseUp(c)
    /\ tokens' = tokens \cup {[user |-> c.user, app |-> a, pair |-> secrets',
                               until |-> now + AccessTtl, used |-> now, revoked |-> FALSE]}
    /\ begot' = begot \cup {<<c.secret, secrets'>>}
    /\ UNCHANGED <<now, admins, given, registered, consent>>

\* One whose user has no access by then, or with the wrong redirect or resource.
ExchangeRefused(a, c) ==
    /\ c.app = a /\ c.expires > now
    /\ registered[a] # None
    /\ codes' = UseUp(c)
    /\ UNCHANGED <<now, admins, given, registered, consent, tokens, secrets, begot>>

Refreshed(row) == [row EXCEPT !.pair = secrets + 1, !.until = now + AccessTtl, !.used = now]

\* exchangeRefreshToken: the pair is replaced.
Refresh(a, row) ==
    /\ row.app = a
    /\ registered[a] # None
    /\ Renews(row)
    /\ Make
    /\ tokens' = (tokens \ {row}) \cup {Refreshed(row)}
    /\ begot' = begot \cup {<<row.pair, secrets'>>}
    /\ UNCHANGED <<now, admins, given, registered, consent, codes>>

\* verifyAccessToken: a call of the MCP server.
Call(row) ==
    /\ Opens(row)
    /\ tokens' = (tokens \ {row}) \cup {[row EXCEPT !.used = now]}
    /\ UNCHANGED <<now, admins, given, registered, consent, codes, secrets, begot>>

-----------------------------------------------------------------------------
(* The end of a connection. *)

RevokedRow(row) == [row EXCEPT !.revoked = TRUE]

Revoke(rows) == tokens' = (tokens \ rows) \cup {RevokedRow(row) : row \in rows}

\* revokeToken: the app itself, by either token.
AppRevokes(a, row) ==
    /\ row.app = a
    /\ registered[a] # None
    /\ Revoke({row})
    /\ UNCHANGED <<now, admins, given, registered, consent, codes, secrets, begot>>

\* revokeConnection: its user, or an Owner.
UserRevokes(u, row) ==
    /\ row \in Listed
    /\ u = row.user \/ u \in Owners
    /\ Revoke({row})
    /\ UNCHANGED <<now, admins, given, registered, consent, codes, secrets, begot>>

\* Mutation: the app's connections in use end, the ones in hand don't.
EndedWithOpen(u) == {row \in tokens : row.user = u /\ row.until > now}

\* revokeAllForUser: the listed ones, and the lapsed ones too.
EndedWith(u) == {row \in tokens : row.user = u}

\* setUserAdmin. Nobody takes it from an Owner, who has it back at the next login in any case.
GrantAdmin(u) ==
    /\ u \notin admins
    /\ admins' = admins \cup {u}
    /\ UNCHANGED <<now, given, registered, consent, codes, tokens, secrets, begot>>

\* Every connection ends with it, MCP access or not.
RemoveAdmin(u) ==
    /\ u \in admins \ Owners
    /\ admins' = admins \ {u}
    /\ Revoke(EndedWith(u))
    /\ UNCHANGED <<now, given, registered, consent, codes, secrets, begot>>

\* setUserMcpAccess. An Admin's connections stay.
GiveAccess(u) ==
    /\ u \notin given
    /\ given' = given \cup {u}
    /\ UNCHANGED <<now, admins, registered, consent, codes, tokens, secrets, begot>>

TakeAccess(u) ==
    /\ u \in given
    /\ given' = given \ {u}
    /\ IF u \in admins THEN UNCHANGED tokens ELSE Revoke(EndedWith(u))
    /\ UNCHANGED <<now, admins, registered, consent, codes, secrets, begot>>

Tick ==
    /\ now < MaxTime
    /\ now' = now + 1
    /\ UNCHANGED <<admins, given, registered, consent, codes, tokens, secrets, begot>>

Next ==
    \/ \E a \in Apps : Register(a)
    \/ \E u \in Users, a \in Apps : AskConsent(u, a) \/ Authorize(u, a)
    \/ \E u \in Users : FormRefused(u) \/ GrantAdmin(u) \/ RemoveAdmin(u) \/ GiveAccess(u) \/ TakeAccess(u)
    \/ \E a \in Apps, c \in codes : Exchange(a, c) \/ ExchangeRefused(a, c)
    \/ \E a \in Apps, row \in tokens : Refresh(a, row) \/ AppRevokes(a, row)
    \/ \E row \in tokens : Call(row) \/ \E u \in Users : UserRevokes(u, row)
    \/ Tick

Spec == Init /\ [][Next]_vars

-----------------------------------------------------------------------------
(* Safety. *)

\* "a code works once" and "two refreshes racing with one token can't both win": no code or refresh token, however often
\* it is presented, has been exchanged for two pairs.
ExchangedOnce == \A p, q \in begot : p[1] = q[1] => p = q

\* "Losing the role ends every Claude connection with it": whoever has no access holds nothing that would work again once
\* they are given it back, lapsed connections included. And whatever does work can be seen and ended: a token that would
\* open the MCP server, or renew itself, belongs to a connection its user's list shows.
ConnectionsInHand ==
    \A row \in tokens :
        /\ ~HasAccess(row.user) => row.revoked
        /\ Opens(row) \/ Renews(row) => row \in Listed
=============================================================================
