---------------------------- MODULE SessionTokens ----------------------------
(***************************************************************************)
(* The session tokens the gateway mints (keys.js) and six workers verify,  *)
(* each with a copy of its own, said to mirror the gateway's own exactly.  *)
(* A token is its dot-separated parts; a part is the claims, which are a   *)
(* record, or a signature of a part under a secret.  Times are seconds for *)
(* the workers' clocks and milliseconds, Milli of them, in the claims.     *)
(***************************************************************************)
EXTENDS Naturals, Sequences, SequencesExt

CONSTANTS Secret,    \* MODAL_SESSION_SECRET
          Ttl,       \* SESSION_TOKEN_TTL_MS
          Milli      \* milliseconds of a second (1000)

ASSUME TokenAssumption == Ttl \in Nat /\ Milli \in Nat \ {0} /\ Secret # "another"

NoUser == ""
Hmac(secret, part) == [secret |-> secret, of |-> part]

CreateSessionToken(id, uid, now) ==
  LET exp == now + Ttl
      claims == IF uid = NoUser THEN [id |-> id, exp |-> exp]
                ELSE [id |-> id, exp |-> exp, uid |-> uid]
  IN  <<claims, Hmac(Secret, claims)>>

Signed(token) == token[2] = Hmac(Secret, token[1])
UserOf(claims) == IF "uid" \in DOMAIN claims THEN claims.uid ELSE NoUser

\* the gateway's own check looks at the first two parts only; no claims: {}
VerifySessionClaims(token, now) ==
  IF /\ Len(token) >= 2 /\ Signed(token)
     /\ {"id", "exp"} \subseteq DOMAIN token[1] /\ now <= token[1].exp
  THEN {[id |-> token[1].id, uid |-> UserOf(token[1])]} ELSE {}

\* a plausible bug: time.time() is compared as it is
Expired_InSeconds(claims, seconds) == seconds > claims.exp
Expired(claims, seconds) == seconds * Milli > claims.exp

\* a copy in a worker: it demands exactly two parts; some hand on the user as well
Verified(token, seconds, withUser) ==
  IF /\ Len(token) = 2 /\ Signed(token)
     /\ {"id", "exp"} \subseteq DOMAIN token[1] /\ ~ Expired(token[1], seconds)
  THEN {[id |-> token[1].id, uid |-> IF withUser THEN UserOf(token[1]) ELSE NoUser]} ELSE {}

PiperFlyClaims(t, s) == Verified(t, s, TRUE)
DemucsClaims(t, s)   == Verified(t, s, TRUE)
ReadAloudId(t, s)    == Verified(t, s, FALSE)
SttProdId(t, s)      == Verified(t, s, FALSE)
SttId(t, s)          == Verified(t, s, FALSE)
RealtimeId(t, s)     == Verified(t, s, FALSE)

Verdicts(t, s) ==
  [gateway |-> VerifySessionClaims(t, s * Milli), piper_fly |-> PiperFlyClaims(t, s),
   demucs |-> DemucsClaims(t, s), readaloud |-> ReadAloudId(t, s), stt_prod |-> SttProdId(t, s),
   stt |-> SttId(t, s), realtime |-> RealtimeId(t, s)]

-----------------------------------------------------------------------------
\* What may arrive for the token t of one caller while the token u of another is
\* about: t, t cut off, with more parts, or with the other's signature or claims, or
\* signed with the secret of another deployment.
Arriving(t, u) == {t, <<>>, <<t[1]>>, t \o u, <<t[1], u[2]>>, <<u[1], t[2]>>, <<t[2], t[1]>>,
                   <<t[1], Hmac("another", t[1])>>}

\* Every copy takes what the gateway minted until it expires, to the millisecond,
\* for the same key and, where the user is handed on, the same user.  A worker takes
\* nothing else; the gateway also takes what merely begins with such a token.
SameClaims(tokens, arrived, seconds, v) ==
  LET Live(t) == t \in tokens /\ seconds * Milli <= t[1].exp
      begins  == Len(arrived) >= 2 /\ Live(<<arrived[1], arrived[2]>>)
  IN  /\ \A w \in DOMAIN v \ {"gateway"} : v[w] # {} <=> Live(arrived)
      /\ v.gateway # {} <=> begins
      /\ \A w \in DOMAIN v : \A c \in v[w] :
           c \in {[id |-> arrived[1].id, uid |-> u] : u \in {NoUser, UserOf(arrived[1])}}
      /\ v.piper_fly = v.demucs /\ (Live(arrived) => v.piper_fly = v.gateway)

\* What the copies say of themselves: they take the tokens the gateway takes.
Mirrored(v) == \A w \in DOMAIN v : v[w] # {} <=> v.gateway # {}
=============================================================================
