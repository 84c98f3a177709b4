---------------------------- MODULE AccessTokens ----------------------------
(***************************************************************************)
(* The access tokens of auth_service: who signs one, what it claims, and   *)
(* which request it opens.  Time is in half seconds, so that a call can    *)
(* fall between the whole seconds in which a token's claims are written.   *)
(* A PEM is the kind, size and id of its key; a signature is checked by    *)
(* the id.                                                                 *)
(***************************************************************************)
EXTENDS Integers

CONSTANT None

Reserved == {"sub", "iat", "exp", "iss", "aud", "jti", "type"}

Pem(kind, bits, id) == [kind |-> kind, bits |-> bits, id |-> id]

Ids == STRING
Config ==
  [private: [kind: STRING, bits: Nat, id: Ids],
   public: [kind: STRING, bits: Nat, id: Ids],
   minutes: Nat \ {0}, iss: STRING, aud: STRING]

\* The keys a service starts with: RSA, long enough, and a pair.
KeysLoad(private, public) ==
  /\ \A pem \in {private, public} : pem.kind = "RSA" /\ pem.bits >= 2048
  /\ private.id = public.id

\* PyJWT writes a time in the whole second it falls in.
Second(t) == t \div 2

Lifetime(service) == 2 * 60 * service.minutes

\* None is the ValueError of extra claims that are reserved.
CreateAccessToken(service, user, extra, now) ==
  LET own == [sub |-> user, iat |-> Second(now),
              exp |-> Second(now + Lifetime(service)),
              iss |-> service.iss, aud |-> service.aud,
              jti |-> "uuid", type |-> "access"] IN
  IF DOMAIN extra \cap Reserved # {} THEN None
  ELSE [key |-> service.private.id,
        claims |-> [claim \in Reserved \cup DOMAIN extra |->
                      IF claim \in Reserved THEN own[claim]
                      ELSE extra[claim]]]

\* jwt.decode and the checks after it; an "nbf" nobody requires counts, too.
Accepts(service, token, now) ==
  LET claims == token.claims IN
  /\ token.key = service.public.id
  /\ Reserved \subseteq DOMAIN claims
  /\ claims.iss = service.iss /\ claims.aud = service.aud
  /\ 2 * claims.iat <= now
  /\ "nbf" \in DOMAIN claims => 2 * claims.nbf <= now
  /\ now < 2 * claims.exp
  /\ claims.type = "access"
  /\ claims.sub # "no uuid" /\ claims.jti # "no uuid"

\* None is the InvalidTokenError; active says which users are.
UserFromAccessToken(service, token, active, now) ==
  IF /\ Accepts(service, token, now)
     /\ token.claims.sub \in DOMAIN active /\ active[token.claims.sub]
    THEN token.claims.sub
    ELSE None

\* current_user, which None leaves with a 401.
CurrentUser(service, scheme, token, active, now) ==
  IF scheme \notin {"bearer", "Bearer"} THEN None
  ELSE UserFromAccessToken(service, token, active, now)

(***************************************************************************)
(* The reference: a token that a service could make opens the services of  *)
(* its key, issuer and audience, its own among them, as the user it was    *)
(* made for, while that user is active.  It does so for the time its       *)
(* response names, less the fraction of a second the token was made in,    *)
(* and no longer; no extra claim but nbf changes that.                     *)
(***************************************************************************)

SameScope(maker, checker) ==
  /\ maker.private.id = checker.public.id
  /\ maker.iss = checker.iss /\ maker.aud = checker.aud

TokensOpen(maker, checker, user, extra, active, made, now) ==
  LET token == CreateAccessToken(maker, user, extra, made)
      found == CurrentUser(checker, "Bearer", token, active, now)
      allowed == /\ SameScope(maker, checker) /\ active[user]
                 /\ "nbf" \in DOMAIN extra => 2 * extra.nbf <= now IN
  /\ KeysLoad(maker.private, maker.public)
  /\ KeysLoad(checker.private, checker.public)
  /\ token # None
  => /\ SameScope(maker, maker) /\ found \in {user, None}
     /\ found = user => allowed /\ now < made + Lifetime(maker)
     /\ allowed /\ now \in made..(made + Lifetime(maker) - 2) => found = user
     /\ CurrentUser(checker, "Basic", token, active, now) = None
=============================================================================
