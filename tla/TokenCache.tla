----------------------------- MODULE TokenCache -----------------------------
(***************************************************************************)
(* The credentials of the GitHub client.  Each call needs an installation  *)
(* token, kept in a cache until it is about to expire, and a new token is  *)
(* asked for with a signed JWT.  Times are in minutes relative to GitHub's *)
(* clock; the controller's clock is `offset' ahead of it, or behind if     *)
(* offset is negative, and it is corrected now and then.                   *)
(***************************************************************************)
EXTENDS Integers

CONSTANTS
  Installations,
  Margin,        \* a cached token must live this much longer: 5
  IssuedBefore,  \* the JWT is dated back by this much: 1
  JWTLife,       \* the JWT expires after this time: 9
  Call,          \* the HTTP client's timeout, rounded up: 1
  TokenLife,     \* life of the tokens GitHub gives
  MaxJWTLife,    \* GitHub refuses a JWT that expires later than this: 10
  Ahead, Behind, \* how far the controller's clock may be off
  NoInstallation

(* What the numbers in the code must satisfy.                               *)
ASSUME ClockAssumption ==
  /\ Margin \in Nat /\ IssuedBefore \in Nat /\ JWTLife \in Nat /\ Call \in Nat
  /\ TokenLife \in Nat /\ MaxJWTLife \in Nat /\ Ahead \in Nat /\ Behind \in Nat
  /\ Behind + Call < Margin
  /\ Ahead <= IssuedBefore /\ Ahead + JWTLife <= MaxJWTLife
  /\ Behind + Call < JWTLife
  /\ 2 * Call < TokenLife
  /\ NoInstallation \notin Installations

VARIABLES
  offset,  \* the controller's clock minus GitHub's
  tokens,  \* tokens[i]: how long the cached token of i lives, 0 if it does not
  pc,      \* "idle", "token" and "answer" of the token request, "call"
  cur,     \* the installation of the call
  jwt,     \* iat and exp of the JWT in the token request
  using,   \* how long the token that is being fetched or used lives
  age      \* time since the HTTP request began

vars == <<offset, tokens, pc, cur, jwt, using, age>>

NoJWT == [iat |-> 0, exp |-> 0]
Offsets == (-Behind)..Ahead

Init ==
  /\ offset \in Offsets
  /\ tokens = [i \in Installations |-> 0]
  /\ pc = "idle" /\ cur = NoInstallation /\ jwt = NoJWT /\ using = 0 /\ age = 0

Idle == pc' = "idle" /\ cur' = NoInstallation /\ jwt' = NoJWT /\ using' = 0 /\ age' = 0

(* Mutant: the JWT is dated with the time it is made.                       *)
signNow == [iat |-> offset, exp |-> offset + JWTLife]

sign == [iat |-> offset - IssuedBefore, exp |-> offset + JWTLife]

(* Mutant: a token is used until it expires.                                *)
CachedToTheEnd(i) == tokens[i] > offset

Cached(i) == tokens[i] > offset + Margin

(* A call of the client begins with installationAccessToken.                *)
installationAccessToken(i) ==
  /\ pc = "idle" /\ cur' = i
  /\ \/ Cached(i) /\ pc' = "call" /\ using' = tokens[i] /\ jwt' = NoJWT
     \/ ~Cached(i) /\ pc' = "token" /\ jwt' = sign /\ using' = 0
  /\ UNCHANGED <<offset, tokens, age>>

(* GitHub receives the token request and answers.                           *)
grant ==
  /\ pc = "token" /\ pc' = "answer" /\ jwt' = NoJWT /\ using' = TokenLife
  /\ UNCHANGED <<offset, tokens, cur, age>>

(* The answer is stored; the call itself is sent with a timeout of its own. *)
store ==
  /\ pc = "answer" /\ tokens' = [tokens EXCEPT ![cur] = using]
  /\ pc' = "call" /\ age' = 0
  /\ UNCHANGED <<offset, cur, jwt, using>>

(* doJSON fails, or the answer is incomplete: nothing is stored.            *)
fail ==
  /\ pc \in {"token", "answer", "call"} /\ Idle
  /\ UNCHANGED <<offset, tokens>>

(* GitHub receives the call.                                                *)
doJSON ==
  /\ pc = "call" /\ Idle
  /\ UNCHANGED <<offset, tokens>>

Shorter(t) == IF t > 0 THEN t - 1 ELSE 0

(* Time passes; no request is older than its timeout.                       *)
Tick ==
  /\ pc = "idle" \/ age < Call
  /\ age' = IF pc = "idle" THEN age ELSE age + 1
  /\ tokens' = [i \in Installations |-> Shorter(tokens[i])]
  /\ using' = Shorter(using)
  /\ jwt' = IF pc = "token" THEN [iat |-> jwt.iat - 1, exp |-> jwt.exp - 1] ELSE jwt
  /\ UNCHANGED <<offset, pc, cur>>

(* The controller's clock is corrected, or drifts.                          *)
drift ==
  /\ offset' \in Offsets /\ offset' # offset
  /\ UNCHANGED <<tokens, pc, cur, jwt, using, age>>

Next ==
  \/ \E i \in Installations : installationAccessToken(i)
  \/ grant \/ store \/ fail \/ doJSON \/ Tick \/ drift

Spec == Init /\ [][Next]_vars

(***************************************************************************)
(* Properties                                                              *)
(***************************************************************************)
(* As long as a call may reach GitHub, its token is valid, though it was    *)
(* chosen by a clock that is off and may have been corrected since.         *)
TokenOutlivesCall == pc = "call" => using > 0

(* As long as a token request may reach GitHub, its JWT has been issued in  *)
(* the past, has not expired and does not expire too late: the minute that  *)
(* jwt dates it back and the nine it gives it are both needed.              *)
JWTAccepted ==
  pc = "token" => jwt.iat <= 0 /\ 0 < jwt.exp /\ jwt.exp <= MaxJWTLife

=============================================================================
