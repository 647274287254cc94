-------------------------- MODULE TokenCacheProofs --------------------------
(* Calls to GitHub carry valid credentials, for all values of the constants *)
(* that satisfy ClockAssumption.                                            *)
EXTENDS TokenCache, TLAPS

TypeInv ==
  /\ offset \in Int /\ -Behind <= offset /\ offset <= Ahead
  /\ tokens \in [Installations -> Nat]
  /\ pc \in {"idle", "token", "answer", "call"}
  /\ cur \in Installations \cup {NoInstallation}
  /\ pc # "idle" => cur \in Installations
  /\ jwt \in [iat : Int, exp : Int]
  /\ using \in Nat /\ age \in Nat /\ age <= Call
  /\ pc = "idle" => age = 0

(* The token lives at least as long as the request that needs it: an answer *)
(* is read and a call is made within Call each.                             *)
TokenInv ==
  /\ pc = "answer" => using > 2 * Call - age
  /\ pc = "call"   => using > Call - age

(* The JWT was made `age' ago by a clock at most Ahead fast and Behind slow. *)
JWTInv ==
  pc = "token" =>
    /\ jwt.iat <= -age
    /\ jwt.exp > Call - age
    /\ jwt.exp <= MaxJWTLife - age

IInv == TypeInv /\ TokenInv /\ JWTInv

(* Every request the client makes arrives with a token, or a JWT, that      *)
(* GitHub accepts, whatever the clock does within its bounds.               *)
THEOREM CredentialsValid == Spec => [](TokenOutlivesCall /\ JWTAccepted)
<1> USE ClockAssumption
<1>1. Init => IInv
  BY DEF Init, IInv, TypeInv, TokenInv, JWTInv, NoJWT, Offsets
<1>2. IInv /\ [Next]_vars => IInv'
  <2> SUFFICES ASSUME IInv, [Next]_vars PROVE IInv'
    OBVIOUS
  <2> USE DEF IInv
  <2>1. ASSUME NEW i \in Installations, installationAccessToken(i) PROVE IInv'
    <3>1. age = 0
      BY <2>1 DEF installationAccessToken, TypeInv
    <3>2. TypeInv'
      BY <2>1, <3>1 DEF installationAccessToken, TypeInv, NoJWT, sign
    <3>3. TokenInv'
      BY <2>1, <3>1 DEF installationAccessToken, TypeInv, TokenInv, Cached
    <3>4. JWTInv'
      BY <2>1, <3>1 DEF installationAccessToken, TypeInv, JWTInv, sign
    <3> QED BY <3>2, <3>3, <3>4
  <2>2. CASE grant
    BY <2>2 DEF grant, TypeInv, TokenInv, JWTInv, NoJWT
  <2>3. CASE store
    BY <2>3 DEF store, TypeInv, TokenInv, JWTInv
  <2>4. CASE fail \/ doJSON
    BY <2>4 DEF fail, doJSON, Idle, TypeInv, TokenInv, JWTInv, NoJWT
  <2>5. CASE Tick
    <3>1. TypeInv'
      BY <2>5 DEF Tick, Shorter, TypeInv
    <3>2. TokenInv'
      BY <2>5 DEF Tick, Shorter, TypeInv, TokenInv
    <3>3. JWTInv'
      BY <2>5 DEF Tick, TypeInv, JWTInv
    <3> QED BY <3>1, <3>2, <3>3
  <2>6. CASE drift
    BY <2>6 DEF drift, Offsets, TypeInv, TokenInv, JWTInv
  <2>7. CASE UNCHANGED vars
    BY <2>7 DEF vars, TypeInv, TokenInv, JWTInv
  <2> QED
    BY <2>1, <2>2, <2>3, <2>4, <2>5, <2>6, <2>7 DEF Next
<1>3. IInv => TokenOutlivesCall /\ JWTAccepted
  BY DEF IInv, TypeInv, TokenInv, JWTInv, TokenOutlivesCall, JWTAccepted
<1> QED
  BY <1>1, <1>2, <1>3, PTL DEF Spec

(* The JWT of a token request is accepted as long as it may arrive.         *)
COROLLARY TokenRequestsValid == Spec => []JWTAccepted
  BY CredentialsValid, PTL

=============================================================================
