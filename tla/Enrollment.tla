----------------------------- MODULE Enrollment -----------------------------
(***************************************************************************)
(* Join tokens (internal/identity/jointoken.go).  The authority keeps the  *)
(* tokens in one file under a lock, writes it through a temporary file and *)
(* a rename, and so has every issue and every attestation as one step.     *)
(* Each node has one token, bound to it, reusable or not.  Hashes and      *)
(* fabrics are left out, and of the measurements is kept whether those of  *)
(* the node are the ones its token expects.                                *)
(***************************************************************************)
EXTENDS Integers

CONSTANTS EnrolledNodes,  (* nodes that may get a token                     *)
          LongExpired     (* the longest a token is said to have expired    *)

ASSUME EnrollmentAssumption == LongExpired \in Nat \ {0}

VARIABLES token   (* joinTokenState: the token of each node                 *)

(* expired: 0 while the token is valid, k once it expired k - 1 ticks ago.  *)
Token == [issued : BOOLEAN, reusable : BOOLEAN, fits : BOOLEAN, used : BOOLEAN,
          expired : 0..LongExpired]

NoToken == [issued |-> FALSE, reusable |-> FALSE, fits |-> FALSE, used |-> FALSE,
            expired |-> 0]

EnrollmentTypeOK == token \in [EnrolledNodes -> Token]

EnrollmentInit == token = [n \in EnrolledNodes |-> NoToken]

(* IssueNodeToken: "agentfab node token create" for a node; a token under   *)
(* the same ID is replaced, another one is added.  "fits" says whether the  *)
(* measurements the token expects are those of the node.                    *)
IssueNodeToken(n, reusable, fits) ==
    /\ ~token[n].issued
    /\ token' = [token EXCEPT ![n] = [issued |-> TRUE, reusable |-> reusable, fits |-> fits,
                                      used |-> FALSE, expired |-> 0]]

(* Mutant: the reusable flag is not looked at.                              *)
AttestableOnce(n) ==
    /\ token[n].issued
    /\ token[n].expired = 0
    /\ ~token[n].used
    /\ token[n].fits

(* AttestNode: unknown, expired, already used, or measured otherwise.       *)
Attestable(n) ==
    /\ token[n].issued
    /\ token[n].expired = 0
    /\ token[n].reusable \/ ~token[n].used
    /\ token[n].fits

(* The use is counted, and saved, before the caller learns the result.      *)
AuthorityAttests(n, ok) ==
    /\ ok = Attestable(n)
    /\ token' = IF ok THEN [token EXCEPT ![n].used = TRUE] ELSE token

TokenExpires(n) ==
    /\ token[n].issued
    /\ token[n].expired = 0
    /\ token' = [token EXCEPT ![n].expired = 1]
=============================================================================
