---------------------------- MODULE PlexSignIn ----------------------------
(***************************************************************************)
(* The row that names the Plex server (api/plex.go, store/plex.go): it is  *)
(* saved from the settings page, and the plex.tv PIN flow writes the       *)
(* client identifier and the token into it.  Every request reads the whole *)
(* row, talks to plex.tv and writes the whole row back.                    *)
(***************************************************************************)
EXTENDS Integers

CONSTANTS
    Browser,        \* callers of the API, each with one request in flight
    Typed,          \* tokens an operator may type in
    Pin,            \* the PINs plex.tv may hand out; each brings its own token
    Identifier,     \* the client identifiers Codarr may generate
    Unset           \* no token, no identifier, no request

ASSUME SignInAssumption ==
    /\ Unset \notin Typed /\ Unset \notin Pin /\ Unset \notin Identifier
    /\ Typed \cap Pin = {}

VARIABLES
    account,        \* the row's token and client identifier
    pins,           \* at plex.tv: for every PIN, who asked for it and who claimed it
    requests,       \* for every caller, the request in flight and the row it read
    generated,      \* the identifiers generated so far
    signIn          \* the last completed sign-in, until a token is asked for again

signInVars == <<account, pins, requests, generated, signIn>>

Token == Typed \union Pin
Account == [token : Token \union {Unset}, ident : Identifier \union {Unset}]
Request == [op : {"save", "start", "pin", "poll", "store"}, row : Account,
            pin : Pin \union {Unset}, typed : Typed \union {Unset}]
NoSignIn == [how |-> "none", token |-> Unset]

SignInTypeOK ==
    /\ account \in Account
    /\ pins \in [Pin -> [ident : Identifier \union {Unset}, claimed : BOOLEAN]]
    /\ requests \in [Browser -> Request \union {Unset}]
    /\ generated \in SUBSET Identifier
    /\ signIn \in [how : {"none", "clean", "raced"}, token : Token \union {Unset}]

Pending(b) == requests[b] # Unset
SignInAnswer(b) == requests' = [requests EXCEPT ![b] = Unset]

\* A pending request that may write the row, and what it would write as the token.
Writer(b) == Pending(b) /\ requests[b].op \in {"save", "start", "store"}
WouldWrite(b) ==
    IF requests[b].typed # Unset THEN requests[b].typed
    ELSE IF requests[b].op = "store" THEN requests[b].pin ELSE requests[b].row.token

-----------------------------------------------------------------------------

SignInInit ==
    /\ account = [token |-> Unset, ident |-> Unset]
    /\ pins = [p \in Pin |-> [ident |-> Unset, claimed |-> FALSE]]
    /\ requests = [b \in Browser |-> Unset]
    /\ generated = {}
    /\ signIn = NoSignIn

Read(b, op, pin, typed) ==
    /\ ~Pending(b)
    /\ requests' = [requests EXCEPT ![b] =
                      [op |-> op, row |-> account, pin |-> pin, typed |-> typed]]

\* The mask that stands for a token is stored as it came.
KeepMask(stored, submitted) == IF submitted = Unset THEN "masked" ELSE submitted
\* A blank token clears the row's.
KeepOrClear(stored, submitted) == submitted
\* A blank or masked token is the one the row had; the mask is never stored.
KeepOrReplace(stored, submitted) == IF submitted = Unset THEN stored ELSE submitted

(* UpdatePlex.  typed is Unset when the form's token is blank or the mask. *)
UpdatePlex(b, typed) ==
    /\ Read(b, "save", Unset, typed)
    /\ signIn' = IF typed = Unset THEN signIn ELSE NoSignIn
    /\ UNCHANGED <<account, pins, generated>>

SaveAccount(b) ==
    /\ Pending(b) /\ requests[b].op = "save"
    /\ account' = [requests[b].row EXCEPT
                     !.token = KeepOrReplace(@, requests[b].typed)]
    /\ SignInAnswer(b)
    /\ UNCHANGED <<pins, generated, signIn>>

(* StartPlexAuth: an identifier is generated and stored unless the row read *)
(* has one, and a PIN is created for it.                                    *)
StartPlexAuth(b) ==
    /\ Read(b, IF account.ident = Unset THEN "start" ELSE "pin", Unset, Unset)
    /\ UNCHANGED <<account, pins, generated, signIn>>

StoreIdentifier(b) ==
    /\ Pending(b) /\ requests[b].op = "start"
    /\ \E id \in Identifier \ generated :
          LET row == [requests[b].row EXCEPT !.ident = id]
          IN /\ generated' = generated \union {id}
             /\ account' = row
             /\ requests' = [requests EXCEPT ![b].op = "pin", ![b].row = row]
    /\ UNCHANGED <<pins, signIn>>

CreatePin(b) ==
    /\ Pending(b) /\ requests[b].op = "pin"
    /\ \E p \in Pin :
          /\ pins[p].ident = Unset
          /\ pins' = [pins EXCEPT ![p].ident = requests[b].row.ident]
    /\ SignInAnswer(b)
    /\ UNCHANGED <<account, generated, signIn>>

\* (plex.tv) the operator claims a PIN in the browser.
ClaimPin(p) ==
    /\ pins[p].ident # Unset /\ ~pins[p].claimed
    /\ pins' = [pins EXCEPT ![p].claimed = TRUE]
    /\ UNCHANGED <<account, requests, generated, signIn>>

(* PollPlexAuth: plex.tv knows a PIN under the identifier that asked for it; *)
(* the token of a claimed one is written into the row as it was before the   *)
(* call to plex.tv.                                                          *)
PollPlexAuth(b, p) ==
    /\ pins[p].ident # Unset /\ account.ident # Unset
    /\ Read(b, "poll", p, Unset)
    /\ UNCHANGED <<account, pins, generated, signIn>>

CheckPin(b) ==
    /\ Pending(b) /\ requests[b].op = "poll"
    /\ LET p == requests[b].pin
       IN IF pins[p].claimed /\ pins[p].ident = requests[b].row.ident
          THEN /\ requests' = [requests EXCEPT ![b].op = "store"]
               /\ signIn' = NoSignIn
          ELSE SignInAnswer(b) /\ UNCHANGED signIn
    /\ UNCHANGED <<account, pins, generated>>

StoreToken(b) ==
    /\ Pending(b) /\ requests[b].op = "store"
    /\ account' = [requests[b].row EXCEPT !.token = requests[b].pin]
    /\ SignInAnswer(b)
    /\ signIn' = [how |-> IF \E other \in Browser \ {b} :
                                Writer(other) /\ WouldWrite(other) # requests[b].pin
                          THEN "raced" ELSE "clean",
                  token |-> requests[b].pin]
    /\ UNCHANGED <<pins, generated>>

\* A read, a write or a call to plex.tv fails, the client hangs up or Codarr
\* stops: the request is forgotten.
Abandon(b) ==
    /\ Pending(b)
    /\ SignInAnswer(b)
    /\ UNCHANGED <<account, pins, generated, signIn>>

SignInNext ==
    \/ \E b \in Browser :
          \/ \E typed \in Typed \union {Unset} : UpdatePlex(b, typed)
          \/ SaveAccount(b)
          \/ StartPlexAuth(b) \/ StoreIdentifier(b) \/ CreatePin(b)
          \/ \E p \in Pin : PollPlexAuth(b, p)
          \/ CheckPin(b) \/ StoreToken(b) \/ Abandon(b)
    \/ \E p \in Pin : ClaimPin(p)

SignInSpec == SignInInit /\ [][SignInNext]_signInVars

-----------------------------------------------------------------------------

(* The token a sign-in stored stays the server's token through every later   *)
(* save of the settings page, poll and new sign-in, until somebody submits   *)
(* another token or claims another PIN - unless, as it was stored, another   *)
(* request already held the row it had read before.                          *)
TokenKept == signIn.how = "clean" => account.token = signIn.token
=============================================================================
