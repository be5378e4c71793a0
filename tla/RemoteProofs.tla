---------------------------- MODULE RemoteProofs ----------------------------
(***************************************************************************)
(* Codarr and the services it talks to: the Plex server and the *arrs.     *)
(*                                                                         *)
(* The token a sign-in stored is kept, for any number of callers and PINs. *)
(* It is because of what the requests in flight read: as long as nobody    *)
(* asks for another token, every request that may still write the row      *)
(* would write the token the row has.                                      *)
(*                                                                         *)
(* The active-stream guard sees every reader, for any library, sessions    *)
(* and mappings: from the listing of the sessions on, each of those who    *)
(* have been reading the file all along is accounted for, by the file its  *)
(* session names, or by its item, yet to be looked up or looked up by now. *)
(*                                                                         *)
(* A promotion tells the instance that owns its file, for any instances,   *)
(* roots and flags: what the notification has read so far is still so, as  *)
(* long as the operator changes nothing, and names the one owner there is. *)
(*                                                                         *)
(* An event reaches the files it names, for any folders, names and         *)
(* mappings: a payload says, in each of its shapes, where the files are.   *)
(***************************************************************************)
EXTENDS PlexSignIn, PlexGuard, Notify, Webhooks, TLAPS

-----------------------------------------------------------------------------
(* The Plex sign-in. *)

\* A request for a PIN's token names the PIN, and only a save brings a typed one.
Shaped ==
    \A b \in Browser : Pending(b) =>
        /\ requests[b].op \in {"poll", "store"} => requests[b].pin \in Pin
        /\ requests[b].op # "save" => requests[b].typed = Unset

\* Whoever may still write the row writes the token.
Agreed(t) == \A b \in Browser : Writer(b) => WouldWrite(b) = t

Kept == signIn.how = "clean" => account.token = signIn.token /\ Agreed(signIn.token)

SignInInv == SignInTypeOK /\ Shaped /\ Kept

LEMMA SignInInitial == SignInInit => SignInInv
  BY DEF SignInInit, SignInInv, SignInTypeOK, Shaped, Kept, Account, Token, NoSignIn, Pending

LEMMA RequestIsRequest ==
    ASSUME SignInTypeOK, NEW b \in Browser, Pending(b)
    PROVE  requests[b] \in Request /\ requests[b].row \in Account
  BY DEF SignInTypeOK, Pending, Request

\* The request of one caller ends and the others' go on.
LEMMA AnswerKeeps ==
    ASSUME SignInInv, NEW b \in Browser, SignInAnswer(b)
    PROVE  /\ requests' \in [Browser -> Request \union {Unset}]
           /\ Shaped'
           /\ \A t : Agreed(t) => Agreed(t)'
  <1>1. requests \in [Browser -> Request \union {Unset}]
    BY DEF SignInInv, SignInTypeOK
  <1>2. requests' = [requests EXCEPT ![b] = Unset]
    BY DEF SignInAnswer
  <1>3. requests' \in [Browser -> Request \union {Unset}]
    BY <1>1, <1>2
  <1>4. Shaped'
    BY <1>1, <1>2 DEF SignInInv, Shaped, Pending
  <1>5. ASSUME NEW t, Agreed(t) PROVE Agreed(t)'
    BY <1>1, <1>2, <1>5 DEF Agreed, Writer, WouldWrite, Pending
  <1> QED
    BY <1>3, <1>4, <1>5

\* A request that reads the row.
LEMMA ReadKeeps ==
    ASSUME SignInInv, NEW b \in Browser,
           NEW op \in {"save", "start", "pin", "poll"}, NEW pin \in Pin \union {Unset},
           NEW typed \in Typed \union {Unset},
           op = "poll" => pin \in Pin, op # "save" => typed = Unset,
           Read(b, op, pin, typed)
    PROVE  /\ requests' \in [Browser -> Request \union {Unset}]
           /\ Shaped'
           /\ typed = Unset => \A t : account.token = t /\ Agreed(t) => Agreed(t)'
  <1>1. requests \in [Browser -> Request \union {Unset}] /\ account \in Account
    BY DEF SignInInv, SignInTypeOK
  <1> DEFINE new == [op |-> op, row |-> account, pin |-> pin, typed |-> typed]
  <1>2. requests' = [requests EXCEPT ![b] = new]
    BY DEF Read
  <1>3. /\ new \in Request /\ new.op = op /\ new.pin = pin /\ new.typed = typed
        /\ new.row.token = account.token
    BY <1>1 DEF Request
  <1> HIDE DEF new
  <1>4. requests' \in [Browser -> Request \union {Unset}]
    BY <1>1, <1>2, <1>3
  <1>5. Shaped'
    BY <1>1, <1>2, <1>3 DEF SignInInv, Shaped, Pending
  <1>6. ASSUME typed = Unset, NEW t, account.token = t, Agreed(t) PROVE Agreed(t)'
    BY <1>1, <1>2, <1>3, <1>6 DEF Agreed, Writer, WouldWrite, Pending
  <1> QED
    BY <1>4, <1>5, <1>6

-----------------------------------------------------------------------------
(* One lemma for every kind of request. *)

LEMMA SaveKeeps ==
    ASSUME SignInInv, NEW b \in Browser,
           (\E typed \in Typed \union {Unset} : UpdatePlex(b, typed)) \/ SaveAccount(b)
    PROVE  SignInInv'
  <1>1. ASSUME NEW typed \in Typed \union {Unset}, UpdatePlex(b, typed) PROVE SignInInv'
    <2>1. Read(b, "save", Unset, typed) /\ UNCHANGED <<account, pins, generated>>
      BY <1>1 DEF UpdatePlex
    <2>2. /\ requests' \in [Browser -> Request \union {Unset}]
          /\ Shaped'
          /\ typed = Unset => \A t : account.token = t /\ Agreed(t) => Agreed(t)'
      BY <2>1, ReadKeeps
    <2>3. SignInTypeOK'
      BY <1>1, <2>1, <2>2 DEF UpdatePlex, SignInInv, SignInTypeOK, NoSignIn
    <2>4. Kept'
      <3>1. CASE typed = Unset
        BY <1>1, <2>1, <2>2, <3>1 DEF UpdatePlex, SignInInv, Kept
      <3>2. CASE typed # Unset
        BY <1>1, <3>2 DEF UpdatePlex, Kept, NoSignIn
      <3> QED
        BY <3>1, <3>2
    <2> QED
      BY <2>2, <2>3, <2>4 DEF SignInInv
  <1>2. ASSUME SaveAccount(b) PROVE SignInInv'
    <2>1. /\ Pending(b) /\ requests[b].op = "save" /\ SignInAnswer(b)
          /\ UNCHANGED <<pins, generated, signIn>>
          /\ account' = [requests[b].row EXCEPT !.token = WouldWrite(b)]
      BY <1>2 DEF SaveAccount, KeepOrReplace, WouldWrite
    <2>2. requests[b] \in Request /\ requests[b].row \in Account
      BY <2>1, RequestIsRequest DEF SignInInv
    <2>3. WouldWrite(b) \in Token \union {Unset}
      BY <2>1, <2>2 DEF WouldWrite, Request, Account, Token
    <2>4. account' \in Account /\ account'.token = WouldWrite(b)
      BY <2>1, <2>2, <2>3 DEF Account
    <2>5. SignInTypeOK' /\ Shaped'
      BY <2>1, <2>4, AnswerKeeps DEF SignInInv, SignInTypeOK
    <2>6. Kept'
      BY <2>1, <2>4, AnswerKeeps DEF SignInInv, Kept, Agreed, Writer
    <2> QED
      BY <2>5, <2>6 DEF SignInInv
  <1> QED
    BY <1>1, <1>2

LEMMA SignInStarts ==
    ASSUME SignInInv, NEW b \in Browser, StartPlexAuth(b) \/ StoreIdentifier(b) \/ CreatePin(b)
    PROVE  SignInInv'
  <1>1. ASSUME StartPlexAuth(b) PROVE SignInInv'
    <2>1. UNCHANGED <<account, pins, generated, signIn>>
      BY <1>1 DEF StartPlexAuth
    <2>2. Read(b, "start", Unset, Unset) \/ Read(b, "pin", Unset, Unset)
      BY <1>1 DEF StartPlexAuth
    <2>3. /\ requests' \in [Browser -> Request \union {Unset}]
          /\ Shaped'
          /\ \A t : account.token = t /\ Agreed(t) => Agreed(t)'
      BY <2>2, ReadKeeps
    <2> QED
      BY <2>1, <2>3 DEF SignInInv, SignInTypeOK, Kept
  <1>2. ASSUME StoreIdentifier(b) PROVE SignInInv'
    <2>1. PICK id \in Identifier \ generated :
             /\ generated' = generated \union {id}
             /\ account' = [requests[b].row EXCEPT !.ident = id]
             /\ requests' = [requests EXCEPT ![b].op = "pin",
                                             ![b].row = [requests[b].row EXCEPT !.ident = id]]
      BY <1>2 DEF StoreIdentifier
    <2>2. Pending(b) /\ requests[b].op = "start" /\ UNCHANGED <<pins, signIn>>
      BY <1>2 DEF StoreIdentifier
    <2>3. requests[b] \in Request /\ requests[b].row \in Account /\ requests[b].typed = Unset
      BY <2>2, RequestIsRequest DEF SignInInv, Shaped
    <2>4. account' \in Account /\ account'.token = WouldWrite(b)
      BY <2>1, <2>2, <2>3 DEF Account, WouldWrite
    <2> DEFINE new == [requests[b] EXCEPT !.op = "pin",
                                          !.row = [requests[b].row EXCEPT !.ident = id]]
    <2>5. requests \in [Browser -> Request \union {Unset}]
      BY DEF SignInInv, SignInTypeOK
    <2>6. requests' = [requests EXCEPT ![b] = new]
      BY <2>1, <2>5
    <2>7. new \in Request /\ new.op = "pin" /\ new.typed = Unset
      BY <2>3, <2>1 DEF Request, Account
    <2> HIDE DEF new
    <2>8. requests' \in [Browser -> Request \union {Unset}]
      BY <2>5, <2>6, <2>7
    <2>9. Shaped'
      BY <2>5, <2>6, <2>7 DEF SignInInv, Shaped, Pending
    <2>10. ASSUME NEW t, Agreed(t) PROVE Agreed(t)'
      BY <2>5, <2>6, <2>7, <2>10 DEF Agreed, Writer, WouldWrite, Pending
    <2>11. SignInTypeOK'
      BY <2>1, <2>2, <2>4, <2>8 DEF SignInInv, SignInTypeOK
    <2>12. Kept'
      BY <2>2, <2>4, <2>10 DEF SignInInv, Kept, Agreed, Writer
    <2> QED
      BY <2>9, <2>11, <2>12 DEF SignInInv
  <1>3. ASSUME CreatePin(b) PROVE SignInInv'
    <2>1. Pending(b) /\ SignInAnswer(b) /\ UNCHANGED <<account, generated, signIn>>
      BY <1>3 DEF CreatePin
    <2>2. requests[b].row.ident \in Identifier \union {Unset}
      BY <2>1, RequestIsRequest DEF SignInInv, Account
    <2>3. pins' \in [Pin -> [ident : Identifier \union {Unset}, claimed : BOOLEAN]]
      BY <1>3, <2>2 DEF CreatePin, SignInInv, SignInTypeOK
    <2>4. /\ requests' \in [Browser -> Request \union {Unset}] /\ Shaped'
          /\ \A t : Agreed(t) => Agreed(t)'
      BY <2>1, AnswerKeeps
    <2> QED
      BY <2>1, <2>3, <2>4 DEF SignInInv, SignInTypeOK, Kept
  <1> QED
    BY <1>1, <1>2, <1>3

LEMMA PollKeeps ==
    ASSUME SignInInv, NEW b \in Browser,
           (\E p \in Pin : PollPlexAuth(b, p)) \/ CheckPin(b) \/ StoreToken(b)
    PROVE  SignInInv'
  <1>1. ASSUME NEW p \in Pin, PollPlexAuth(b, p) PROVE SignInInv'
    <2>1. Read(b, "poll", p, Unset) /\ UNCHANGED <<account, pins, generated, signIn>>
      BY <1>1 DEF PollPlexAuth
    <2>2. /\ requests' \in [Browser -> Request \union {Unset}]
          /\ Shaped'
          /\ \A t : account.token = t /\ Agreed(t) => Agreed(t)'
      BY <2>1, ReadKeeps
    <2> QED
      BY <2>1, <2>2 DEF SignInInv, SignInTypeOK, Kept
  <1>2. ASSUME CheckPin(b) PROVE SignInInv'
    <2>1. Pending(b) /\ requests[b].op = "poll" /\ UNCHANGED <<account, pins, generated>>
      BY <1>2 DEF CheckPin
    <2>2. CASE SignInAnswer(b) /\ UNCHANGED signIn
      <3>1. /\ requests' \in [Browser -> Request \union {Unset}] /\ Shaped'
            /\ \A t : Agreed(t) => Agreed(t)'
        BY <2>2, AnswerKeeps
      <3> QED
        BY <2>1, <2>2, <3>1 DEF SignInInv, SignInTypeOK, Kept
    <2>3. CASE requests' = [requests EXCEPT ![b].op = "store"] /\ signIn' = NoSignIn
      <3>1. requests[b] \in Request /\ requests[b].pin \in Pin /\ requests[b].typed = Unset
        BY <2>1, RequestIsRequest DEF SignInInv, Shaped
      <3> DEFINE new == [requests[b] EXCEPT !.op = "store"]
      <3>2. requests \in [Browser -> Request \union {Unset}]
        BY DEF SignInInv, SignInTypeOK
      <3>3. requests' = [requests EXCEPT ![b] = new]
        BY <2>3, <3>2
      <3>4. new \in Request /\ new.pin \in Pin /\ new.typed = Unset
        BY <3>1 DEF Request
      <3> HIDE DEF new
      <3>5. requests' \in [Browser -> Request \union {Unset}]
        BY <3>2, <3>3, <3>4
      <3>6. Shaped'
        BY <3>2, <3>3, <3>4 DEF SignInInv, Shaped, Pending
      <3> QED
        BY <2>1, <2>3, <3>5, <3>6 DEF SignInInv, SignInTypeOK, Kept, NoSignIn
    <2> QED
      BY <1>2, <2>2, <2>3 DEF CheckPin
  <1>3. ASSUME StoreToken(b) PROVE SignInInv'
    <2>1. PICK pin : pin = requests[b].pin
      OBVIOUS
    <2> DEFINE others == \E other \in Browser \ {b} : Writer(other) /\ WouldWrite(other) # pin
    <2>2. /\ Pending(b) /\ requests[b].op = "store" /\ SignInAnswer(b)
          /\ account' = [requests[b].row EXCEPT !.token = pin]
          /\ signIn' = [how |-> IF others THEN "raced" ELSE "clean", token |-> pin]
          /\ UNCHANGED <<pins, generated>>
      BY <1>3, <2>1 DEF StoreToken
    <2>3. pin \in Pin /\ requests[b].row \in Account
      BY <2>1, <2>2, RequestIsRequest DEF SignInInv, Shaped
    <2>4. account' \in Account /\ account'.token = pin
      BY <2>2, <2>3 DEF Account, Token
    <2>5. SignInTypeOK' /\ Shaped'
      BY <2>2, <2>3, <2>4, AnswerKeeps DEF SignInInv, SignInTypeOK, Token
    <2>6. ASSUME ~others, NEW other \in Browser, Writer(other)' PROVE WouldWrite(other)' = pin
      <3>1. requests' = [requests EXCEPT ![b] = Unset] /\ requests \in [Browser -> Request \union {Unset}]
        BY <2>2 DEF SignInAnswer, SignInInv, SignInTypeOK
      <3>2. other # b /\ requests'[other] = requests[other]
        BY <2>6, <3>1 DEF Writer, Pending
      <3> QED
        BY <2>6, <3>2 DEF Writer, WouldWrite, Pending
    <2>7. Kept'
      <3> SUFFICES ASSUME signIn'.how = "clean"
                   PROVE  account'.token = signIn'.token /\ Agreed(signIn.token)'
        BY DEF Kept
      <3>1. ~others /\ signIn'.token = pin
        BY <2>2
      <3> QED
        BY <2>4, <2>6, <3>1 DEF Agreed
    <2> QED
      BY <2>5, <2>7 DEF SignInInv
  <1> QED
    BY <1>1, <1>2, <1>3

LEMMA SignInStep == SignInInv /\ [SignInNext]_signInVars => SignInInv'
  <1> SUFFICES ASSUME SignInInv, [SignInNext]_signInVars PROVE SignInInv'
    OBVIOUS
  <1>1. CASE UNCHANGED signInVars
    BY <1>1
    DEF signInVars, SignInInv, SignInTypeOK, Shaped, Kept, Agreed, Writer, WouldWrite, Pending
  <1>2. ASSUME NEW b \in Browser, Abandon(b) PROVE SignInInv'
    <2>1. /\ requests' \in [Browser -> Request \union {Unset}] /\ Shaped'
          /\ \A t : Agreed(t) => Agreed(t)'
      BY <1>2, AnswerKeeps DEF Abandon
    <2> QED
      BY <1>2, <2>1 DEF Abandon, SignInInv, SignInTypeOK, Kept
  <1>3. ASSUME NEW p \in Pin, ClaimPin(p) PROVE SignInInv'
    BY <1>3
    DEF ClaimPin, SignInInv, SignInTypeOK, Shaped, Kept, Agreed, Writer, WouldWrite, Pending
  <1> QED
    BY <1>1, <1>2, <1>3, SaveKeeps, SignInStarts, PollKeeps DEF SignInNext

-----------------------------------------------------------------------------

\* A token a sign-in stored survives every later save, poll and new sign-in until
\* another is asked for, for any number of callers, unless as it was stored another
\* request already held a row with another token (api/plex.go).
THEOREM SignInKept == SignInSpec => []TokenKept
  <1>1. SignInInv => TokenKept
    BY DEF SignInInv, Kept, TokenKept
  <1> QED
    BY <1>1, SignInInitial, SignInStep, PTL DEF SignInSpec

-----------------------------------------------------------------------------
(* The active-stream guard. *)

\* A check under way has all the fields of one.
IsCheck(c) ==
    c = [pc |-> c.pc, path |-> c.path, watched |-> c.watched, streaming |-> c.streaming,
         why |-> c.why, mappings |-> c.mappings, silent |-> c.silent, files |-> c.files,
         stale |-> c.stale]
UnderWay == {"resolve", "sessions", "parts", "answered"}
CheckShaped == check = NoCheck \/ (IsCheck(check) /\ check.pc \in UnderWay)

\* Those who have been reading the file all along still read it.
WatchersRead ==
    check.pc \in UnderWay =>
       \A r \in check.watched : /\ r \in sessions /\ library[r.item] = r.file
                                /\ LocalName[r.file] = check.path

\* Once the sessions are listed, each of them is accounted for.
AccountedFor(r) ==
    \/ r.file \in check.files
    \/ r.silent /\ r.item \in check.silent \union check.stale
WatchersListed == check.pc = "parts" => \A r \in check.watched : AccountedFor(r)

GuardInv == CheckShaped /\ WatchersRead /\ WatchersListed /\ GuardSeesReaders

LEMMA GuardInitial == GuardInit => GuardInv
  BY DEF GuardInit, GuardInv, CheckShaped, WatchersRead, WatchersListed, GuardSeesReaders,
         NoCheck, UnderWay

\* What Plex, the operator and the clock do ends no reader's listing but his own.
LEMMA OutsideKeeps ==
    ASSUME GuardInv,
           StartPlaying \/ StopPlaying \/ MoveItem \/ Configure \/ ExpirePart
    PROVE  GuardInv'
  <1> USE DEF GuardInv
  <1>1. CASE UNCHANGED check /\ check.pc = "idle"
    <2>1. check = NoCheck
      BY <1>1 DEF CheckShaped, IsCheck, UnderWay
    <2> QED
      BY <1>1, <2>1 DEF CheckShaped, WatchersRead, WatchersListed, GuardSeesReaders, NoCheck,
         UnderWay
  <1>2. CASE UNCHANGED <<check, library>> /\ sessions \subseteq sessions'
    BY <1>2 DEF CheckShaped, IsCheck, WatchersRead, WatchersListed, AccountedFor,
       GuardSeesReaders, Misnamed
  <1>3. CASE check.pc # "idle" /\ StillWatched
    <2>1. IsCheck(check) /\ check.pc \in UnderWay
      BY <1>3 DEF CheckShaped, NoCheck
    <2> DEFINE still == {r \in check.watched : r \in sessions' /\ library'[r.item] = r.file}
    <2>2. check' = [check EXCEPT !.watched = still]
      BY <1>3 DEF StillWatched
    <2>3. still \subseteq check.watched
          /\ \A r \in still : r \in sessions' /\ library'[r.item] = r.file
      OBVIOUS
    <2> HIDE DEF still
    <2>4. /\ check' = [pc |-> check.pc, path |-> check.path, watched |-> still,
                       streaming |-> check.streaming, why |-> check.why,
                       mappings |-> check.mappings, silent |-> check.silent,
                       files |-> check.files, stale |-> check.stale]
      BY <2>1, <2>2 DEF IsCheck
    <2>5. CheckShaped'
      BY <2>1, <2>4 DEF CheckShaped, IsCheck
    <2>6. WatchersRead'
      BY <2>1, <2>3, <2>4 DEF WatchersRead
    <2>7. WatchersListed'
      BY <2>3, <2>4 DEF WatchersListed, AccountedFor
    <2>8. GuardSeesReaders'
      BY <2>3, <2>4 DEF GuardSeesReaders, Misnamed
    <2> QED
      BY <2>5, <2>6, <2>7, <2>8
  <1>4. check.pc = "idle" /\ StillWatched => UNCHANGED check
    BY DEF StillWatched
  <1> QED
    BY <1>1, <1>2, <1>3, <1>4 DEF StartPlaying, StopPlaying, MoveItem, Configure, ExpirePart

\* A check begins with those who read the file then.
LEMMA AskKeeps ==
    ASSUME GuardInv, NEW p \in LocalNames, AskGuard(p)
    PROVE  GuardInv'
  <1>1. /\ IsCheck(check)' /\ check'.pc \in {"resolve", "answered"}
        /\ check'.path = p /\ check'.watched = Readers(sessions, p)
        /\ check'.pc = "answered" => check'.why = "unguarded"
    BY DEF AskGuard, IsCheck
  <1>2. UNCHANGED <<library, sessions>>
    BY DEF AskGuard
  <1> QED
    BY <1>1, <1>2 DEF GuardInv, CheckShaped, UnderWay, WatchersRead, WatchersListed,
       GuardSeesReaders, Readers

\* What the guard finds out before the sessions are listed concerns no reader.
LEMMA ResolveKeeps ==
    ASSUME GuardInv, Resolve
    PROVE  GuardInv'
  <1>1. IsCheck(check)
    BY DEF Resolve, GuardInv, CheckShaped, NoCheck
  <1>2. /\ IsCheck(check)' /\ check'.pc \in {"sessions", "answered"}
        /\ check'.path = check.path /\ check'.watched = check.watched
        /\ check'.pc = "answered" => check'.why = "unconfigured"
    BY <1>1 DEF Resolve, GuardAnswers, IsCheck
  <1>3. UNCHANGED <<library, sessions>>
    BY DEF Resolve
  <1>4. check.pc = "resolve"
    BY DEF Resolve
  <1> QED
    BY <1>2, <1>3, <1>4 DEF GuardInv, CheckShaped, UnderWay, WatchersRead, WatchersListed,
       GuardSeesReaders

LEMMA ListKeeps ==
    ASSUME GuardInv, ListSessions
    PROVE  GuardInv'
  <1>1. IsCheck(check) /\ check.pc = "sessions"
    BY DEF ListSessions, GuardInv, CheckShaped, NoCheck
  <1> DEFINE silent == SilentItems(sessions)
             files == {r.file : r \in {x \in sessions : ~x.silent}}
  <1>2. \A r \in sessions : r.file \in files \/ (r.silent /\ r.item \in silent)
    BY DEF SilentItems
  <1>3. check' = [check EXCEPT !.pc = "parts", !.silent = silent, !.files = files]
    BY DEF ListSessions
  <1> HIDE DEF silent, files
  <1>4. /\ IsCheck(check)' /\ check'.pc = "parts" /\ check'.silent = silent
        /\ check'.files = files /\ check'.path = check.path /\ check'.watched = check.watched
    BY <1>1, <1>3 DEF IsCheck
  <1>5. UNCHANGED <<library, sessions>>
    BY DEF ListSessions
  <1> QED
    BY <1>1, <1>2, <1>4, <1>5 DEF GuardInv, CheckShaped, UnderWay, WatchersRead, WatchersListed,
       AccountedFor, GuardSeesReaders

\* A silent reader's item leads to the file he reads, or is stale.
LEMMA LookUpKeeps ==
    ASSUME GuardInv, LookUpItem
    PROVE  GuardInv'
  <1>1. IsCheck(check) /\ check.pc = "parts"
    BY DEF LookUpItem, GuardInv, CheckShaped, NoCheck
  <1>2. PICK i \in check.silent :
          LET cached == client.parts[i] # NoFile
              file == IF cached THEN client.parts[i] ELSE library[i]
          IN check' = [check EXCEPT !.silent = @ \ {i}, !.files = @ \union {file},
                         !.stale = IF file # library[i] THEN @ \union {i} ELSE @]
    BY DEF LookUpItem
  <1> DEFINE file == IF client.parts[i] # NoFile THEN client.parts[i] ELSE library[i]
             stale == IF file # library[i] THEN check.stale \union {i} ELSE check.stale
  <1>3. check' = [check EXCEPT !.silent = check.silent \ {i}, !.files = check.files \union {file},
                               !.stale = stale]
    BY <1>2
  <1>4. /\ check.stale \subseteq stale
        /\ file = library[i] \/ i \in stale
    OBVIOUS
  <1> HIDE DEF file, stale
  <1>5. /\ IsCheck(check)' /\ check'.pc = "parts" /\ check'.silent = check.silent \ {i}
        /\ check'.files = check.files \union {file} /\ check'.stale = stale
        /\ check'.path = check.path /\ check'.watched = check.watched
    BY <1>1, <1>3 DEF IsCheck
  <1>6. UNCHANGED <<library, sessions>>
    BY DEF LookUpItem
  <1>7. ASSUME NEW r \in check.watched
        PROVE  AccountedFor(r)'
    <2>1. AccountedFor(r) /\ library[r.item] = r.file
      BY <1>1, <1>7 DEF GuardInv, WatchersListed, WatchersRead, UnderWay
    <2> QED
      BY <1>4, <1>5, <2>1 DEF AccountedFor
  <1> QED
    BY <1>1, <1>5, <1>6, <1>7 DEF GuardInv, CheckShaped, UnderWay, WatchersRead,
       WatchersListed, GuardSeesReaders

LEMMA CompareKeeps ==
    ASSUME GuardInv, Compare
    PROVE  GuardInv'
  <1>1. IsCheck(check) /\ check.pc = "parts" /\ check.silent = {}
    BY DEF Compare, GuardInv, CheckShaped, NoCheck
  <1> DEFINE streaming ==
        \E f \in check.files : Normalise(ToLocal(check.mappings, f)) = check.path
  <1>2. check' = [check EXCEPT !.pc = "answered", !.streaming = streaming, !.why = "asked"]
    BY DEF Compare, GuardAnswers
  <1>3. ~streaming => \A f \in check.files : LocalName[f] = check.path => Misnamed(f)
    BY DEF Misnamed
  <1> HIDE DEF streaming
  <1>4. /\ IsCheck(check)' /\ check'.pc = "answered" /\ check'.streaming = streaming
        /\ check'.path = check.path /\ check'.watched = check.watched
        /\ check'.stale = check.stale /\ check'.mappings = check.mappings
    BY <1>1, <1>2 DEF IsCheck
  <1>5. UNCHANGED <<library, sessions>>
    BY DEF Compare
  <1>6. \A r \in check.watched : AccountedFor(r) /\ LocalName[r.file] = check.path
    BY <1>1 DEF GuardInv, WatchersListed, WatchersRead, UnderWay
  <1>7. GuardSeesReaders'
    BY <1>1, <1>3, <1>4, <1>6 DEF GuardSeesReaders, Misnamed, AccountedFor
  <1> QED
    BY <1>1, <1>4, <1>5, <1>7 DEF GuardInv, CheckShaped, UnderWay, WatchersRead,
       WatchersListed

LEMMA GuardStep == GuardInv /\ [GuardNext]_guardVars => GuardInv'
  <1> SUFFICES ASSUME GuardInv, [GuardNext]_guardVars PROVE GuardInv'
    OBVIOUS
  <1>1. CASE GuardFails \/ GuardReturns
    BY <1>1 DEF GuardFails, GuardReturns, GuardInv, CheckShaped, WatchersRead, WatchersListed,
       GuardSeesReaders, NoCheck, UnderWay
  <1>2. CASE UNCHANGED guardVars
    BY <1>2 DEF guardVars, GuardInv, CheckShaped, IsCheck, WatchersRead, WatchersListed,
       AccountedFor, GuardSeesReaders, Misnamed
  <1> QED
    BY <1>1, <1>2, OutsideKeeps, AskKeeps, ResolveKeeps, ListKeeps, LookUpKeeps, CompareKeeps
       DEF GuardNext

\* When the guard has asked Plex and says that nobody watches a file, nobody has
\* been watching it for the whole of the check, whatever was started, stopped, moved
\* or configured between the guard's calls, but for a wrong mapping and a stale part
\* cache (adapters.go IsStreaming, plex/sessions.go): for every set of items, files
\* and mappings.
THEOREM GuardHolds == GuardSpec => []GuardSeesReaders
  <1>1. GuardInv => GuardSeesReaders
    BY DEF GuardInv
  <1> QED
    BY <1>1, GuardInitial, GuardStep, PTL DEF GuardSpec

-----------------------------------------------------------------------------
(* Whose file it is. *)

\* Of two directories above a file the one with fewer names is above the other.
LEMMA PrefixesNest ==
    ASSUME NEW S, NEW f \in Seq(S), NEW p \in Seq(S), NEW q \in Seq(S),
           UnderPrefix(f, p), UnderPrefix(f, q), Len(q) <= Len(p)
    PROVE  UnderPrefix(p, q)
  <1>1. /\ Len(p) \in Nat /\ Len(q) \in Nat /\ Len(f) \in Nat
        /\ Len(p) <= Len(f) /\ Len(q) <= Len(f)
    BY DEF UnderPrefix
  <1>2. p = SubSeq(f, 1, Len(p)) /\ q = SubSeq(f, 1, Len(q))
    BY DEF UnderPrefix
  <1>3. \A i \in 1 .. Len(q) : p[i] = f[i] /\ q[i] = f[i]
    BY <1>1, <1>2
  <1>4. SubSeq(p, 1, Len(q)) = q
    BY <1>1, <1>3
  <1> QED
    BY <1>4 DEF UnderPrefix

\* A directory above a file is told by the number of its names.
LEMMA PrefixesDiffer ==
    ASSUME NEW S, NEW f \in Seq(S), NEW p \in Seq(S), NEW q \in Seq(S),
           UnderPrefix(f, p), UnderPrefix(f, q), Len(q) = Len(p)
    PROVE  p = q
  BY DEF UnderPrefix

RootsTyped == roots \in [RootPath -> RootRow \union {NoRootRow}]

LEMMA OverIsPath ==
    ASSUME NEW p \in RootPath
    PROVE  File \in Seq(STRING) /\ p \in Seq(STRING) /\ Len(p) \in Nat /\ Normalise(p) = p
  BY NotifyPaths

\* The deepest roots above the file are those of Owns, and there is one at most.
LEMMA Deepest ==
    ASSUME NEW r
    PROVE  r \in LongestPrefixMatches(Roots(roots), File) <=>
             \E p \in RootPath :
                /\ r = [path |-> p, owner |-> roots[p].owner, enabled |-> roots[p].enabled]
                /\ Over(p) /\ \A q \in RootPath : Over(q) => UnderPrefix(p, q)
  <1> DEFINE Row(p) == [path |-> p, owner |-> roots[p].owner, enabled |-> roots[p].enabled]
  <1>1. \A p \in RootPath :
          /\ Row(p).path = p /\ Normalise(Row(p).path) = p
          /\ roots[p] # NoRootRow => (Over(p) <=> Covers(Row(p), File))
    BY OverIsPath DEF Over, Covers
  <1>2. \A s : s \in Roots(roots) <=> \E p \in RootPath : roots[p] # NoRootRow /\ s = Row(p)
    BY DEF Roots
  <1>3. \A p \in RootPath, q \in RootPath :
          Over(p) /\ Over(q) => (UnderPrefix(p, q) <=> Len(q) <= Len(p))
    BY OverIsPath, PrefixesNest DEF Over, UnderPrefix
  <1> HIDE DEF Row
  <1>4. ASSUME NEW p \in RootPath, r = Row(p), Over(p),
               \A q \in RootPath : Over(q) => UnderPrefix(p, q)
        PROVE  r \in LongestPrefixMatches(Roots(roots), File)
    <2>1. roots[p] # NoRootRow
      BY <1>4 DEF Over
    <2>2. r \in Roots(roots) /\ Covers(r, File)
      BY <1>1, <1>2, <1>4, <2>1
    <2>3. ASSUME NEW other \in Roots(roots), Covers(other, File)
          PROVE  Len(Normalise(other.path)) <= Len(Normalise(r.path))
      <3>1. PICK q \in RootPath : roots[q] # NoRootRow /\ other = Row(q)
        BY <1>2
      <3>2. Over(q)
        BY <1>1, <2>3, <3>1
      <3>3. Len(q) <= Len(p)
        BY <1>3, <1>4, <3>2
      <3> QED
        BY <1>1, <1>4, <3>1, <3>3
    <2> QED
      BY <2>2, <2>3 DEF LongestPrefixMatches
  <1>5. ASSUME r \in LongestPrefixMatches(Roots(roots), File)
        PROVE  \E p \in RootPath : /\ r = Row(p) /\ Over(p)
                                   /\ \A q \in RootPath : Over(q) => UnderPrefix(p, q)
    <2>1. /\ r \in Roots(roots) /\ Covers(r, File)
          /\ \A other \in Roots(roots) :
                Covers(other, File) => Len(Normalise(other.path)) <= Len(Normalise(r.path))
      BY <1>5 DEF LongestPrefixMatches
    <2>2. PICK p \in RootPath : roots[p] # NoRootRow /\ r = Row(p)
      BY <1>2, <2>1
    <2>3. Over(p)
      BY <1>1, <2>1, <2>2
    <2>4. ASSUME NEW q \in RootPath, Over(q) PROVE UnderPrefix(p, q)
      <3>1. roots[q] # NoRootRow
        BY <2>4 DEF Over
      <3>2. Row(q) \in Roots(roots) /\ Covers(Row(q), File)
        BY <1>1, <1>2, <2>4, <3>1
      <3>3. Len(q) <= Len(p)
        BY <1>1, <2>1, <2>2, <3>2
      <3> QED
        BY <1>3, <2>3, <2>4, <3>3
    <2> QED
      BY <2>2, <2>3, <2>4
  <1> QED
    BY <1>4, <1>5 DEF Row

\* Attribution names the owner of the deepest enabled root, if it has one.
LEMMA AttributeIsOwner ==
    ASSUME RootsTyped
    PROVE  /\ Attribute(Roots(roots), File) \in Instance \union {NoInstance}
           /\ \A i \in Instance : Owns(i) <=> Attribute(Roots(roots), File) = i
  <1> DEFINE best == LongestPrefixMatches(Roots(roots), File)
             owners == DistinctInstances(best)
             Deep(p) == Over(p) /\ \A q \in RootPath : Over(q) => UnderPrefix(p, q)
  <1>1. \A o : o \in owners <=> o # NoInstance /\ \E p \in RootPath : Deep(p) /\ roots[p].owner = o
    <2>1. \A r : r \in best <=>
            \E p \in RootPath :
               r = [path |-> p, owner |-> roots[p].owner, enabled |-> roots[p].enabled] /\ Deep(p)
      BY Deepest
    <2>2. \A o : o \in owners <=> o # NoInstance /\ \E r \in best : r.owner = o
      BY DEF DistinctInstances
    <2> DEFINE Row(p) == [path |-> p, owner |-> roots[p].owner, enabled |-> roots[p].enabled]
    <2>3. \A p \in RootPath : Row(p).owner = roots[p].owner
      OBVIOUS
    <2>4. \A r : r \in best <=> \E p \in RootPath : r = Row(p) /\ Deep(p)
      BY <2>1
    <2> HIDE DEF best, owners, Deep, Row
    <2>5. \A o : (\E r \in best : r.owner = o) <=> \E p \in RootPath : Deep(p) /\ roots[p].owner = o
      BY <2>3, <2>4
    <2> QED
      BY <2>2, <2>5
  <1>2. \A p \in RootPath, q \in RootPath : Deep(p) /\ Deep(q) => p = q
    <2>1. ASSUME NEW p \in RootPath, NEW q \in RootPath, Deep(p), Deep(q) PROVE p = q
      <3>1. /\ UnderPrefix(File, p) /\ UnderPrefix(File, q)
            /\ UnderPrefix(p, q) /\ UnderPrefix(q, p)
        BY <2>1 DEF Over
      <3>2. /\ File \in Seq(STRING) /\ p \in Seq(STRING) /\ q \in Seq(STRING)
            /\ Len(p) \in Nat /\ Len(q) \in Nat
        BY OverIsPath
      <3>3. Len(p) <= Len(q) /\ Len(q) <= Len(p)
        BY <3>1 DEF UnderPrefix
      <3>4. Len(q) = Len(p)
        BY <3>2, <3>3
      <3> QED
        BY <3>1, <3>2, <3>4, PrefixesDiffer
    <2> QED
      BY <2>1
  <1>3. \A o \in owners : o \in Instance /\ owners = {o}
    <2> HIDE DEF owners, Deep
    <2>1. ASSUME NEW o \in owners PROVE o \in Instance /\ owners = {o}
      <3>1. PICK p \in RootPath : Deep(p) /\ roots[p].owner = o
        BY <1>1, <2>1
      <3>2. roots[p] \in RootRow
        BY <3>1 DEF RootsTyped, Deep, Over
      <3>3. o \in Instance
        BY <1>1, <2>1, <3>1, <3>2 DEF RootRow
      <3> QED
        BY <1>1, <1>2, <2>1, <3>1, <3>3
    <2> QED
      BY <2>1
  <1>4. \A i \in Instance : Owns(i) <=> i \in owners
    <2>1. \A i \in Instance : Owns(i) <=> \E p \in RootPath : Deep(p) /\ roots[p].owner = i
      BY DEF Owns
    <2> HIDE DEF owners, Deep
    <2> QED
      BY <1>1, <2>1, NotifyAssumption
  <1>5. Attribute(Roots(roots), File) =
          IF \E o \in owners : owners = {o} THEN CHOOSE o \in owners : TRUE ELSE NoInstance
    BY DEF Attribute
  <1> HIDE DEF owners
  <1>6. CASE owners = {}
    BY <1>4, <1>5, <1>6, NotifyAssumption
  <1>7. CASE owners # {}
    <2>1. PICK o \in owners : TRUE
      BY <1>7
    <2>2. (CHOOSE x \in owners : TRUE) \in owners
      BY <2>1
    <2>3. Attribute(Roots(roots), File) = o
      BY <1>3, <1>5, <2>1, <2>2
    <2> QED
      BY <1>3, <1>4, <2>1, <2>3
  <1> QED
    BY <1>6, <1>7

LEMMA OwnerIsOne ==
    ASSUME RootsTyped, NEW i \in Instance, NEW k \in Instance, Owns(i), Owns(k)
    PROVE  i = k
  BY AttributeIsOwner

-----------------------------------------------------------------------------
(* The notification. *)

PlexPc == {"target", "before", "refresh", "after", "analyze"}
ArrPc == {"roots", "instance", "item", "rescan", "unmonitor", "told"}
IsPlexNote(n) ==
    n = [pc |-> n.pc, refresh |-> n.refresh, analyze |-> n.analyze, indexed |-> n.indexed,
         known |-> n.known, edited |-> n.edited]
IsArrNote(n) ==
    n = [pc |-> n.pc, owner |-> n.owner, flags |-> n.flags, item |-> n.item, told |-> n.told,
         read |-> n.read, edited |-> n.edited]
NoteShaped ==
    \/ note = NoNote
    \/ note.pc \in PlexPc /\ IsPlexNote(note)
    \/ note.pc \in ArrPc /\ IsArrNote(note)

\* Only the owner that was found is told, and before it is looked up nobody is.
OneIsTold ==
    note.pc \in ArrPc =>
        /\ \A t \in note.told : t.to = note.owner
        /\ note.pc \in {"roots", "instance", "item", "rescan"} => note.told = {}

\* What has been read is still so, unless the operator has edited it.
Settled == note.pc \in ArrPc /\ ~note.edited /\ note.read
OwnerStands ==
    Settled /\ note.pc \in {"instance", "item", "rescan", "unmonitor"} =>
        note.owner \in Instance /\ Owns(note.owner)
FlagsStand ==
    Settled /\ note.pc \in {"item", "rescan", "unmonitor"} =>
        /\ Exists(note.owner) /\ instances[note.owner].enabled
        /\ note.flags = instances[note.owner]
ItemStands ==
    Settled /\ note.pc \in {"rescan", "unmonitor"} => note.item = (reportedBy # NoInstance)

\* The rescan has been sent, if it is to be.
RescanSent ==
    Settled /\ note.pc = "unmonitor" =>
        note.told = IF note.flags.rescan /\ note.item
                    THEN {[to |-> note.owner, what |-> "rescan"]} ELSE {}

NoteInv == NoteShaped /\ OneIsTold /\ OwnerStands /\ FlagsStand /\ ItemStands /\ RescanSent
           /\ OwnerIsTold
NotifyInv == RootsTyped /\ NoteInv

LEMMA NotifyInitial == NotifyInit => NotifyInv
  BY DEF NotifyInit, NotifyInv, NoteInv, RootsTyped, NoteShaped, OneIsTold, Settled,
     OwnerStands, FlagsStand, ItemStands, RescanSent, OwnerIsTold, NoNote, ArrPc

\* An edit that comes while a notification is under way marks it.
LEMMA DisturbKeeps ==
    ASSUME NoteInv, Disturb
    PROVE  NoteInv'
  <1>1. CASE note = NoNote
    BY <1>1 DEF Disturb, NoteInv, NoteShaped, OneIsTold, Settled, OwnerStands, FlagsStand,
       ItemStands, RescanSent, OwnerIsTold, NoNote, ArrPc
  <1>2. CASE note.pc \in PlexPc /\ IsPlexNote(note) /\ note # NoNote
    <2>1. note'.pc = note.pc /\ IsPlexNote(note)'
      BY <1>2 DEF Disturb, IsPlexNote
    <2> QED
      BY <1>2, <2>1 DEF NoteInv, NoteShaped, OneIsTold, Settled, OwnerStands, FlagsStand,
         ItemStands, RescanSent, OwnerIsTold, ArrPc, PlexPc
  <1>3. CASE note.pc \in ArrPc /\ IsArrNote(note) /\ note # NoNote
    <2>1. /\ note'.pc = note.pc /\ note'.told = note.told /\ note'.owner = note.owner
          /\ note'.edited /\ IsArrNote(note)'
      BY <1>3 DEF Disturb, IsArrNote
    <2> QED
      BY <1>3, <2>1 DEF NoteInv, NoteShaped, OneIsTold, Settled, OwnerStands, FlagsStand,
         ItemStands, RescanSent, OwnerIsTold
  <1> QED
    BY <1>1, <1>2, <1>3 DEF NoteInv, NoteShaped

LEMMA OperatorKeeps ==
    ASSUME NotifyInv,
           \/ \E i \in Instance : SaveInstance(i) \/ DeleteInstance(i) \/ WebhookNamesItem(i)
           \/ \E p \in RootPath : CreateRoot(p) \/ DeleteRoot(p)
           \/ \E i \in Instance, reported \in Reported : ImportArrRoots(i, reported)
    PROVE  NotifyInv'
  <1>1. Disturb
    BY DEF SaveInstance, DeleteInstance, WebhookNamesItem, CreateRoot, DeleteRoot,
       ImportArrRoots, Edit
  <1> USE DEF NotifyInv
  <1>2. CASE \E i \in Instance : SaveInstance(i) \/ WebhookNamesItem(i)
    BY <1>1, <1>2, DisturbKeeps DEF SaveInstance, WebhookNamesItem, RootsTyped
  <1>3. CASE \E i \in Instance : DeleteInstance(i)
    <2>1. PICK i \in Instance : DeleteInstance(i)
      BY <1>3
    <2>2. ASSUME NEW p \in RootPath, roots[p] # NoRootRow
          PROVE  [roots[p] EXCEPT !.owner = NoInstance] \in RootRow
      <3>1. roots[p] \in RootRow
        BY <2>2 DEF RootsTyped
      <3> QED
        BY <3>1 DEF RootRow
    <2>3. RootsTyped'
      BY <2>1, <2>2 DEF DeleteInstance, RootsTyped
    <2> QED
      BY <1>1, <2>3, DisturbKeeps
  <1>4. CASE \E p \in RootPath : CreateRoot(p) \/ DeleteRoot(p)
    <2>1. RootsTyped'
      BY <1>4 DEF CreateRoot, DeleteRoot, RootsTyped
    <2> QED
      BY <1>1, <2>1, DisturbKeeps
  <1>5. CASE \E i \in Instance, reported \in Reported : ImportArrRoots(i, reported)
    <2>0. PICK i \in Instance, reported \in Reported : ImportArrRoots(i, reported)
      BY <1>5
    <2>1. PICK imported :
             roots' = [p \in RootPath |->
                         IF p \in imported /\ roots[p] = NoRootRow
                         THEN [owner |-> i, enabled |-> TRUE] ELSE roots[p]]
      BY <2>0 DEF ImportArrRoots
    <2>2. [owner |-> i, enabled |-> TRUE] \in RootRow
      BY DEF RootRow
    <2>3. RootsTyped'
      BY <2>1, <2>2 DEF RootsTyped
    <2> QED
      BY <1>1, <2>3, DisturbKeeps
  <1> QED
    BY <1>2, <1>3, <1>4, <1>5

\* Whatever Plex answers, the *arr half is still to come.
LEMMA PlexKeeps ==
    ASSUME NotifyInv,
           \/ NotifyPromoted \/ PlexScans \/ ResolveTarget \/ LookUpBefore \/ RefreshDir
           \/ LookUpAgain \/ AnalyzeItem
    PROVE  NotifyInv'
  <1>1. UNCHANGED roots
    BY DEF NotifyPromoted, PlexScans, ResolveTarget, LookUpBefore, RefreshDir, LookUpAgain,
       AnalyzeItem, PlexDone, Notice
  <1>2. \/ note'.pc \in PlexPc /\ IsPlexNote(note)'
        \/ \E edited : note' = ArrHalf(edited)
    <2>1. CASE NotifyPromoted
      <3>1. PICK refresh \in BOOLEAN, analyze \in BOOLEAN, indexed \in BOOLEAN :
               note' = IF refresh \/ analyze
                       THEN [pc |-> "target", refresh |-> refresh, analyze |-> analyze,
                             indexed |-> indexed, known |-> FALSE, edited |-> FALSE]
                       ELSE ArrHalf(FALSE)
        BY <2>1 DEF NotifyPromoted
      <3> QED
        BY <3>1 DEF IsPlexNote, PlexPc
    <2>2. CASE \/ PlexScans \/ ResolveTarget \/ LookUpBefore \/ RefreshDir
               \/ LookUpAgain \/ AnalyzeItem
      <3>1. note.pc \in PlexPc /\ IsPlexNote(note)
        <4>1. note.pc \in PlexPc
          BY <2>2 DEF PlexScans, ResolveTarget, LookUpBefore, RefreshDir, LookUpAgain,
             AnalyzeItem, PlexHalf, At, PlexPc
        <4>2. NoNote.pc \notin PlexPc
          BY DEF NoNote, PlexPc
        <4>3. PlexPc \intersect ArrPc = {}
          BY DEF PlexPc, ArrPc
        <4> QED
          BY <4>1, <4>2, <4>3 DEF NotifyInv, NoteInv, NoteShaped
      <3>2. CASE PlexScans
        BY <3>1, <3>2 DEF PlexScans, Notice, IsPlexNote
      <3>3. CASE ResolveTarget
        BY <3>1, <3>3 DEF ResolveTarget, PlexDone, Notice, IsPlexNote, PlexPc
      <3>4. CASE LookUpBefore
        <4>1. PICK answered \in BOOLEAN :
                 note' = [note EXCEPT !.pc = IF note.refresh THEN "refresh" ELSE "after",
                                      !.known = answered /\ note.indexed]
          BY <3>4 DEF LookUpBefore, Notice
        <4> DEFINE pc == IF note.refresh THEN "refresh" ELSE "after"
                   known == answered /\ note.indexed
        <4>2. pc \in PlexPc
          BY DEF PlexPc
        <4>3. note' = [note EXCEPT !.pc = pc, !.known = known]
          BY <4>1
        <4> HIDE DEF pc, known
        <4> QED
          BY <3>1, <4>2, <4>3 DEF IsPlexNote
      <3>5. CASE RefreshDir
        BY <3>1, <3>5 DEF RefreshDir, PlexDone, Notice, IsPlexNote, PlexPc
      <3>6. CASE LookUpAgain
        BY <3>1, <3>6 DEF LookUpAgain, PlexDone, Notice, IsPlexNote, PlexPc
      <3>7. CASE AnalyzeItem
        BY <3>7 DEF AnalyzeItem, PlexDone, Notice
      <3> QED
        BY <2>2, <3>2, <3>3, <3>4, <3>5, <3>6, <3>7
    <2> QED
      BY <2>1, <2>2
  <1>3. CASE note'.pc \in PlexPc /\ IsPlexNote(note)'
    BY <1>1, <1>3 DEF NotifyInv, NoteInv, RootsTyped, NoteShaped, OneIsTold, Settled, OwnerStands,
       FlagsStand, ItemStands, RescanSent, OwnerIsTold, ArrPc, PlexPc
  <1>4. CASE \E edited : note' = ArrHalf(edited)
    BY <1>1, <1>4 DEF ArrHalf, NotifyInv, NoteInv, RootsTyped, NoteShaped, IsArrNote, OneIsTold,
       Settled, OwnerStands, FlagsStand, ItemStands, RescanSent, OwnerIsTold, ArrPc
  <1> QED
    BY <1>2, <1>3, <1>4

\* A note of the *arr half has all its fields.
LEMMA ArrNote ==
    ASSUME NotifyInv, note.pc \in ArrPc
    PROVE  IsArrNote(note)
  <1>1. NoNote.pc \notin ArrPc /\ PlexPc \intersect ArrPc = {}
    BY DEF NoNote, PlexPc, ArrPc
  <1> QED
    BY <1>1 DEF NotifyInv, NoteInv, NoteShaped

\* The owner is looked up among the roots there are.
LEMMA RootsKeep == ASSUME NotifyInv, ReadRoots PROVE NotifyInv'
  <1>1. note.pc = "roots" /\ UNCHANGED <<instances, roots, reportedBy>>
    BY DEF ReadRoots, At, Notice
  <1>2. IsArrNote(note) /\ note.told = {}
    BY <1>1, ArrNote DEF ArrPc, NotifyInv, NoteInv, OneIsTold
  <1>0. PICK owner : owner = Attribute(Roots(roots), File)
    OBVIOUS
  <1>3. /\ owner \in Instance \union {NoInstance}
        /\ \A i \in Instance : Owns(i) <=> owner = i
    BY <1>0, AttributeIsOwner DEF NotifyInv
  <1>4. note' = IF owner = NoInstance THEN [note EXCEPT !.pc = "told"]
                ELSE [note EXCEPT !.pc = "instance", !.owner = owner]
    BY <1>0 DEF ReadRoots, Notice, NoOwner
  <1>5. RootsTyped' /\ (\A i : Owns(i)' <=> Owns(i))
    BY <1>1 DEF NotifyInv, RootsTyped, Owns, Over
  <1>6. CASE owner = NoInstance
    <2>1. IsArrNote(note)' /\ note'.pc = "told" /\ note'.told = {}
      BY <1>2, <1>4, <1>6 DEF IsArrNote
    <2>2. \A i \in Instance : ~Owns(i)'
      BY <1>3, <1>5, <1>6, NotifyAssumption
    <2>3. OwnerIsTold'
      BY <2>1, <2>2 DEF OwnerIsTold
    <2> QED
      BY <1>5, <2>1, <2>3 DEF NotifyInv, NoteInv, NoteShaped, OneIsTold, OwnerStands, FlagsStand,
         ItemStands, RescanSent, ArrPc
  <1>7. CASE owner # NoInstance
    <2>1. IsArrNote(note)' /\ note'.pc = "instance" /\ note'.told = {} /\ note'.owner = owner
      BY <1>2, <1>4, <1>7 DEF IsArrNote
    <2>2. owner \in Instance /\ Owns(owner)'
      BY <1>3, <1>5, <1>7
    <2> QED
      BY <1>5, <2>1, <2>2 DEF NotifyInv, NoteInv, NoteShaped, OneIsTold, OwnerStands, FlagsStand,
         ItemStands, RescanSent, OwnerIsTold, ArrPc
  <1> QED
    BY <1>6, <1>7

\* Its row says whether it is to be told, and of what.
LEMMA InstanceKeeps == ASSUME NotifyInv, LoadInstance PROVE NotifyInv'
  <1>1. note.pc = "instance" /\ UNCHANGED <<instances, roots, reportedBy>>
    BY DEF LoadInstance, At, Notice
  <1>2. IsArrNote(note) /\ note.told = {}
    BY <1>1, ArrNote DEF ArrPc, NotifyInv, NoteInv, OneIsTold
  <1>3. /\ RootsTyped' /\ (\A i : Owns(i)' <=> Owns(i))
        /\ \A i : Exists(i)' <=> Exists(i)
    BY <1>1 DEF NotifyInv, RootsTyped, Owns, Over, Exists
  <1>4. CASE ~Exists(note.owner) \/ ~instances[note.owner].enabled
    <2>1. note' = [[note EXCEPT !.owner = NoInstance] EXCEPT !.pc = "told"]
      BY <1>4 DEF LoadInstance, Notice, NoOwner
    <2>2. /\ IsArrNote(note)' /\ note'.pc = "told" /\ note'.told = {}
          /\ note'.edited = note.edited /\ note'.read = note.read
      BY <1>2, <2>1 DEF IsArrNote
    <2>3. ~note.edited /\ note.read =>
             \A i \in Instance : Owns(i) => ~(Exists(i) /\ instances[i].enabled)
      <3> SUFFICES ASSUME ~note.edited, note.read, NEW i \in Instance, Owns(i)
                   PROVE  ~(Exists(i) /\ instances[i].enabled)
        OBVIOUS
      <3>1. note.owner \in Instance /\ Owns(note.owner)
        BY <1>1 DEF NotifyInv, NoteInv, OwnerStands, Settled, ArrPc
      <3>2. i = note.owner
        BY <3>1, OwnerIsOne DEF NotifyInv
      <3> QED
        BY <1>4, <3>2
    <2>4. ~note'.edited /\ note'.read =>
             \A i \in Instance : ~(Owns(i)' /\ Exists(i)' /\ instances'[i].enabled)
      BY <1>1, <1>3, <2>2, <2>3
    <2>5. OwnerIsTold'
      BY <2>2, <2>4 DEF OwnerIsTold
    <2> QED
      BY <1>3, <2>2, <2>5 DEF NotifyInv, NoteInv, NoteShaped, OneIsTold, OwnerStands, FlagsStand,
         ItemStands, RescanSent, ArrPc
  <1>5. CASE Exists(note.owner) /\ instances[note.owner].enabled
    <2>1. note' = [note EXCEPT !.pc = "item", !.flags = instances[note.owner]]
      BY <1>5 DEF LoadInstance, Notice
    <2>2. /\ IsArrNote(note)' /\ note'.pc = "item" /\ note'.told = {}
          /\ note'.edited = note.edited /\ note'.read = note.read /\ note'.owner = note.owner
          /\ note'.flags = instances[note.owner]
      BY <1>2, <2>1 DEF IsArrNote
    <2>3. OwnerStands'
      BY <1>1, <1>3, <2>2 DEF NotifyInv, NoteInv, OwnerStands, Settled, ArrPc
    <2>4. FlagsStand'
      BY <1>1, <1>3, <1>5, <2>2 DEF FlagsStand
    <2> QED
      BY <1>3, <2>2, <2>3, <2>4 DEF NotifyInv, NoteInv, NoteShaped, OneIsTold, ItemStands,
         RescanSent, OwnerIsTold, ArrPc
  <1> QED
    BY <1>4, <1>5

\* The row's entity id says whether there is an item to name.
LEMMA ItemKeeps == ASSUME NotifyInv, LoadItem PROVE NotifyInv'
  <1>1. note.pc = "item" /\ UNCHANGED <<instances, roots, reportedBy>>
    BY DEF LoadItem, At, Notice
  <1>2. IsArrNote(note) /\ note.told = {}
    BY <1>1, ArrNote DEF ArrPc, NotifyInv, NoteInv, OneIsTold
  <1>3. /\ RootsTyped' /\ (\A i : Owns(i)' <=> Owns(i))
        /\ \A i : Exists(i)' <=> Exists(i)
    BY <1>1 DEF NotifyInv, RootsTyped, Owns, Over, Exists
  <1> DEFINE named == reportedBy # NoInstance
  <1>4. note' = [note EXCEPT !.pc = "rescan", !.item = named]
    BY DEF LoadItem, Notice
  <1> HIDE DEF named
  <1>5. /\ IsArrNote(note)' /\ note'.pc = "rescan" /\ note'.told = {} /\ note'.item = named
        /\ note'.edited = note.edited /\ note'.read = note.read /\ note'.owner = note.owner
        /\ note'.flags = note.flags
    BY <1>2, <1>4 DEF IsArrNote
  <1>6. OwnerStands'
    BY <1>1, <1>3, <1>5 DEF NotifyInv, NoteInv, OwnerStands, Settled, ArrPc
  <1>7. FlagsStand'
    BY <1>1, <1>3, <1>5 DEF NotifyInv, NoteInv, FlagsStand, Settled, ArrPc
  <1>8. ItemStands'
    BY <1>1, <1>5 DEF ItemStands, named
  <1> QED
    BY <1>3, <1>5, <1>6, <1>7, <1>8 DEF NotifyInv, NoteInv, NoteShaped, OneIsTold, RescanSent,
       OwnerIsTold, ArrPc

LEMMA ReadFailsKeeps == ASSUME NotifyInv, ReadFails PROVE NotifyInv'
  <1>1. note.pc \in {"roots", "instance", "item"} /\ UNCHANGED roots
    BY DEF ReadFails, At, Notice
  <1>2. IsArrNote(note) /\ note.told = {}
    BY <1>1, ArrNote DEF ArrPc, NotifyInv, NoteInv, OneIsTold
  <1>3. note' = [[note EXCEPT !.pc = "told"] EXCEPT !.read = FALSE]
    BY DEF ReadFails, Notice, NoOwner
  <1>4. IsArrNote(note)' /\ note'.pc = "told" /\ note'.told = {} /\ note'.read = FALSE
    BY <1>2, <1>3 DEF IsArrNote
  <1> QED
    BY <1>1, <1>4 DEF NotifyInv, NoteInv, RootsTyped, NoteShaped, OneIsTold, OwnerStands,
       FlagsStand, ItemStands, RescanSent, OwnerIsTold, ArrPc

LEMMA RescanKeeps == ASSUME NotifyInv, Rescan PROVE NotifyInv'
  <1>1. note.pc = "rescan" /\ UNCHANGED <<instances, roots, reportedBy>>
    BY DEF Rescan, At, Notice
  <1>2. IsArrNote(note) /\ note.told = {}
    BY <1>1, ArrNote DEF ArrPc, NotifyInv, NoteInv, OneIsTold
  <1>3. /\ RootsTyped' /\ (\A i : Owns(i)' <=> Owns(i))
        /\ \A i : Exists(i)' <=> Exists(i)
    BY <1>1 DEF NotifyInv, RootsTyped, Owns, Over, Exists
  <1> DEFINE told == IF note.flags.rescan /\ note.item
                     THEN {[to |-> note.owner, what |-> "rescan"]} ELSE {}
  <1>4. note' = [note EXCEPT !.pc = "unmonitor", !.told = told]
    BY <1>2 DEF Rescan, Notice, Tell
  <1>5. \A t \in told : t.to = note.owner
    OBVIOUS
  <1> HIDE DEF told
  <1>6. /\ IsArrNote(note)' /\ note'.pc = "unmonitor" /\ note'.told = told
        /\ note'.edited = note.edited /\ note'.read = note.read /\ note'.owner = note.owner
        /\ note'.flags = note.flags /\ note'.item = note.item
    BY <1>2, <1>4 DEF IsArrNote
  <1>7. OwnerStands'
    BY <1>1, <1>3, <1>6 DEF NotifyInv, NoteInv, OwnerStands, Settled, ArrPc
  <1>8. FlagsStand'
    BY <1>1, <1>3, <1>6 DEF NotifyInv, NoteInv, FlagsStand, Settled, ArrPc
  <1>9. ItemStands'
    BY <1>1, <1>6 DEF NotifyInv, NoteInv, ItemStands, Settled, ArrPc
  <1>10. RescanSent'
    BY <1>6 DEF RescanSent, told
  <1> QED
    BY <1>3, <1>5, <1>6, <1>7, <1>8, <1>9, <1>10 DEF NotifyInv, NoteInv, NoteShaped, OneIsTold,
       OwnerIsTold, ArrPc

\* Both commands have been sent by now that were to be, and to the owner.
LEMMA UnmonitorKeeps == ASSUME NotifyInv, Unmonitor PROVE NotifyInv'
  <1>1. note.pc = "unmonitor" /\ UNCHANGED <<instances, roots, reportedBy>>
    BY DEF Unmonitor, At, Notice
  <1>2. IsArrNote(note) /\ \A t \in note.told : t.to = note.owner
    BY <1>1, ArrNote DEF ArrPc, NotifyInv, NoteInv, OneIsTold
  <1>3. /\ RootsTyped' /\ (\A i : Owns(i)' <=> Owns(i))
        /\ \A i : Exists(i)' <=> Exists(i)
    BY <1>1 DEF NotifyInv, RootsTyped, Owns, Over, Exists
  <1> DEFINE sent == note.owner \in Radarr /\ note.flags.unmonitor /\ note.item
             told == IF sent THEN note.told \union {[to |-> note.owner, what |-> "unmonitor"]}
                     ELSE note.told
  <1>4. note' = [note EXCEPT !.pc = "told", !.told = told]
    BY DEF Unmonitor, Notice, Tell
  <1>5. \A t \in told : t.to = note.owner
    BY <1>2
  <1>6. ASSUME ~note.edited, note.read, NEW i \in Instance
        PROVE  /\ [to |-> i, what |-> "rescan"] \in told
                     <=> /\ Owns(i) /\ Exists(i) /\ instances[i].enabled
                         /\ instances[i].rescan /\ reportedBy # NoInstance
               /\ [to |-> i, what |-> "unmonitor"] \in told
                     <=> /\ Owns(i) /\ Exists(i) /\ instances[i].enabled
                         /\ instances[i].unmonitor /\ reportedBy # NoInstance
                         /\ i \in Radarr
    <2>1. Settled
      BY <1>1, <1>6 DEF Settled, ArrPc
    <2>2. /\ note.owner \in Instance /\ Owns(note.owner) /\ Exists(note.owner)
          /\ instances[note.owner].enabled /\ note.flags = instances[note.owner]
          /\ note.item = (reportedBy # NoInstance)
          /\ note.told = IF note.flags.rescan /\ note.item
                         THEN {[to |-> note.owner, what |-> "rescan"]} ELSE {}
      BY <1>1, <2>1 DEF NotifyInv, NoteInv, OwnerStands, FlagsStand, ItemStands, RescanSent
    <2>3. CASE i # note.owner
      <3>1. ~Owns(i)
        BY <2>2, <2>3, OwnerIsOne DEF NotifyInv
      <3>2. \A what : [to |-> i, what |-> what] \notin told
        <4> SUFFICES ASSUME NEW what, [to |-> i, what |-> what] \in told PROVE FALSE
          OBVIOUS
        <4>1. [to |-> i, what |-> what].to = note.owner
          BY <1>5
        <4> QED
          BY <2>3, <4>1
      <3> QED
        BY <3>1, <3>2
    <2>4. CASE i = note.owner
      <3>1. [to |-> i, what |-> "rescan"] # [to |-> i, what |-> "unmonitor"]
        <4>1. [to |-> i, what |-> "rescan"].what # [to |-> i, what |-> "unmonitor"].what
          OBVIOUS
        <4> QED
          BY <4>1
      <3>2. [to |-> i, what |-> "rescan"] \in told <=> note.flags.rescan /\ note.item
        BY <2>2, <2>4, <3>1
      <3>3. [to |-> i, what |-> "unmonitor"] \in told <=> sent
        BY <2>2, <2>4, <3>1
      <3> HIDE DEF told
      <3> QED
        BY <2>2, <2>4, <3>2, <3>3
    <2> QED
      BY <2>3, <2>4
  <1> HIDE DEF told
  <1>7. /\ IsArrNote(note)' /\ note'.pc = "told" /\ note'.told = told
        /\ note'.edited = note.edited /\ note'.read = note.read /\ note'.owner = note.owner
    BY <1>2, <1>4 DEF IsArrNote
  <1>8. OwnerIsTold'
    <2>1. ASSUME ~note'.edited, note'.read, NEW i \in Instance,
                 NEW what \in {"rescan", "unmonitor"}
          PROVE  [to |-> i, what |-> what] \in note'.told
                   <=> /\ Owns(i)' /\ Exists(i)' /\ instances'[i].enabled
                       /\ instances'[i][what] /\ reportedBy' # NoInstance
                       /\ what = "unmonitor" => i \in Radarr
      <3>1. CASE what = "rescan"
        BY <1>1, <1>3, <1>6, <1>7, <2>1, <3>1
      <3>2. CASE what = "unmonitor"
        BY <1>1, <1>3, <1>6, <1>7, <2>1, <3>2
      <3> QED
        BY <2>1, <3>1, <3>2
    <2>2. \A s \in note'.told, t \in note'.told : s.to = t.to
      BY <1>5, <1>7
    <2> QED
      BY <2>1, <2>2 DEF OwnerIsTold
  <1> QED
    BY <1>3, <1>5, <1>7, <1>8 DEF NotifyInv, NoteInv, NoteShaped, OneIsTold, OwnerStands,
       FlagsStand, ItemStands, RescanSent, ArrPc

LEMMA NotifyStep == NotifyInv /\ [NotifyNext]_notifyVars => NotifyInv'
  <1> SUFFICES ASSUME NotifyInv, [NotifyNext]_notifyVars PROVE NotifyInv'
    OBVIOUS
  <1>1. CASE NotifyReturns
    BY <1>1 DEF NotifyReturns, NotifyInv, NoteInv, RootsTyped, NoteShaped, OneIsTold, Settled,
       OwnerStands, FlagsStand, ItemStands, RescanSent, OwnerIsTold, NoNote, ArrPc
  <1>2. CASE UNCHANGED notifyVars
    BY <1>2 DEF notifyVars, NotifyInv, NoteInv, RootsTyped, NoteShaped, IsPlexNote, IsArrNote,
       OneIsTold, Settled, OwnerStands, FlagsStand, ItemStands, RescanSent, OwnerIsTold, Owns,
       Over, Exists
  <1>3. CASE \/ NotifyPromoted \/ PlexScans \/ ResolveTarget \/ LookUpBefore \/ RefreshDir
             \/ LookUpAgain \/ AnalyzeItem
    BY <1>3, PlexKeeps
  <1>4. CASE \/ \E i \in Instance : SaveInstance(i) \/ DeleteInstance(i) \/ WebhookNamesItem(i)
             \/ \E p \in RootPath : CreateRoot(p) \/ DeleteRoot(p)
             \/ \E i \in Instance, reported \in Reported : ImportArrRoots(i, reported)
    BY <1>4, OperatorKeeps
  <1>5. CASE ReadRoots \/ LoadInstance \/ LoadItem \/ ReadFails \/ Rescan \/ Unmonitor
    BY <1>5, RootsKeep, InstanceKeeps, ItemKeeps, ReadFailsKeeps, RescanKeeps, UnmonitorKeeps
  <1> QED
    BY <1>1, <1>2, <1>3, <1>4, <1>5 DEF NotifyNext

\* A promotion tells the instance whose root is the deepest over the file, all that
\* it was asked to be told and nobody else, whatever became of the calls to Plex and
\* of the other command; and no two instances ever (arr/notify.go, adapters.go
\* ResolveOwner, pathmap/attribute.go): for every set of instances, roots and flags,
\* and any number of edits.
THEOREM OwnerHears == NotifySpec => []OwnerIsTold
  <1>1. NotifyInv => OwnerIsTold
    BY DEF NotifyInv, NoteInv
  <1> QED
    BY <1>1, NotifyInitial, NotifyStep, PTL DEF NotifySpec

-----------------------------------------------------------------------------
(* An event and its files. *)

ActedUpon == {"Download", "Rename", "Delete"}
IsPayload(e) ==
    \E s \in Sender, type \in Types, shape \in Shapes : \E moved :
       /\ DOMAIN moved \subseteq Named
       /\ \A n \in DOMAIN moved : moved[n] \in Named \union {Blank}
       /\ e = Payload(s, type, shape, moved)

\* The paths a payload gives are those of its files, as the sender sees them.
LEMMA PayloadNames ==
    ASSUME NEW s \in Sender, NEW type \in Types, NEW shape \in Shapes \ {"none"}, NEW moved,
           DOMAIN moved \subseteq Named,
           \A n \in DOMAIN moved : moved[n] \in Named \union {Blank},
           NEW e, e = Payload(s, type, shape, moved)
    PROVE  /\ shape = "windows" => EventPaths(e) \subseteq {Relative}
           /\ shape # "windows" => EventPaths(e) = {Folder[s] \o n : n \in NamesOf(e)}
  <1> DEFINE Entry(n) == FileOf(s, shape, n, moved[n])
             Now(n) == FullPath(Entry(n), e.folder)
             Before(n) == Entry(n).previous
  <1>1. /\ e.folder = FolderSeen(s, shape) /\ e.moved = moved
        /\ e.files = {Entry(n) : n \in DOMAIN moved}
    BY DEF Payload, Shapes
  <1>2. EventPaths(e) = {Now(n) : n \in DOMAIN moved}
                        \union ({Before(n) : n \in DOMAIN moved} \ {Blank})
    <2> DEFINE Pair(n) == [remote |-> Now(n), previous |-> Before(n)]
    <2>1. CollectFiles(e) = {Pair(n) : n \in DOMAIN moved}
      BY <1>1 DEF CollectFiles
    <2>2. \A n : Pair(n).remote = Now(n) /\ Pair(n).previous = Before(n)
      OBVIOUS
    <2> HIDE DEF Now, Before, Pair
    <2>3. /\ {f.remote : f \in CollectFiles(e)} = {Now(n) : n \in DOMAIN moved}
          /\ {f.previous : f \in CollectFiles(e)} = {Before(n) : n \in DOMAIN moved}
      BY <2>1, <2>2
    <2> QED
      BY <2>3 DEF EventPaths
  <1>3. /\ \A n \in DOMAIN moved : /\ Folder[s] \o n \notin {Blank, Relative}
                                   /\ moved[n] # Blank => Folder[s] \o moved[n] \notin {Blank, Relative}
        /\ Folder[s] # Relative /\ Blank # Relative
    BY WebhooksPaths, WebhooksAssumption
  <1>4. CASE shape = "windows"
    <2>1. \A n \in DOMAIN moved : Now(n) = Relative /\ Before(n) \in {Relative, Blank}
      BY <1>3, <1>4 DEF FullPath, FileOf, Remote
    <2> HIDE DEF Now, Before
    <2> QED
      BY <1>2, <1>4, <2>1
  <1>5. CASE shape # "windows"
    <2>1. \A n \in DOMAIN moved :
            /\ Now(n) = Folder[s] \o n
            /\ Before(n) = IF moved[n] = Blank THEN Blank ELSE Folder[s] \o moved[n]
      BY <1>1, <1>3, <1>5 DEF FullPath, FileOf, Remote, FolderSeen
    <2>2. NamesOf(e) = DOMAIN moved \union ({moved[n] : n \in DOMAIN moved} \ {Blank})
      BY <1>1 DEF NamesOf
    <2> HIDE DEF Now, Before
    <2>3. ASSUME NEW p
          PROVE  p \in EventPaths(e) <=> \E n \in NamesOf(e) : p = Folder[s] \o n
      <3>1. p \in EventPaths(e) <=> \/ \E n \in DOMAIN moved : p = Now(n)
                                    \/ p # Blank /\ \E n \in DOMAIN moved : p = Before(n)
        BY <1>2
      <3>2. (\E n \in NamesOf(e) : p = Folder[s] \o n) <=>
              \/ \E n \in DOMAIN moved : p = Folder[s] \o n
              \/ \E n \in DOMAIN moved : moved[n] # Blank /\ p = Folder[s] \o moved[n]
        BY <2>2
      <3>3. (p # Blank /\ \E n \in DOMAIN moved : p = Before(n)) <=>
              \E n \in DOMAIN moved : moved[n] # Blank /\ p = Folder[s] \o moved[n]
        BY <1>3, <2>1
      <3> QED
        BY <2>1, <3>1, <3>2, <3>3
    <2>4. EventPaths(e) = {Folder[s] \o n : n \in NamesOf(e)}
      BY <2>3
    <2> QED
      BY <1>5, <2>4
  <1> QED
    BY <1>4, <1>5

\* A valid event is resolved to what it names, and to nothing else in its folder.
Promised(e, mappings, paths) ==
    paths = IF e.shape = "windows" THEN {}
            ELSE {ToLocal(mappings, Folder[e.from] \o n) : n \in NamesOf(e)}

LEMMA EventResolves ==
    ASSUME NEW e, IsPayload(e), Valid(e), e.type \in ActedUpon, NEW mappings
    PROVE  Promised(e, mappings, ResolvePaths(mappings, e))
  <1>1. PICK s \in Sender, type \in Types, shape \in Shapes :
           \E moved : /\ DOMAIN moved \subseteq Named
                      /\ \A n \in DOMAIN moved : moved[n] \in Named \union {Blank}
                      /\ e = Payload(s, type, shape, moved)
    BY DEF IsPayload
  <1>2. PICK moved : /\ DOMAIN moved \subseteq Named
                     /\ \A n \in DOMAIN moved : moved[n] \in Named \union {Blank}
                     /\ e = Payload(s, type, shape, moved)
    BY <1>1
  <1>3. /\ e.from = s /\ e.type = type /\ e.folder = FolderSeen(s, shape) /\ e.moved = moved
        /\ e.shape = shape
        /\ e.files = IF shape = "none" THEN {}
                     ELSE {FileOf(s, shape, n, moved[n]) : n \in DOMAIN moved}
    BY <1>2 DEF Payload
  <1>4. CollectFiles(e) # {}
    BY DEF Valid, Handled, ActedUpon
  <1>5. shape # "none" /\ \E n : n \in DOMAIN moved
    BY <1>3, <1>4 DEF CollectFiles
  <1> DEFINE paths == MapPaths(mappings, EventPaths(e))
  <1>6. ResolvePaths(mappings, e) =
          IF paths = {} /\ e.folder # Relative THEN WalkFolder(ToLocal(mappings, e.folder)) ELSE paths
    BY DEF ResolvePaths
  <1>7. /\ shape = "windows" => EventPaths(e) \subseteq {Relative}
        /\ shape # "windows" => EventPaths(e) = {Folder[s] \o n : n \in NamesOf(e)}
    BY <1>2, <1>5, PayloadNames
  <1>8. CASE shape = "windows"
    <2>1. paths = {}
      BY <1>7, <1>8 DEF MapPaths
    <2> HIDE DEF paths
    <2> QED
      BY <1>3, <1>6, <1>8, <2>1 DEF FolderSeen, Promised
  <1>9. CASE shape # "windows"
    <2>1. NamesOf(e) = DOMAIN moved \union ({moved[n] : n \in DOMAIN moved} \ {Blank})
      BY <1>3 DEF NamesOf
    <2>2. NamesOf(e) \subseteq Named
      BY <1>2, <2>1
    <2>3. \A n \in NamesOf(e) : Folder[s] \o n # Relative
      BY <2>2, WebhooksPaths
    <2>4. EventPaths(e) \ {Relative} = {Folder[s] \o n : n \in NamesOf(e)}
      BY <1>7, <1>9, <2>3
    <2>5. paths = {ToLocal(mappings, Folder[s] \o n) : n \in NamesOf(e)}
      BY <2>4 DEF MapPaths
    <2>6. paths # {}
      BY <1>5, <2>1, <2>5
    <2> HIDE DEF paths
    <2> QED
      BY <1>3, <1>6, <1>9, <2>5, <2>6 DEF Promised
  <1> QED
    BY <1>8, <1>9

PostedShaped == \A e \in posted : IsPayload(e)
RequestShaped ==
    /\ request.pc \in {"handle", "resolve", "act"} =>
          IsPayload(request.event) /\ Valid(request.event)
    /\ request.pc \in {"resolve", "act"} => request.event.type \in ActedUpon
    /\ request.pc = "act" => Promised(request.event, request.mappings, request.paths)
WebhooksInv == PostedShaped /\ RequestShaped

\* Every event that is posted is a payload of its sender's.
LEMMA PostKeeps ==
    ASSUME WebhooksInv, NEW s \in Sender, NEW type \in Types, NEW moved,
           DOMAIN moved \subseteq Named,
           \A n \in DOMAIN moved : moved[n] \in Named \union {Blank},
           Post(s, type, moved)
    PROVE  WebhooksInv'
  <1>1. PICK shape \in Shapes : posted' = posted \union {Payload(s, type, shape, moved)}
    BY DEF Post, Shapes
  <1>2. IsPayload(Payload(s, type, shape, moved))
    BY <1>1 DEF IsPayload
  <1>3. UNCHANGED request
    BY DEF Post
  <1>4. PostedShaped'
    BY <1>1, <1>2 DEF WebhooksInv, PostedShaped
  <1> QED
    BY <1>3, <1>4 DEF WebhooksInv, RequestShaped

LEMMA LibraryKeeps ==
    ASSUME WebhooksInv, NEW s \in Sender, Imports(s) \/ Renames(s) \/ Deletes(s) \/ Chatters(s)
    PROVE  WebhooksInv'
  <1>1. Has(s) \subseteq Named
    BY DEF Has
  <1>2. CASE Imports(s)
    <2>1. PICK n \in Named \ Has(s) : Post(s, "Download", [k \in {n} |-> Blank])
      BY <1>2 DEF Imports
    <2> QED
      BY <2>1, PostKeeps DEF Types
  <1>3. CASE Renames(s)
    <2>1. PICK old \in SUBSET Has(s) \ {{}}, new \in SUBSET (Named \ Has(s)) :
             \E moved \in [new -> old] : Post(s, "Rename", moved)
      BY <1>3 DEF Renames
    <2>2. PICK moved \in [new -> old] : Post(s, "Rename", moved)
      BY <2>1
    <2> QED
      BY <1>1, <2>2, PostKeeps DEF Types
  <1>4. CASE Deletes(s)
    <2>1. PICK n \in Has(s) : Post(s, "Delete", [k \in {n} |-> Blank])
      BY <1>4 DEF Deletes
    <2> QED
      BY <1>1, <2>1, PostKeeps DEF Types
  <1>5. CASE Chatters(s)
    <2>1. PICK type \in {"Test", "Grab"} : Post(s, type, [k \in {} |-> Blank])
      BY <1>5 DEF Chatters
    <2> QED
      BY <2>1, PostKeeps DEF Types
  <1> QED
    BY <1>2, <1>3, <1>4, <1>5

LEMMA RequestKeeps ==
    ASSUME WebhooksInv,
           \/ ReceiveArrWebhook \/ Handle \/ ResolveEvent \/ IngestEvent \/ RetireEvent
           \/ RequestFails
    PROVE  WebhooksInv'
  <1>1. PostedShaped'
    BY DEF ReceiveArrWebhook, Handle, ResolveEvent, IngestEvent, RetireEvent, RequestFails,
       WebhooksInv, PostedShaped
  <1>2. CASE request' = NoRequest
    BY <1>1, <1>2 DEF NoRequest, WebhooksInv, RequestShaped
  <1>3. CASE ReceiveArrWebhook /\ request' # NoRequest
    <2>1. PICK e \in posted : Valid(e) /\ request' = [pc |-> "handle", event |-> e]
      BY <1>3 DEF ReceiveArrWebhook
    <2> QED
      BY <1>1, <2>1 DEF WebhooksInv, PostedShaped, RequestShaped
  <1>4. CASE Handle /\ request' # NoRequest
    BY <1>1, <1>4 DEF Handle, WebhooksInv, RequestShaped, ActedUpon
  <1>5. CASE ResolveEvent
    <2> DEFINE mappings == senders[request.event.from].mappings
    <2>1. /\ request.pc = "resolve"
          /\ request' = [pc |-> "act", event |-> request.event, mappings |-> mappings,
                         paths |-> ResolvePaths(mappings, request.event)]
      BY <1>5 DEF ResolveEvent
    <2>2. IsPayload(request.event) /\ Valid(request.event) /\ request.event.type \in ActedUpon
      BY <2>1 DEF WebhooksInv, RequestShaped
    <2>3. Promised(request.event, mappings, ResolvePaths(mappings, request.event))
      BY <2>2, EventResolves
    <2> HIDE DEF mappings
    <2>4. /\ request'.pc = "act" /\ request'.event = request.event
          /\ request'.mappings = mappings
          /\ request'.paths = ResolvePaths(mappings, request.event)
      BY <2>1
    <2> QED
      BY <1>1, <2>2, <2>3, <2>4 DEF WebhooksInv, RequestShaped
  <1> QED
    BY <1>2, <1>3, <1>4, <1>5 DEF IngestEvent, RetireEvent, RequestFails

LEMMA WebhooksStep == WebhooksInv /\ [WebhooksNext]_webhooksVars => WebhooksInv'
  <1> SUFFICES ASSUME WebhooksInv, [WebhooksNext]_webhooksVars PROVE WebhooksInv'
    OBVIOUS
  <1>1. CASE \/ UNCHANGED webhooksVars
             \/ \E s \in Sender : Reconfigures(s)
    BY <1>1 DEF webhooksVars, Reconfigures, WebhooksInv, PostedShaped, RequestShaped
  <1> QED
    BY <1>1, LibraryKeeps, RequestKeeps DEF WebhooksNext

\* What an event is acted upon for is what it names, and no deletion reaches a file
\* it does not name (ParseWebhook, parseWebhook, resolve): for every set of senders,
\* folders, names and mappings.
THEOREM EventReaches == WebhooksSpec => []EventReachesItsFiles
  <1>1. WebhooksInit => WebhooksInv
    BY DEF WebhooksInit, WebhooksInv, PostedShaped, RequestShaped, NoRequest
  <1>2. ASSUME WebhooksInv PROVE EventReachesItsFiles
    <2> SUFFICES ASSUME request.pc = "act"
                 PROVE  LET e == request.event IN
                        /\ Right(request.mappings, e.from) =>
                              request.paths = (IF e.shape = "windows" THEN {} ELSE FilesOf(e))
                        /\ e.type = "Delete" =>
                              request.paths \subseteq
                                 {ToLocal(request.mappings, Folder[e.from] \o n) : n \in NamesOf(e)}
      BY DEF EventReachesItsFiles
    <2> DEFINE e == request.event
    <2>1. IsPayload(e) /\ Promised(e, request.mappings, request.paths)
      BY <1>2 DEF WebhooksInv, RequestShaped
    <2>2. NamesOf(e) \subseteq Named
      <3>1. PICK moved : /\ DOMAIN moved \subseteq Named
                         /\ \A n \in DOMAIN moved : moved[n] \in Named \union {Blank}
                         /\ e.moved = moved
        BY <2>1 DEF IsPayload, Payload
      <3> QED
        BY <3>1 DEF NamesOf
    <2>3. Right(request.mappings, e.from) =>
             {ToLocal(request.mappings, Folder[e.from] \o n) : n \in NamesOf(e)} = FilesOf(e)
      BY <2>2 DEF Right, FilesOf
    <2> QED
      BY <2>1, <2>3 DEF Promised
  <1> QED
    BY <1>1, <1>2, WebhooksStep, PTL DEF WebhooksSpec
=============================================================================
