---------------------------- MODULE FileRequests ----------------------------
(***************************************************************************)
(* The page's requests for directories and files: api/tree.py,             *)
(* api/files.py and the home request of api/hosts.py, through the SFTP     *)
(* client (ssh/sftp_client.py), on top of the connection pool.             *)
(*                                                                         *)
(* An SFTP operation asks the pool for the host's connection, takes one of *)
(* the host's channel permits, uses a channel and gives the permit back.   *)
(* A request is a few operations in a row; what its handler does between   *)
(* two of them has no await and belongs to the step that ends the first.   *)
(***************************************************************************)
EXTENDS ConnectionPool

CONSTANTS
    Wanted,      \* the requests that are made: pairs of a host and an endpoint
    MaxChannels  \* max_sftp_channels

ASSUME Requests ==
    /\ Wanted \subseteq Hosts \X {"tree", "file", "stat", "download", "home"}
    /\ MaxChannels \in Nat \ {0}

VARIABLES
    page,     \* the endpoint that serves each task's request
    on,       \* the host of the request
    stage,    \* the operation the request has come to
    channel,  \* where the operation is that has its connection
    reply,    \* status of the last answer, 0 while there is none
    permits,  \* _sftp_semaphores: free permits of each host
    line      \* _sftp_semaphores: the waiters, first come first served

requests == <<page, on, stage, channel, reply>>
sftp     == <<permits, line>>
fileVars == <<vars, requests, sftp>>

FileInit ==
    /\ Init
    /\ page = [t \in Tasks |-> "none"]
    /\ on = [t \in Tasks |-> NoHost]
    /\ stage = [t \in Tasks |-> "none"]
    /\ channel = [t \in Tasks |-> "none"]
    /\ reply = [t \in Tasks |-> 0]
    /\ permits = [h \in Hosts |-> MaxChannels]
    /\ line = [h \in Hosts |-> <<>>]

-----------------------------------------------------------------------------
(* The course of a request. *)

\* The paths of tree, file, stat and download are resolved first.
FirstStage(e) == IF e = "home" THEN "look" ELSE "resolve"

Request(t, h, e) ==
    /\ page[t] = "none"
    /\ Call(t, h)
    /\ page' = [page EXCEPT ![t] = e]
    /\ on' = [on EXCEPT ![t] = h]
    /\ stage' = [stage EXCEPT ![t] = FirstStage(e)]
    /\ reply' = [reply EXCEPT ![t] = 0]
    /\ UNCHANGED <<channel, sftp>>

\* The next operation calls get_connection again, in the same step.
Operation(t, s) ==
    /\ pc' = [pc EXCEPT ![t] = "calling"]
    /\ at' = [at EXCEPT ![t] = on[t]]
    /\ target' = [target EXCEPT ![t] = on[t]]
    /\ result' = [result EXCEPT ![t] = "none"]
    /\ stage' = [stage EXCEPT ![t] = s]
    /\ channel' = [channel EXCEPT ![t] = "none"]
    /\ UNCHANGED <<offered, keyKnown, page, on>>

\* The handler is through; a transfer that fails was answered before.
Answered(t, status) ==
    /\ pc' = [pc EXCEPT ![t] = "idle"]
    /\ target' = [target EXCEPT ![t] = NoHost]
    /\ page' = [page EXCEPT ![t] = "none"]
    /\ on' = [on EXCEPT ![t] = NoHost]
    /\ stage' = [stage EXCEPT ![t] = "none"]
    /\ channel' = [channel EXCEPT ![t] = "none"]
    /\ reply' = [reply EXCEPT ![t] = IF stage[t] = "stream" THEN 200 ELSE status]
    /\ UNCHANGED <<at, offered, keyKnown, result>>

-----------------------------------------------------------------------------
(* What the handlers catch. *)

\* PasswordRequiredError is a ConnectionError.
ConnectionErrors == {"password_required", "denied", "error"}

\* resolve_and_validate falls back on the path as it was typed.
Swallowed(t, r) == stage[t] = "resolve" /\ r \in ConnectionErrors \cup {"sftp"}

StatusWithoutPrompt(e, r) ==  \* mutant: the second try of the tree catches less
    CASE r = "sftp" -> 503
      [] r = "host_key_unknown" /\ e \in {"tree", "file", "home"} -> 419
      [] r = "password_required" /\ e \in {"file", "home"} -> 401
      [] r \in {"denied", "error"} /\ e \in {"tree", "home"} -> 503
      [] OTHER -> 500

\* The except clauses around the operations after the first.  An exception that
\* none of them catches is an internal error.  503 stands for 403 and 404 too.
Status(e, r) ==
    CASE r = "sftp" -> 503
      [] r = "host_key_unknown" /\ e \in {"tree", "file", "home"} -> 419
      [] r = "password_required" /\ e \in {"tree", "file", "home"} -> 401
      [] r \in {"denied", "error"} /\ e \in {"tree", "home"} -> 503
      [] OTHER -> 500

\* An operation has raised r, in get_connection or on its channel.
Fails(t, r) ==
    IF Swallowed(t, r) THEN Operation(t, "look") /\ UNCHANGED reply
    ELSE Answered(t, IF stage[t] = "resolve" THEN 419 ELSE Status(page[t], r))

\* A file is read into memory before the answer, or streamed after it; very large
\* files, and directories asked for as files, are refused.
Succeeds(t) ==
    CASE stage[t] = "resolve" -> Operation(t, "look") /\ UNCHANGED reply
      [] stage[t] = "look" /\ page[t] \in {"file", "download"} ->
            \/ page[t] = "file" /\ Operation(t, "read") /\ UNCHANGED reply
            \/ Operation(t, "stream") /\ reply' = [reply EXCEPT ![t] = 200]
            \/ Answered(t, 413)
      [] OTHER -> Answered(t, 200)

-----------------------------------------------------------------------------
(* The semaphore and the channel. *)

\* asyncio.Semaphore passes a permit straight on to its first waiter.
Release(h) ==
    IF line[h] = <<>> THEN permits' = [permits EXCEPT ![h] = @ + 1] /\ UNCHANGED line
    ELSE line' = [line EXCEPT ![h] = Tail(@)] /\ UNCHANGED permits

InLine(t) == \E i \in DOMAIN line[on[t]] : line[on[t]][i] = t

TakeAtOnce(t) ==  \* mutant: nobody queues
    /\ page[t] # "none" /\ result[t] = "connection"
    /\ End(t)
    /\ permits' = [permits EXCEPT ![on[t]] = @ - 1]
    /\ channel' = [channel EXCEPT ![t] = "open"]
    /\ UNCHANGED <<line, page, on, stage, reply, auth>>

\* get_connection has returned: `async with sem`.
Take(t) ==
    /\ page[t] # "none" /\ result[t] = "connection"
    /\ End(t)
    /\ LET h == on[t] IN
       IF permits[h] > 0
         THEN /\ permits' = [permits EXCEPT ![h] = @ - 1]
              /\ channel' = [channel EXCEPT ![t] = "open"]
              /\ UNCHANGED line
         ELSE /\ line' = [line EXCEPT ![h] = Append(@, t)]
              /\ channel' = [channel EXCEPT ![t] = "queued"]
              /\ UNCHANGED permits
    /\ UNCHANGED <<page, on, stage, reply, auth>>

Raised(t) ==
    /\ page[t] # "none" /\ pc[t] = "returned" /\ result[t] # "connection"
    /\ Fails(t, result[t])
    /\ UNCHANGED <<locks, pool, auth, sftp>>

\* A queued task goes on with the permit it was passed.
Admitted(t) ==
    /\ channel[t] = "queued" /\ Undisturbed(t)
    /\ ~InLine(t)
    /\ channel' = [channel EXCEPT ![t] = "open"]
    /\ UNCHANGED <<vars, page, on, stage, reply, sftp>>

ChannelEndsHolding(t) ==  \* mutant: a failure skips the release
    /\ channel[t] = "open" /\ Undisturbed(t)
    /\ \/ Succeeds(t) /\ Release(on[t])
       \/ Fails(t, "sftp") /\ UNCHANGED sftp
    /\ UNCHANGED <<locks, pool, auth>>

\* It fails when the server says so, or when the connection was lost or evicted
\* after the operation got it.
ChannelEnds(t) ==
    /\ channel[t] = "open" /\ Undisturbed(t)
    /\ Release(on[t])
    /\ Succeeds(t) \/ Fails(t, "sftp")
    /\ UNCHANGED <<locks, pool, auth>>

FileStep(t) ==
    \/ \E w \in Wanted : Request(t, w[1], w[2])
    \/ Take(t) \/ Raised(t) \/ Admitted(t) \/ ChannelEnds(t)

FileNext ==
    \/ \E t \in Tasks : FileStep(t) \/ (Step(t) /\ UNCHANGED <<requests, sftp>>)
    \/ /\ Quiet
       /\ \E h \in Hosts :
            \/ \E p \in Passwords : SetPassword(h, p)
            \/ ClearPassword(h)
            \/ TrustHostKey(h)
            \/ Lost(h)
       /\ UNCHANGED <<requests, sftp>>

FileSpec == FileInit /\ [][FileNext]_fileVars
-----------------------------------------------------------------------------
(* Properties *)

\* The requests' variables have their types; a task that waits for a permit or
\* has one is not in get_connection.
FilesTypeOK ==
    /\ page \in [Tasks -> {w[2] : w \in Wanted} \cup {"none"}]
    /\ on \in [Tasks -> Hosts \cup {NoHost}]
    /\ stage \in [Tasks -> {"none", "resolve", "look", "read", "stream"}]
    /\ channel \in [Tasks -> {"none", "queued", "open"}]
    /\ reply \in [Tasks -> {0, 200, 401, 413, 419, 500, 503}]
    /\ permits \in [Hosts -> 0..MaxChannels] /\ line \in [Hosts -> Seq(Tasks)]
    /\ \A t \in Tasks :
         /\ page[t] = "none" <=> on[t] = NoHost
         /\ channel[t] # "none" => page[t] # "none" /\ pc[t] = "idle"
         /\ page[t] # "none" => pc[t] # "idle" \/ channel[t] # "none"

HoldsPermit(t) == channel[t] = "open" \/ (channel[t] = "queued" /\ ~InLine(t))

\* "Limit concurrent SFTP file reads per host": whatever operations fail, and
\* however often the host's connection is lost, evicted and made anew, no permit
\* is lost and none is given out twice.
PermitsConserved == \A h \in Hosts :
    permits[h] + Cardinality({t \in Tasks : on[t] = h /\ HoldsPermit(t)}) = MaxChannels

WaitsForLock(t) == pc[t] = "waiting" /\ owner[at[t]] # Free

WaitsForPermit(t) == channel[t] = "queued" /\ InLine(t)

\* A task waits only for what another task really has, and not all of them wait:
\* the locks of nested calls, unwound by exceptions, and the permits, taken
\* after the locks were released, leave nobody waiting for ever.
SomebodyGoesOn ==
    /\ \A t \in Tasks : WaitsForLock(t) => pc[owner[at[t]]] \notin {"idle", "returned"}
    /\ \A t \in Tasks : WaitsForPermit(t) => permits[on[t]] = 0
    /\ (\E t \in Tasks : WaitsForLock(t) \/ WaitsForPermit(t)) =>
         \E t \in Tasks : page[t] # "none" /\ ~WaitsForLock(t) /\ ~WaitsForPermit(t)

\* "Error taxonomy must reach the UI", for the page's own tree and home: whatever
\* happened to the connection, the password or the key during the request.
TreeAnswersInTaxonomy == [][\A t \in Tasks :
    page[t] \in {"tree", "home"} /\ page'[t] = "none" => reply'[t] # 500]_fileVars

\* "Error taxonomy must reach the UI from *every* host-scoped call".
EveryAnswerInTaxonomy == \A t \in Tasks : reply[t] # 500
=============================================================================
