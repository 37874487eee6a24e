----------------------------- MODULE SendEnvelope -----------------------------
(***************************************************************************)
(* TelethonSendStrategy (send.py): one send after another, each through     *)
(* preparation, an envelope of attempts under the stall watchdog,           *)
(* reconnects and waits, and sometimes a second envelope with converted     *)
(* images or as a native album.  Videos and documents go up over            *)
(* FastUpload; everything else is one request.                              *)
(*                                                                          *)
(* Telegram and the network are the environment: any request may be         *)
(* refused, break, or hang.  What the drain makes of a result is            *)
(* Dispatcher's subject.                                                    *)
(***************************************************************************)
EXTENDS FastUpload

CONSTANTS MaxRetries,      \* attempts of one envelope
          AlbumItems       \* videos in an album

ASSUME SendAssumption == MaxRetries \in Nat \ {0} /\ AlbumItems \in Nat \ {0}

Client == {"primary", "burner"}

\* send of a video, a photo, a kept original; send_album of each composition.
Kind == {"video", "photo", "original", "videos", "photos", "mixed", "originals"}
Images == {"photo", "photos", "mixed"}

VARIABLES
    call,       \* the send in hand
    link,       \* "up" | "down": the connection of the account that sends
    burnerUp,   \* the burner's client has been built
    revoked,    \* sessions Telegram was found to have ended
    temps,      \* temporary files of this send
    leaked      \* history: a preparation was cancelled while it made one

vars == <<call, link, burnerUp, revoked, temps, leaked, uploadVars>>

Rejections == {"image", "oversize", "empty"}

\* pc: what the coroutine is at; to: the account the chat is dedicated to;
\* err: what the attempt raised; round: the envelope, its second one is a
\* fallback; ups: files uploaded in this attempt; posts, lost: what reached the
\* chat, and how much of that was never acknowledged.
NoCall == [pc |-> "idle", kind |-> "video", to |-> "primary", active |-> "primary",
           attempts |-> 0, round |-> 1, native |-> FALSE, ups |-> 0,
           whole |-> TRUE,           err |-> "none", result |-> "none", stopping |-> FALSE, posts |-> 0, lost |-> 0]

Init == /\ call = NoCall /\ link = "up" /\ burnerUp = FALSE
        /\ revoked = {} /\ temps = {} /\ leaked = FALSE
        /\ UploadInit

At(pc) == call.pc = pc
Goto(pc) == call' = [call EXCEPT !.pc = pc]

-----------------------------------------------------------------------------
(* Before the first attempt *)

BeginSend == /\ At("idle")
             /\ \E k \in Kind, c \in Client :
                   call' = [NoCall EXCEPT !.pc = "route", !.kind = k, !.to = c]
             /\ UNCHANGED <<link, burnerUp, revoked, temps, leaked, uploadVars>>

\* _client_for.  The burner is connected on first use; if it cannot be, the
\* primary sends.  Whichever it is, its connection may have broken meanwhile.
Route ==
    /\ At("route")
    /\ \E c \in {call.to, "primary"} :
          /\ call' = [call EXCEPT !.pc = "prepare", !.active = c, !.to = "primary"]
          /\ c = "burner" => burnerUp \/ "burner" \notin revoked
          /\ c # call.to => ~burnerUp
          /\ burnerUp' = (burnerUp \/ c = "burner")
          /\ link' \in {"up", "down"}
    /\ UNCHANGED <<revoked, temps, leaked, uploadVars>>

\* The file is not there, or its drive is not.
FileMissing ==
    /\ At("prepare") /\ call.kind \in {"video", "photo", "original"}
    /\ call' = [call EXCEPT !.pc = "cleanup", !.result = "error"]
    /\ UNCHANGED <<link, burnerUp, revoked, temps, leaked, uploadVars>>

\* The streamable copy of a video, the safe copy of a photo; a photo that cannot
\* be made one is sent as a document.
Prepare ==
    /\ At("prepare")
    /\ \E made \in SUBSET (CASE call.kind = "video" -> {"prepped"}
                             [] call.kind = "photo" -> {"photo"}
                             [] call.kind \in {"photos", "mixed"} -> {"album"}
                             [] OTHER -> {}) :
          /\ temps' = temps \cup made
          /\ \E k \in {call.kind} \cup (IF call.kind = "photo" /\ made = {}
                                        THEN {"original"} ELSE {}) :
                call' = [call EXCEPT !.kind = k,
                                     !.pc = IF k = "video" THEN "poster" ELSE "attempt"]
    /\ UNCHANGED <<link, burnerUp, revoked, leaked, uploadVars>>

Poster == /\ At("poster") /\ Goto("attempt")
          /\ \E made \in SUBSET {"thumb"} : temps' = temps \cup made
          /\ UNCHANGED <<link, burnerUp, revoked, leaked, uploadVars>>

-----------------------------------------------------------------------------
(* One attempt *)

\* These go through _upload_document.
Uploads == call.kind \in {"video", "original"} \/ (call.kind = "videos" /\ ~call.native)
Files == IF call.kind = "videos" THEN AlbumItems ELSE 1

Raise(e) == call' = [call EXCEPT !.pc = "raised", !.err = e]

\* FAST_ALBUM=0, or Telethon's internals moved: the album is sent natively.
Attempt ==
    /\ At("attempt")
    /\ \/ Uploads /\ call' = [call EXCEPT !.pc = "file", !.ups = 0, !.whole = TRUE]
       \/ ~Uploads /\ Goto("request")
       \/ /\ call.kind = "videos" /\ ~call.native /\ call.attempts = 0
          /\ call' = [call EXCEPT !.pc = "request", !.native = TRUE]
    /\ UNCHANGED <<link, burnerUp, revoked, temps, leaked, uploadVars>>

\* The next file: refused before its first byte, small, or big.
NextFile ==
    /\ At("file")
    /\ \/ Raise("oversize") /\ UNCHANGED uploadVars
       \/ Goto("serial") /\ UNCHANGED uploadVars
       \/ Goto("parallel") /\ StartUpload
    /\ UNCHANGED <<link, burnerUp, revoked, temps, leaked>>

\* The parallel upload is over: by its handle; by an error, and then the file
\* goes up serially; or because it was cancelled.
Uploaded == IF call.kind = "videos" THEN "materialize" ELSE "request"

Parallel ==
    /\ call.pc \in {"parallel", "unwind"}
    /\ EndUpload
    /\ CASE up.why = "handle" -> call' = [call EXCEPT !.pc = Uploaded, !.ups = @ + 1,
                                                       !.whole = @ /\ up.readable = Parts]
         [] up.why = "error" -> Goto("serial")
         [] OTHER -> Goto(IF call.stopping THEN "cleanup" ELSE "raised")
    /\ UNCHANGED <<link, burnerUp, revoked, temps, leaked>>

\* Telegram will do what it is asked.
Reachable == link = "up" /\ call.active \notin revoked

Serial ==
    /\ At("serial") /\ Reachable
    /\ call' = [call EXCEPT !.pc = Uploaded, !.ups = @ + 1]
    /\ UNCHANGED <<link, burnerUp, revoked, temps, leaked, uploadVars>>

\* UploadMedia: Telegram makes a document of an album's video.
Materialize ==
    /\ At("materialize") /\ Reachable /\ call.whole
    /\ Goto(IF call.ups < Files THEN "file" ELSE "request")
    /\ UNCHANGED <<link, burnerUp, revoked, temps, leaked, uploadVars>>

\* send_file, SendMultiMedia: Telegram posts, and says so.
Posted ==
    /\ At("request") /\ Reachable /\ call.whole
    /\ call' = [call EXCEPT !.pc = "raised", !.err = "none", !.posts = @ + 1]
    /\ UNCHANGED <<link, burnerUp, revoked, temps, leaked, uploadVars>>

\* It posts, and the answer is lost.
AnswerLost ==
    /\ At("request") /\ Reachable /\ call.whole
    /\ \E e \in {"network", "stall"} :
          call' = [call EXCEPT !.pc = "raised", !.err = e, !.posts = @ + 1, !.lost = @ + 1]
    /\ link' = "down"
    /\ UNCHANGED <<burnerUp, revoked, temps, leaked, uploadVars>>

Errors == {"network", "flood", "floodcap", "other", "auth"} \cup
          (IF call.kind \in Images THEN {"image", "empty"} ELSE {"empty", "oversize"})

\* A request of the client fails: at once if the client is not connected.
RequestFails ==
    /\ call.pc \in {"serial", "materialize", "request"}
    /\ \E e \in Errors :
          /\ Raise(e)
          /\ link = "down" => e = "network"
          /\ revoked' = revoked \cup {c \in {call.active} : e = "auth"}
          /\ link' = IF e = "network" THEN "down" ELSE link
    /\ UNCHANGED <<burnerUp, temps, leaked, uploadVars>>

\* The parallel upload moves on, or fails in part.
UploadMoves == /\ call.pc \in {"parallel", "unwind"} /\ UploadStep
               /\ UNCHANGED <<call, link, burnerUp, revoked, temps, leaked>>

UploadTrouble == /\ call.pc \in {"parallel", "unwind"} /\ UploadFault
                 /\ UNCHANGED <<call, link, burnerUp, revoked, temps, leaked>>

\* _run_with_stall_watchdog: no tick for too long.  It cancels the attempt and
\* waits for it to end.
Stall ==
    /\ \/ call.pc \in {"serial", "materialize", "request"} /\ Raise("stall") /\ UNCHANGED uploadVars
       \/ /\ At("parallel") /\ (Awaiting \/ Stuck \/ up.wedged)
          /\ call' = [call EXCEPT !.pc = "unwind", !.err = "stall"]
          /\ CancelUpload
    /\ UNCHANGED <<link, burnerUp, revoked, temps, leaked>>

-----------------------------------------------------------------------------
(* The envelope: _send_with_retries *)

StallsUncounted == {"network", "other"}    \* mutant: a stall does not use up an attempt
Counted == {"stall", "network", "other"}

\* A server-side wait that is short enough is slept out, and not counted.
SleepsFlood ==
    /\ At("raised") /\ call.err = "flood"
    /\ call' = [call EXCEPT !.pc = "attempt", !.err = "none", !.whole = TRUE]
    /\ UNCHANGED <<link, burnerUp, revoked, temps, leaked, uploadVars>>

\* Success, or an answer no retry can change.
Surfaces ==
    /\ At("raised") /\ call.err \in {"none", "floodcap"} \cup Rejections
    /\ call' = [call EXCEPT !.pc = "after", !.err = "none",
                               !.result = IF call.err = "none" THEN "ok" ELSE call.err]
    /\ UNCHANGED <<link, burnerUp, revoked, temps, leaked, uploadVars>>

\* SessionUnauthorized leaves the drain: the daemon stops.
DiesUnauthorized ==
    /\ At("raised") /\ call.err = "auth"
    /\ call' = [call EXCEPT !.pc = "cleanup", !.result = "auth", !.stopping = TRUE]
    /\ UNCHANGED <<link, burnerUp, revoked, temps, leaked, uploadVars>>

\* A counted failure: a stall reconnects always, an error of the network if
\* another attempt follows.
Counts ==
    /\ At("raised") /\ call.err \in {"stall", "network", "other"}
    /\ LET n == call.attempts + (IF call.err \in Counted THEN 1 ELSE 0)
           again == n < MaxRetries
       IN call' = [call EXCEPT !.attempts = n, !.err = "none", !.whole = TRUE,
                     !.result = IF again THEN @ ELSE "error",
                     !.pc = IF call.err = "stall" \/ (call.err = "network" /\ again) THEN "reconnect"
                            ELSE IF again THEN "attempt" ELSE "after"]
    /\ UNCHANGED <<link, burnerUp, revoked, temps, leaked, uploadVars>>

\* _force_reconnect: both halves are bound by a deadline, and may fail.
Reconnect ==
    /\ At("reconnect")
    /\ link' \in {"up", "down"}
    /\ Goto(IF call.attempts < MaxRetries THEN "attempt" ELSE "after")
    /\ UNCHANGED <<burnerUp, revoked, temps, leaked, uploadVars>>

-----------------------------------------------------------------------------
(* After the envelope *)

Envelope2 == [call EXCEPT !.pc = "attempt", !.round = 2, !.attempts = 0,
                          !.err = "none", !.result = "none"]

AlwaysConverts == call.round = 1      \* mutant: whatever the first envelope returned
Converts == call.round = 1 /\ call.result = "image"

\* An image Telegram cannot process is converted, and sent once more.
ConvertPhoto ==
    /\ At("after") /\ Converts /\ call.kind = "photo"
    /\ \/ call' = Envelope2 /\ temps' = {"safe"}
       \/ Goto("cleanup") /\ temps' = {}
    /\ UNCHANGED <<link, burnerUp, revoked, leaked, uploadVars>>

ConvertAlbum ==
    /\ At("after") /\ Converts /\ call.kind = "photos"
    /\ call' = Envelope2
    /\ \E made \in SUBSET {"safe"} : temps' = temps \cup made
    /\ UNCHANGED <<link, burnerUp, revoked, leaked, uploadVars>>

\* The fast group is rejected: once more, as a native album.
FallBack ==
    /\ At("after") /\ call.result = "empty" /\ call.kind = "videos" /\ ~call.native
    /\ call' = [Envelope2 EXCEPT !.native = TRUE]
    /\ UNCHANGED <<link, burnerUp, revoked, temps, leaked, uploadVars>>

Conclude ==
    /\ At("after") /\ Goto("cleanup")
    /\ ~(Converts /\ call.kind \in {"photo", "photos"})
    /\ ~(call.result = "empty" /\ call.kind = "videos" /\ ~call.native)
    /\ UNCHANGED <<link, burnerUp, revoked, temps, leaked, uploadVars>>

Cleanup ==
    /\ At("cleanup")
    /\ temps' = {}
    /\ call' = IF call.stopping THEN [NoCall EXCEPT !.pc = "stopped", !.result = call.result,
                                                    !.active = call.active]
               ELSE NoCall
    /\ UNCHANGED <<link, burnerUp, revoked, leaked, uploadVars>>

-----------------------------------------------------------------------------
(* Shutdown, restart, and the account *)

\* The grace after a signal is over, and the send is cancelled.  A conversion
\* under way goes on in its thread: nobody unlinks what it makes, and send has
\* not reached the block that unlinks what it made.
Shutdown ==
    /\ call.pc \notin {"idle", "cleanup", "stopped"} /\ ~call.stopping
    /\ IF call.pc \in {"prepare", "poster"}
       THEN /\ call' = [call EXCEPT !.pc = "stopped", !.stopping = TRUE]
            /\ leaked' = TRUE /\ UNCHANGED uploadVars
       ELSE /\ UNCHANGED leaked
            /\ IF call.pc \in {"parallel", "unwind"}
               THEN call' = [call EXCEPT !.pc = "unwind", !.stopping = TRUE] /\ CancelUpload
               ELSE /\ call' = [call EXCEPT !.pc = "cleanup", !.stopping = TRUE]
                    /\ UNCHANGED uploadVars
    /\ UNCHANGED <<link, burnerUp, revoked, temps>>

\* A new strategy; without a session for the primary the daemon refuses to run.
Restart ==
    /\ At("stopped") /\ "primary" \notin revoked
    /\ call' = NoCall /\ link' = "up" /\ burnerUp' = FALSE
    /\ temps' = {} /\ leaked' = FALSE
    /\ UNCHANGED <<revoked, uploadVars>>

Work ==
    \/ Route \/ FileMissing \/ Prepare \/ Poster
    \/ Attempt \/ NextFile \/ Parallel \/ Serial \/ Materialize \/ Posted
    \/ AnswerLost \/ RequestFails \/ UploadMoves \/ UploadTrouble \/ Stall
    \/ SleepsFlood \/ Surfaces \/ DiesUnauthorized \/ Counts \/ Reconnect
    \/ ConvertPhoto \/ ConvertAlbum \/ FallBack \/ Conclude \/ Cleanup

Next == Work \/ BeginSend \/ Shutdown \/ Restart

Spec == Init /\ [][Next]_vars

\* The event loop runs; the deadlines of the watchdog and of the reconnect make
\* sure that something comes of every request.
FairSpec == Spec /\ WF_vars(Work)

-----------------------------------------------------------------------------
(* Properties *)

TypeOK ==
    /\ UploadTypeOK
    /\ call.kind \in Kind /\ call.to \in Client /\ call.active \in Client
    /\ call.attempts \in 0..MaxRetries
    /\ call.round \in 1..2 /\ call.ups \in 0..AlbumItems
    /\ link \in {"up", "down"} /\ burnerUp \in BOOLEAN /\ revoked \subseteq Client
    /\ temps \subseteq {"prepped", "photo", "thumb", "album", "safe"}
    /\ leaked \in BOOLEAN

\* When an attempt is over, however it ended, none of its tasks runs and none of
\* its connections is open: no reconnect, retry or serial fallback races a live
\* upload.
UploadEndsWithAttempt ==
    call.pc \notin {"parallel", "unwind"} =>
        up.open = 0 /\ \A c \in Consumer : consumer[c].pc \in {"off", "done"}

\* The upload yields its handle only when Telegram has confirmed every part that
\* was read.
HandleMeansAllParts ==
    up.phase = "close" /\ up.why = "handle" => acked = 1..up.readable

\* Producer and consumers never all wait on the bounded queue: the watchdog
\* trips on the network only.
PipelineMoves == ~Stuck

\* A send that returns has reached the chat once if it reports success, and not
\* at all if it does not; each lost answer adds at most one copy.
CopiesAreExplained ==
    At("cleanup") /\ call.result # "none" =>
        call.posts = call.lost + (IF call.result = "ok" THEN 1 ELSE 0)

\* No temporary file survives its send, whichever way the send ends, but for a
\* shutdown while one is being made.
TempsAreGone == call.pc \in {"idle", "stopped"} /\ ~leaked => temps = {}

FloodedForever == []<>(At("raised") /\ call.err = "flood")

\* Every send returns: stalls, network errors and fallbacks use up a budget.
\* (Not when Telegram asks to wait for ever, nor when a connection hangs in its
\* disconnect after the watchdog tripped.)
SendReturns == FloodedForever \/ (At("route") ~> \/ call.pc \in {"idle", "stopped"}
                                                 \/ At("unwind") /\ up.wedged)

\* A wedged connection is caught in minutes (_run_with_stall_watchdog).
WatchdogFreesSend == At("unwind") ~> ~At("unwind")

\* The burner's absence never blocks delivery (_client_for): what happens to its
\* account does not stop the daemon.
BurnerNeverStopsDaemon == At("stopped") /\ call.result = "auth" => call.active = "primary"
=============================================================================
