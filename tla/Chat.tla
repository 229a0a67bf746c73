-------------------------------- MODULE Chat --------------------------------
(***************************************************************************)
(* A room's conversation (internal/wsapi/room_chat.go, with what           *)
(* takeSeat, vacate and handleResume do to it) and the panel each client   *)
(* keeps of it (web/src/lib/stores/game-apply.js).  The room keeps a       *)
(* window of lines and replays to a seat what was said since it sat down;  *)
(* live lines are delivered with trySend, which a full outbox drops.       *)
(*                                                                         *)
(* A line is its number and who it is attributed to; `said` remembers who  *)
(* said it.  Frames to one client arrive in order (Session.tla), so a      *)
(* panel is shown as of the last frame queued for it.                      *)
(***************************************************************************)
EXTENDS Integers, SequencesExt, FiniteSetsExt

CONSTANTS
    Seat,              \* seatIDs: ids are reused by whoever sits down next
    chatHistoryLimit,  \* 20; CHAT_WINDOW in the client
    MaxLines,          \* bound: lines said in the life of the room
    Nobody

ASSUME ChatBounds ==
    /\ Seat \subseteq Nat /\ IsFiniteSet(Seat) /\ Seat # {}
    /\ chatHistoryLimit \in Nat \ {0} /\ MaxLines \in Nat
    /\ Nobody \notin Seat

VARIABLES
    held,      \* each seat: "free", "here" (a live socket), "closing", "away"
    chatFrom,  \* chatSeq when the seat was taken
    chat,      \* the room's window of lines: [seq, author]
    chatSeq,   \* lines accepted, ever
    said,      \* history: the seat that said each line
    panel,     \* each live connection's panel: [seq, author, fromMe]; what a client
               \* shows while it is cut off is replaced when it is back, so it is
               \* not kept
    lossless   \* history: no line has been dropped on the way to this panel
               \* since it was last replaced

vars == <<held, chatFrom, chat, chatSeq, said, panel, lossless>>

\* The last lines of a list, as many as the window holds.
window(s) == SubSeq(s, Max({1, Len(s) - chatHistoryLimit + 1}), Len(s))

\* chatMessageFor: one line from one seat's point of view.
chatMessageFor(line, s) ==
    [seq |-> line.seq, author |-> line.author, fromMe |-> line.author = s]

\* What sendChatHistory puts in a replay: the loop over the window, a line at a time.
history(lines, from, s) ==
    FoldLeft(LAMBDA messages, line :
                 IF line.seq > from THEN Append(messages, chatMessageFor(line, s)) ELSE messages,
             <<>>, lines)

Init ==
    LET owner == Min(Seat) IN
    /\ held = [s \in Seat |-> IF s = owner THEN "here" ELSE "free"]
    /\ chatFrom = [s \in Seat |-> 0]
    /\ chat = <<>> /\ chatSeq = 0 /\ said = <<>>
    /\ panel = [s \in Seat |-> <<>>]
    /\ lossless = [s \in Seat |-> TRUE]

\* The panels of the seats in S are out of reach.
cutOff(S) ==
    /\ panel' = [s \in Seat |-> IF s \in S THEN <<>> ELSE panel[s]]
    /\ lossless' = [s \in Seat |-> s \in S \/ lossless[s]]

\* Replays to the seats in R, `gone` having left; a seat whose outbox is full
\* (Full) is closed instead, and no later frame reaches it.
replay(R, Full, gone, lines, from, seats) ==
    /\ Full \subseteq R
    /\ held' = [s \in Seat |-> IF s \in Full THEN "closing" ELSE seats[s]]
    /\ panel' = [s \in Seat |-> IF s \in R \ Full THEN history(lines, from[s], s)
                                ELSE IF s \in Full \cup gone THEN <<>> ELSE panel[s]]
    /\ lossless' = [s \in Seat |-> s \in R \cup gone \/ lossless[s]]

connected == {s \in Seat : held[s] = "here"}

-----------------------------------------------------------------------------

\* handleChat, for a seat still bound to its connection, which may be closing: the
\* line is kept, the window trimmed, and every connection offered it; those in
\* `dropped` have a full outbox.  A client appends the line and trims its panel to
\* the same window.
handleChat(s, dropped) ==
    LET line == [seq |-> chatSeq + 1, author |-> s]
    IN  /\ held[s] \in {"here", "closing"} /\ chatSeq < MaxLines
        /\ dropped \subseteq connected
        /\ chatSeq' = chatSeq + 1
        /\ said' = Append(said, s)
        /\ chat' = window(Append(chat, line))
        /\ panel' = [t \in Seat |->
                       IF t \in connected \ dropped
                       THEN window(Append(panel[t], chatMessageFor(line, t)))
                       ELSE panel[t]]
        /\ lossless' = [t \in Seat |-> lossless[t] /\ t \notin dropped]
        /\ UNCHANGED <<held, chatFrom>>

\* handleJoin, through takeSeat: the conversation so far is not theirs to read,
\* and the empty history clears what the client held of another room.
handleJoin(s, Full) ==
    /\ held[s] = "free" /\ \E t \in Seat : held[t] # "free"
    /\ \A t \in Seat : t < s => held[t] # "free"
    /\ chatFrom' = [chatFrom EXCEPT ![s] = chatSeq]
    /\ replay({s}, Full, {}, chat, chatFrom', [held EXCEPT ![s] = "here"])
    /\ UNCHANGED <<chat, chatSeq, said>>

\* The same for a connection that has died by then: the seat is held, unread.
handleJoinDead(s) ==
    /\ held[s] = "free" /\ \E t \in Seat : held[t] # "free"
    /\ \A t \in Seat : t < s => held[t] # "free"
    /\ chatFrom' = [chatFrom EXCEPT ![s] = chatSeq]
    /\ held' = [held EXCEPT ![s] = "away"]
    /\ UNCHANGED <<chat, chatSeq, said, panel, lossless>>

handleDisconnect(s) ==
    /\ held[s] \in {"here", "closing"}
    /\ held' = [held EXCEPT ![s] = "away"]
    /\ cutOff({s})
    /\ UNCHANGED <<chatFrom, chat, chatSeq, said>>

\* handleResume: the replay is built from the room, whatever the client shows.
handleResume(s, Full) ==
    /\ held[s] \in {"here", "closing", "away"}
    /\ replay({s}, Full, {}, chat, chatFrom, [held EXCEPT ![s] = "here"])
    /\ UNCHANGED <<chatFrom, chat, chatSeq, said>>

\* Mutant of vacate: the words stay and so does the name.
vacateUnscrubbed(s, Full) ==
    /\ held[s] # "free"
    /\ Full = {}
    /\ held' = [held EXCEPT ![s] = "free"]
    /\ cutOff({s})
    /\ chatFrom' = [chatFrom EXCEPT ![s] = 0]
    /\ UNCHANGED <<chat, chatSeq, said>>

\* vacate, after a leave, a kick or an expired window: the words stay and the
\* attribution goes; if the window held any of this seat's lines, everybody who
\* is left gets a corrected replay.  An empty room closes.
vacate(s, Full) ==
    LET scrubbed == \E k \in DOMAIN chat : chat[k].author = s
        lines == [k \in DOMAIN chat |->
                    IF chat[k].author = s THEN [chat[k] EXCEPT !.author = Nobody] ELSE chat[k]]
        others == connected \ {s}
    IN  /\ held[s] # "free"
        /\ chat' = lines
        /\ replay(IF scrubbed THEN others ELSE {}, Full, {s}, lines, chatFrom,
                  [held EXCEPT ![s] = "free"])
        /\ chatFrom' = [chatFrom EXCEPT ![s] = 0]
        /\ UNCHANGED <<chatSeq, said>>

Next ==
    \/ \E s \in Seat, dropped \in SUBSET Seat : handleChat(s, dropped)
    \/ \E s \in Seat, Full \in SUBSET Seat :
          handleJoin(s, Full) \/ handleResume(s, Full) \/ vacate(s, Full)
    \/ \E s \in Seat : handleJoinDead(s) \/ handleDisconnect(s)

Spec == Init /\ [][Next]_vars

-----------------------------------------------------------------------------

\* Everybody a panel names is in the room, and has been since before the line.
namesThePresent(p) ==
    \A k \in DOMAIN p :
        LET author == p[k].author IN
        author # Nobody => held[author] # "free" /\ p[k].seq > chatFrom[author]

\* A client shows what it may and as the room has it.  Nothing on its panel was
\* said before it sat down; a line is marked as its own exactly when it said it,
\* never because a previous holder of its seat did; lines are in order, each once.
\* And unless a live line was dropped, the panel is the replay the room would
\* send at this moment, which names nobody who has gone: attribution included,
\* after any trimming of the windows, departures and reconnections.
PanelsAreTrue ==
    \A s \in connected :
        LET p == panel[s] IN
        /\ \A k \in DOMAIN p :
              /\ p[k].seq > chatFrom[s]
              /\ p[k].fromMe <=> said[p[k].seq] = s
              /\ \A m \in DOMAIN p : k < m => p[k].seq < p[m].seq
        /\ lossless[s] => p = history(chat, chatFrom[s], s) /\ namesThePresent(p)

\* "Without this re-sync they keep that attribution until they happen to reload":
\* no panel names somebody who is no longer in the room as the author of a line.
DepartedAreUnnamed == \A s \in connected : namesThePresent(panel[s])
=============================================================================
