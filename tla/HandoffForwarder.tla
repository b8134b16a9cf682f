-------------------------- MODULE HandoffForwarder --------------------------
(***************************************************************************)
(* The handoff forwarder (src/handoff_server/forwarder_coroutine.py): a     *)
(* coroutine on the home node A that retrieves a segment handed off to the *)
(* substitute node B from B's reader and re-archives it, sequence by        *)
(* sequence, on A's writer.  The coroutine is a state machine whose state  *)
(* is the yield it is suspended at (pc); each action runs it from one      *)
(* yield to the next, fed the reply its driver got.                        *)
(*                                                                         *)
(* B's reader is the DataReaderService model of data_reader_main.py,      *)
(* instantiated for the one conjoined part of the segment.  Requests to    *)
(* it go through the forwarder's reader_client, a resilient client, and    *)
(* may be handled twice (MaxDuplicates).  The coroutine's retrieve         *)
(* messages carry no segment-conjoined-part (lines 30-35 and 107-112), and *)
(* neither reader_client nor the resilient client adds one, so B's         *)
(* _handle_retrieve_key_start raises KeyError on the start and never       *)
(* answers it: the coroutine stays suspended at its first yield.           *)
(*                                                                         *)
(* A's writer is not in the repository; it follows spec 4.2: it stores the *)
(* sequence rows an archive message carries under the message's            *)
(* sequence-num and finalizes the segment on archive-key-entire or         *)
(* archive-key-final, or fails the message (MaxWriterFaults) storing       *)
(* nothing.  Each archive message is handled once.                         *)
(***************************************************************************)
EXTENDS Naturals, Sequences

CONSTANTS
    Part,             \* segment_row's conjoined part on B
    MaxSequences,     \* most sequence rows of the segment
    MaxDuplicates,    \* reader requests handled a second time
    MaxFaults,        \* failed reads on B
    MaxWriterFaults   \* archive messages A's writer fails

VARIABLES
    RowCount, activeRequests, requests, replies, duplicates, faults,
    nextId,          \* reader_client message ids used
    readerWaiting,   \* id of the retrieve request the coroutine waits on
    pc,              \* the yield the coroutine is suspended at
    sequence,        \* the coroutine's sequence counter
    completed,       \* completed flag of the last retrieve reply
    toWriter,        \* archive message on its way to A's writer
    writerReplies,   \* archive replies on their way back
    archived,        \* sequence rows stored on A: <<sequence-num, data>>
    finalized,       \* A's writer finalized the segment
    writerFaults     \* archive messages failed

Reader == INSTANCE DataReaderService WITH Parts <- {Part}

readerVars == <<RowCount, activeRequests, requests, replies, nextId, duplicates,
                faults, readerWaiting>>
fwdVars == <<pc, sequence, completed>>
writerVars == <<toWriter, writerReplies, archived, finalized, writerFaults>>
vars == <<readerVars, fwdVars, writerVars>>

Init ==
    /\ Reader!ServiceInit
    /\ nextId = 0
    /\ readerWaiting = 0
    /\ pc = "start"
    /\ sequence = 0
    /\ completed = FALSE
    /\ toWriter = {}
    /\ writerReplies = {}
    /\ archived = {}
    /\ finalized = FALSE
    /\ writerFaults = 0

-----------------------------------------------------------------------------
(* reader_client.queue_message_for_send of a message without a           *)
(* segment-conjoined-part: a new message id, whose reply the coroutine     *)
(* yields for.                                                             *)
QueueRetrieve(type) ==
    /\ nextId' = nextId + 1
    /\ readerWaiting' = nextId + 1
    /\ requests' = requests \cup {[id |-> nextId + 1, type |-> type,
                                   part |-> Reader!NoPart]}

(* writer_client.queue_message_for_send(message, data=data) *)
SendArchive(verb, seq, data) ==
    toWriter' = {[verb |-> verb, seq |-> seq, data |-> data]}

(* Start: queue retrieve-key-start and yield for its reply. *)
Start ==
    /\ pc = "start"
    /\ QueueRetrieve("retrieve-key-start")
    /\ pc' = "retrieve1"
    /\ UNCHANGED <<RowCount, activeRequests, replies, duplicates, faults,
                   sequence, completed, writerVars>>

(* The first retrieve reply: assert success, sequence = 1, and archive    *)
(* the data with archive-key-entire if completed, else archive-key-start. *)
FirstRetrieveReply ==
    \E r \in replies :
       /\ pc = "retrieve1"
       /\ r.id = readerWaiting
       /\ replies' = replies \ {r}
       /\ \/ /\ r.result # "success"
             /\ pc' = "aborted"
             /\ UNCHANGED <<sequence, completed, toWriter>>
          \/ /\ r.result = "success"
             /\ completed' = r.completed
             /\ sequence' = 1
             /\ SendArchive(IF r.completed THEN "archive-key-entire"
                                           ELSE "archive-key-start", 1, r.data)
             /\ pc' = "archive1"
       /\ UNCHANGED <<RowCount, activeRequests, requests, nextId, duplicates,
                      faults, readerWaiting, writerReplies, archived, finalized,
                      writerFaults>>

(* sequence += 1; queue retrieve-key-next and yield for its reply. *)
RequestNext ==
    /\ sequence' = sequence + 1
    /\ QueueRetrieve("retrieve-key-next")
    /\ pc' = "retrieveN"

(* The reply to the first archive message.  After archive-key-entire the  *)
(* coroutine yields its result without looking at the reply; after        *)
(* archive-key-start it asserts success and enters the loop.              *)
FirstArchiveReply ==
    \E w \in writerReplies :
       /\ pc = "archive1"
       /\ writerReplies' = writerReplies \ {w}
       /\ \/ /\ completed
             /\ pc' = "done"
             /\ UNCHANGED <<sequence, requests, nextId, readerWaiting>>
          \/ /\ ~completed /\ w # "success"
             /\ pc' = "aborted"
             /\ UNCHANGED <<sequence, requests, nextId, readerWaiting>>
          \/ /\ ~completed /\ w = "success"
             /\ RequestNext
       /\ UNCHANGED <<RowCount, activeRequests, replies, duplicates, faults,
                      completed, toWriter, archived, finalized, writerFaults>>

(* A retrieve-key-next reply in the loop: assert success, and archive the *)
(* data with archive-key-final if completed, else archive-key-next, under *)
(* the coroutine's sequence counter.                                       *)
NextRetrieveReply ==
    \E r \in replies :
       /\ pc = "retrieveN"
       /\ r.id = readerWaiting
       /\ replies' = replies \ {r}
       /\ \/ /\ r.result # "success"
             /\ pc' = "aborted"
             /\ UNCHANGED <<completed, toWriter>>
          \/ /\ r.result = "success"
             /\ completed' = r.completed
             /\ SendArchive(IF r.completed THEN "archive-key-final"
                                           ELSE "archive-key-next", sequence, r.data)
             /\ pc' = "archiveN"
       /\ UNCHANGED <<RowCount, activeRequests, requests, nextId, duplicates,
                      faults, readerWaiting, sequence, writerReplies, archived,
                      finalized, writerFaults>>

(* The reply to an archive message in the loop: assert success; leave the *)
(* loop and yield the result when completed, else retrieve the next one.  *)
NextArchiveReply ==
    \E w \in writerReplies :
       /\ pc = "archiveN"
       /\ writerReplies' = writerReplies \ {w}
       /\ \/ /\ w # "success"
             /\ pc' = "aborted"
             /\ UNCHANGED <<sequence, requests, nextId, readerWaiting>>
          \/ /\ w = "success" /\ completed
             /\ pc' = "done"
             /\ UNCHANGED <<sequence, requests, nextId, readerWaiting>>
          \/ /\ w = "success" /\ ~completed
             /\ RequestNext
       /\ UNCHANGED <<RowCount, activeRequests, replies, duplicates, faults,
                      completed, toWriter, archived, finalized, writerFaults>>

(* A reply for a request id the coroutine no longer waits on is discarded *)
(* by the reader client.                                                   *)
DropStaleReply ==
    \E r \in replies :
       /\ (r.id # readerWaiting \/ pc \notin {"retrieve1", "retrieveN"})
       /\ replies' = replies \ {r}
       /\ UNCHANGED <<RowCount, activeRequests, requests, nextId, duplicates,
                      faults, readerWaiting, fwdVars, writerVars>>

(* A's writer (spec 4.2): store the sequence row under the message's       *)
(* sequence-num and finalize on entire or final; or fail the message.      *)
WriterArchive ==
    \E m \in toWriter :
       /\ toWriter' = {}
       /\ \/ /\ archived' = archived \cup {<<m.seq, m.data>>}
             /\ finalized' = (m.verb \in {"archive-key-entire", "archive-key-final"})
             /\ writerReplies' = writerReplies \cup {"success"}
             /\ UNCHANGED writerFaults
          \/ /\ writerFaults < MaxWriterFaults
             /\ writerFaults' = writerFaults + 1
             /\ writerReplies' = writerReplies \cup {"error"}
             /\ UNCHANGED <<archived, finalized>>
       /\ UNCHANGED <<readerVars, fwdVars>>

(* B's reader handles a request (both handlers), or reaps the iterator. *)
ReaderStep ==
    /\ \/ Reader!HandleRetrieveKeyStart
       \/ Reader!HandleRetrieveKeyNext
       \/ Reader!StateCleaner
    /\ UNCHANGED <<nextId, readerWaiting, fwdVars, writerVars>>

Next ==
    \/ Start
    \/ FirstRetrieveReply
    \/ FirstArchiveReply
    \/ NextRetrieveReply
    \/ NextArchiveReply
    \/ DropStaleReply
    \/ WriterArchive
    \/ ReaderStep

(* The driver sends the coroutine every reply its clients receive; the    *)
(* reader's dispatcher and A's writer serve their queues.  The reader's    *)
(* state cleaner is not fair: it may or may not reap an iterator.          *)
Fairness ==
    /\ WF_vars(Start)
    /\ WF_vars(FirstRetrieveReply) /\ WF_vars(FirstArchiveReply)
    /\ WF_vars(NextRetrieveReply) /\ WF_vars(NextArchiveReply)
    /\ WF_vars(WriterArchive)
    /\ WF_vars(Reader!HandleRetrieveKeyStart
                /\ UNCHANGED <<nextId, readerWaiting, fwdVars, writerVars>>)
    /\ WF_vars(Reader!HandleRetrieveKeyNext
                /\ UNCHANGED <<nextId, readerWaiting, fwdVars, writerVars>>)

Spec == Init /\ [][Next]_vars

FairSpec == Spec /\ Fairness

-----------------------------------------------------------------------------
(* Spec 4.4 and scenario S6: the forwarder retrieves the segment from B,  *)
(* re-archives it on A and ends, or a non-success reply aborts it.  So the *)
(* coroutine, suspended at the yield after its retrieve-key-start (line   *)
(* 43), always ends, done or aborted.                                      *)
ForwarderEnds ==
    <>(pc \in {"done", "aborted"})

=============================================================================
