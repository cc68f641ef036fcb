----------------------------- MODULE FileTools -----------------------------
(***************************************************************************)
(* Read, Write and Edit on one file (executor-tools), by the sessions of a *)
(* daemon and beside users who change the file themselves.  Each session   *)
(* remembers what it has read (FileReadState) and refuses to overwrite     *)
(* anything else; there is no lock between the check and the write.  Files *)
(* are written on blocking threads, which go on when the tool's future is  *)
(* dropped by a timeout or a cancellation.                                 *)
(***************************************************************************)
EXTENDS Naturals

CONSTANTS
    Calls,          \* calls of the tools, each made once
    Sessions,
    SessionOf,      \* the session a call belongs to
    Texts,          \* what the file may be given as content
    MaxUserWrites   \* bound on changes by others

ASSUME FileAssumption ==
    /\ SessionOf \in [Calls -> Sessions]
    /\ MaxUserWrites \in Nat
    /\ Texts \cap {"absent", "blank", "binary", "torn", "user"} = {}

VARIABLES
    file,           \* the file's content, or "absent"
    record,         \* record[s] is what session s remembers of the file
    pc, call,       \* where a call stands, and what it is
    looked,         \* what it found in the file
    gone,           \* calls whose future was dropped
    since,          \* since[c]: who wrote after c had truncated the file
    seen,           \* auxiliary: contents the model behind s was shown or made
    unseen,         \* auxiliary: contents an Edit of s recorded that were neither
    userWrites

vars == <<file, record, pc, call, looked, gone, since, seen, unseen, userWrites>>

Readable == Texts \cup {"blank", "torn"}
NoRecord == [content |-> "absent", partial |-> FALSE]
NoCall == [kind |-> "none"]

(* An Edit with an empty old_string creates the file.                      *)
Kinds == [kind : {"read"}, partial : BOOLEAN]
           \cup [kind : {"write", "edit", "create"}, text : Texts]

Init ==
    /\ file \in Texts \cup {"absent", "blank", "binary"}
    /\ record = [s \in Sessions |-> NoRecord]
    /\ pc = [c \in Calls |-> "idle"]
    /\ call = [c \in Calls |-> NoCall]
    /\ looked = [c \in Calls |-> "absent"]
    /\ gone = {}
    /\ since = [c \in Calls |-> {}]
    /\ seen = [s \in Sessions |-> {}]
    /\ unseen = [s \in Sessions |-> {}]
    /\ userWrites = 0

Goto(c, label) ==
    /\ pc' = [pc EXCEPT ![c] = label]
    /\ call' = [call EXCEPT ![c] = IF label = "done" THEN NoCall ELSE @]

Found(c, content) == looked' = [looked EXCEPT ![c] = content]

(* Read is concurrency safe, Write and Edit run alone in their session     *)
(* (Scheduler, ExclusiveRunsAlone).                                        *)
Underway(s) == {c \in Calls : SessionOf[c] = s /\ pc[c] \notin {"idle", "done"} /\ c \notin gone}

Admitted_Always(c, k) == TRUE

Admitted(c, k) == \A d \in Underway(SessionOf[c]) : k.kind = "read" /\ call[d].kind = "read"

Begin(c, k) ==
    /\ pc[c] = "idle"
    /\ Admitted(c, k)
    /\ call' = [call EXCEPT ![c] = k]
    /\ pc' = [pc EXCEPT ![c] = "look"]
    /\ seen' = [seen EXCEPT ![SessionOf[c]] =
                   IF k.kind \in {"write", "create"} THEN @ \cup {k.text} ELSE @]
    /\ UNCHANGED <<file, record, looked, gone, since, unseen, userWrites>>

(* The caller drops the future; a write that was handed over goes on.      *)
Drop(c) ==
    /\ c \notin gone
    /\ pc[c] \notin {"idle", "done"}
    /\ gone' = gone \cup {c}
    /\ \/ pc[c] \in {"truncate", "fill"} /\ UNCHANGED <<pc, call, looked>>
       \/ pc[c] \notin {"truncate", "fill"} /\ Goto(c, "done") /\ Found(c, "absent")
    /\ UNCHANGED <<file, record, since, seen, unseen, userWrites>>

(* The file is read; "binary" is content that is not UTF-8.                *)
Look(c) ==
    /\ pc[c] = "look"
    /\ Found(c, file)
    /\ Goto(c, IF call[c].kind = "read" THEN "remember" ELSE "guard")
    /\ UNCHANGED <<file, record, gone, since, seen, unseen, userWrites>>

Remembers(s, content, partial) ==
    record' = [record EXCEPT ![s] = [content |-> content, partial |-> partial]]

Remember_AsFull(c) ==
    LET s == SessionOf[c]  whole == ~call[c].partial IN
    /\ pc[c] = "remember"
    /\ IF looked[c] \in Readable /\ file # "absent"
       THEN Remembers(s, looked[c], FALSE)
            /\ seen' = [seen EXCEPT ![s] = IF whole THEN @ \cup {looked[c]} ELSE @]
       ELSE UNCHANGED <<record, seen>>
    /\ Goto(c, "done") /\ Found(c, "absent")
    /\ UNCHANGED <<file, gone, since, unseen, userWrites>>

(* The record also takes the time stamp, which a deleted file has not.     *)
Remember(c) ==
    LET s == SessionOf[c]  whole == ~call[c].partial IN
    /\ pc[c] = "remember"
    /\ IF looked[c] \in Readable /\ file # "absent"
       THEN Remembers(s, looked[c], ~whole)
            /\ seen' = [seen EXCEPT ![s] = IF whole THEN @ \cup {looked[c]} ELSE @]
       ELSE UNCHANGED <<record, seen>>
    /\ Goto(c, "done") /\ Found(c, "absent")
    /\ UNCHANGED <<file, gone, since, unseen, userWrites>>

(* ensure_file_was_read_and_unchanged.                                     *)
ReadAndUnchanged(s, content) ==
    /\ record[s] # NoRecord
    /\ ~record[s].partial
    /\ record[s].content = content

(* Write asks only if the file can be read as text; Edit fails if it       *)
(* cannot, and creates only where nothing or nothing but space is.         *)
WriteAllowed(c) ==
    looked[c] \in Readable => ReadAndUnchanged(SessionOf[c], looked[c])

EditAllowed(c) ==
    \/ call[c].kind = "create" /\ looked[c] \in {"absent", "blank"}
    \/ /\ call[c].kind = "edit"
       /\ looked[c] \in Readable
       /\ ReadAndUnchanged(SessionOf[c], looked[c])

(* Any call may also fail here: an Edit that finds no match or too many, a *)
(* directory that cannot be made, a file that cannot be opened.            *)
Guard(c) ==
    /\ pc[c] = "guard"
    /\ \/ /\ IF call[c].kind = "write" THEN WriteAllowed(c) ELSE EditAllowed(c)
          /\ Goto(c, "truncate")
          /\ UNCHANGED looked
          /\ seen' = [seen EXCEPT ![SessionOf[c]] =
                         IF looked[c] \in @ THEN @ \cup {call[c].text} ELSE @]
       \/ Goto(c, "done") /\ Found(c, "absent") /\ UNCHANGED seen
    /\ UNCHANGED <<file, record, gone, since, unseen, userWrites>>

(***************************************************************************)
(* The blocking thread of a write: it opens the file, which truncates it,  *)
(* and writes from its beginning, over whatever others put there since.    *)
(***************************************************************************)
Truncate(c) ==
    /\ pc[c] = "truncate"
    /\ file' = "blank"
    /\ since' = [since EXCEPT ![c] = {}]
    /\ Goto(c, "fill")
    /\ UNCHANGED <<record, looked, gone, seen, unseen, userWrites>>

Noted(who) ==
    [c \in Calls |-> IF c = who THEN {} ELSE IF pc[c] = "fill" THEN since[c] \cup {who} ELSE since[c]]

Fill(c) ==
    /\ pc[c] = "fill"
    /\ file' \in {call[c].text} \cup (IF since[c] # {} THEN {"torn"} ELSE {})
    /\ since' = Noted(c)
    /\ Found(c, "absent")
    /\ Goto(c, CASE c \in gone -> "done" [] call[c].kind = "write" -> "record" [] OTHER -> "reread")
    /\ UNCHANGED <<record, gone, seen, unseen, userWrites>>

(* Write records what it wrote, Edit what it finds in the file afterwards. *)
RecordWritten(c) ==
    /\ pc[c] = "record"
    /\ IF file # "absent" THEN Remembers(SessionOf[c], call[c].text, FALSE) ELSE UNCHANGED record
    /\ Goto(c, "done") /\ Found(c, "absent")
    /\ UNCHANGED <<file, gone, since, seen, unseen, userWrites>>

(* The Edit fails with its text written when the mode cannot be restored   *)
(* or the file cannot be read; it records nothing then.                    *)
Reread(c) ==
    LET s == SessionOf[c] IN
    /\ pc[c] = "reread"
    /\ \/ /\ file \in Readable
          /\ Remembers(s, file, FALSE)
          /\ unseen' = [unseen EXCEPT ![s] = IF file \in seen[s] THEN @ ELSE @ \cup {file}]
       \/ UNCHANGED <<record, unseen>>
    /\ Goto(c, "done") /\ Found(c, "absent")
    /\ UNCHANGED <<file, gone, since, seen, userWrites>>

(* A user, a linter or a command of the shell tool.                        *)
UserWrites(content) ==
    /\ userWrites < MaxUserWrites
    /\ userWrites' = userWrites + 1
    /\ file' = content
    /\ since' = Noted("user")
    /\ UNCHANGED <<record, pc, call, looked, gone, seen, unseen>>

Next ==
    \/ \E c \in Calls :
          \/ \E k \in Kinds : Begin(c, k)
          \/ Drop(c) \/ Look(c) \/ Remember(c) \/ Guard(c)
          \/ Truncate(c) \/ Fill(c) \/ RecordWritten(c) \/ Reread(c)
    \/ \E content \in Texts \cup {"absent", "binary"} : UserWrites(content)

Spec == Init /\ [][Next]_vars

(***************************************************************************)
(* Properties                                                              *)
(***************************************************************************)
(* A tool overwrites text only if the model behind its session was shown   *)
(* all of it or wrote it, over any number of reads, writes, edits, drops   *)
(* and changes by others; the exceptions are text that appeared after the  *)
(* call had looked (no lock is held), and what an Edit recorded when it    *)
(* read the file again (shared.rs, ensure_file_was_read_and_unchanged).    *)
OverwritesOnlySeen ==
    [][\A c \in Calls : pc[c] = "truncate" /\ pc'[c] = "fill" =>
          LET s == SessionOf[c] IN
          \/ file \notin Texts \cup {"torn"}
          \/ file # looked[c]
          \/ file \in seen[s] \cup unseen[s]]_vars

(* The pieces of two writes are mixed only if they come from two sessions  *)
(* or a user, or one of them was abandoned by its caller: within a session *)
(* the exclusive slot keeps writes apart (file_write.rs, file_edit.rs).    *)
TornOnlyByStrangers ==
    [][file' = "torn" /\ file # "torn" =>
          \E c \in Calls : pc[c] = "fill" /\ pc'[c] # "fill" /\
             \E who \in since[c] : who = "user" \/ c \in gone \/ who \in gone
                                   \/ SessionOf[who] # SessionOf[c]]_vars
=============================================================================
