-------------------------- MODULE FileToolsProofs --------------------------
(***************************************************************************)
(* Proofs about FileTools for every number of sessions, calls and texts: a *)
(* tool overwrites only what its session has seen, and writes are mixed    *)
(* only across sessions, by users or by writes that were abandoned.        *)
(***************************************************************************)
EXTENDS FileTools, TLAPS

Labels == {"idle", "look", "remember", "guard", "truncate", "fill", "record", "reread", "done"}

\* The labels at which a call is about to write, writes or has written.
Writing == {"guard", "truncate", "fill", "record", "reread"}

Types ==
    /\ pc \in [Calls -> Labels]
    /\ DOMAIN call = Calls
    /\ DOMAIN looked = Calls
    /\ DOMAIN since = Calls
    /\ DOMAIN record = Sessions
    /\ DOMAIN seen = Sessions
    /\ DOMAIN unseen = Sessions

\* What a call is, while it goes on.
CallInv ==
    \A c \in Calls :
        /\ pc[c] \in {"look", "remember"} => call[c].kind \in {"read", "write", "edit", "create"}
        /\ pc[c] = "look" /\ call[c].kind # "read" => call[c].text \in Texts
        /\ pc[c] \in Writing => call[c].kind \in {"write", "edit", "create"} /\ call[c].text \in Texts
        /\ pc[c] = "record" => call[c].kind = "write"

\* What a session may rely on was shown to it or made by it, or an Edit
\* recorded it; so was what a call is about to overwrite, as it found it.
SeenInv ==
    /\ \A s \in Sessions : ~record[s].partial /\ record[s].content # "absent" =>
          record[s].content \in seen[s] \cup unseen[s]
    /\ \A c \in Calls : pc[c] \in Labels \ {"idle", "done"} /\ call[c].kind \in {"write", "create"} =>
          call[c].text \in seen[SessionOf[c]]
    /\ \A c \in Calls : pc[c] = "truncate" =>
          \/ looked[c] \notin Texts \cup {"torn"}
          \/ looked[c] \in seen[SessionOf[c]] \cup unseen[SessionOf[c]]

\* Calls of a session that go on at the same time only read.
AloneInv ==
    \A c, d \in Calls :
        /\ c # d /\ SessionOf[c] = SessionOf[d] /\ c \notin gone /\ d \notin gone
        /\ pc[c] \notin {"idle", "done"} /\ pc[d] \notin {"idle", "done"}
        => call[c].kind = "read" /\ call[d].kind = "read"

\* Who wrote into the file while a call was between truncating and filling it.
SinceInv ==
    \A c \in Calls : pc[c] = "fill" =>
        \A who \in since[c] : \/ who = "user" \/ c \in gone \/ who \in gone
                              \/ SessionOf[who] # SessionOf[c]

IInv == Types /\ CallInv /\ SeenInv /\ AloneInv /\ SinceInv

LEMMA InitInv == Init => IInv
  BY FileAssumption DEF Init, IInv, Types, CallInv, SeenInv, AloneInv, SinceInv, Labels, Writing,
     NoRecord

LEMMA KindFacts ==
    ASSUME NEW k \in Kinds
    PROVE  /\ k.kind \in {"read", "write", "edit", "create"}
           /\ k.kind # "read" => k.text \in Texts
  BY DEF Kinds

\* A step of one call to another label.
LEMMA GotoFacts ==
    ASSUME Types, NEW c \in Calls, NEW label \in Labels, Goto(c, label)
    PROVE  /\ pc' \in [Calls -> Labels] /\ DOMAIN call' = Calls
           /\ pc'[c] = label /\ (label # "done" => call'[c] = call[c])
           /\ \A d \in Calls \ {c} : pc'[d] = pc[d] /\ call'[d] = call[d]
  BY DEF Goto, Types

LEMMA FoundFacts ==
    ASSUME Types, NEW c \in Calls, NEW content, Found(c, content)
    PROVE  /\ DOMAIN looked' = Calls /\ looked'[c] = content
           /\ \A d \in Calls \ {c} : looked'[d] = looked[d]
  BY DEF Found, Types

-----------------------------------------------------------------------------
\* The effect of every action on the call that takes it: its label moves along,
\* and it stays what it is until it is done.
Moves(c, froms, tos) ==
    /\ pc[c] \in froms /\ pc'[c] \in tos
    /\ pc' \in [Calls -> Labels]
    /\ DOMAIN call' = Calls
    /\ pc'[c] # "done" => call'[c] = call[c]
    /\ \A d \in Calls \ {c} : pc'[d] = pc[d] /\ call'[d] = call[d]

LEMMA MoveKeepsCalls ==
    ASSUME Types, CallInv, NEW c \in Calls,
           \/ Moves(c, {"look"}, {"remember"}) /\ call[c].kind = "read"
           \/ Moves(c, {"look"}, {"guard"}) /\ call[c].kind # "read"
           \/ Moves(c, {"guard"}, {"truncate"})
           \/ Moves(c, {"truncate"}, {"truncate", "fill"})
           \/ Moves(c, {"fill"}, {"fill", "reread"})
           \/ Moves(c, {"fill"}, {"record"}) /\ call[c].kind = "write"
           \/ Moves(c, Labels, {"done"})
    PROVE  CallInv'
  BY DEF CallInv, Moves, Writing, Labels

LEMMA MoveKeepsAlone ==
    ASSUME Types, AloneInv, NEW c \in Calls, Moves(c, Labels \ {"idle", "done"}, Labels \ {"idle"}),
           gone \subseteq gone'
    PROVE  AloneInv'
  <1> SUFFICES ASSUME NEW d \in Calls, NEW e \in Calls, d # e, SessionOf[d] = SessionOf[e],
                      d \notin gone', e \notin gone',
                      pc'[d] \notin {"idle", "done"}, pc'[e] \notin {"idle", "done"}
               PROVE  call'[d].kind = "read" /\ call'[e].kind = "read"
    BY DEF AloneInv
  <1>1. /\ pc[d] \notin {"idle", "done"} /\ pc[e] \notin {"idle", "done"}
        /\ call'[d] = call[d] /\ call'[e] = call[e] /\ d \notin gone /\ e \notin gone
    BY DEF Moves
  <1> QED
    BY <1>1 DEF AloneInv

\* What is seen or recorded only grows, and nobody is led to a write by a step
\* of another call.
LEMMA MoveKeepsSeen ==
    ASSUME Types, CallInv, SeenInv, NEW c \in Calls, Moves(c, Labels \ {"idle", "done"}, Labels \ {"idle"}),
           \A d \in Calls \ {c} : looked'[d] = looked[d],
           \A s \in Sessions : seen[s] \subseteq seen'[s] /\ unseen[s] \subseteq unseen'[s],
           \A s \in Sessions : \/ record'[s] = record[s]
                               \/ record'[s].partial
                               \/ record'[s].content \in seen'[s] \cup unseen'[s],
           pc'[c] = "truncate" =>
              \/ looked'[c] \notin Texts \cup {"torn"}
              \/ looked'[c] \in seen[SessionOf[c]] \cup unseen[SessionOf[c]]
    PROVE  SeenInv'
  <1>0. \A d \in Calls : SessionOf[d] \in Sessions
    BY FileAssumption
  <1>1. \A s \in Sessions : ~record'[s].partial /\ record'[s].content # "absent" =>
           record'[s].content \in seen'[s] \cup unseen'[s]
    BY DEF SeenInv
  <1>2. ASSUME NEW d \in Calls, pc'[d] \in Labels \ {"idle", "done"}, call'[d].kind \in {"write", "create"}
        PROVE  call'[d].text \in seen'[SessionOf[d]]
    <2>1. pc[d] \in Labels \ {"idle", "done"} /\ call'[d] = call[d]
      BY <1>2 DEF Moves
    <2> QED
      BY <1>0, <1>2, <2>1 DEF SeenInv
  <1>3. ASSUME NEW d \in Calls, pc'[d] = "truncate"
        PROVE  \/ looked'[d] \notin Texts \cup {"torn"}
               \/ looked'[d] \in seen'[SessionOf[d]] \cup unseen'[SessionOf[d]]
    <2>1. CASE d = c
      BY <1>0, <1>3, <2>1
    <2>2. CASE d # c
      BY <1>0, <1>3, <2>2 DEF Moves, SeenInv
    <2> QED
      BY <2>1, <2>2
  <1> QED
    BY <1>1, <1>2, <1>3 DEF SeenInv

\* The actions of a call after its first step, by their effect.
LEMMA CallSteps ==
    ASSUME Types, CallInv, NEW c \in Calls,
           \/ Drop(c) \/ Look(c) \/ Remember(c) \/ Guard(c) \/ Truncate(c) \/ Fill(c)
           \/ RecordWritten(c) \/ Reread(c)
    PROVE  /\ \/ Moves(c, {"look"}, {"remember"}) /\ call[c].kind = "read"
              \/ Moves(c, {"look"}, {"guard"}) /\ call[c].kind # "read"
              \/ Moves(c, {"guard"}, {"truncate"})
              \/ Moves(c, {"truncate"}, {"truncate", "fill"})
              \/ Moves(c, {"fill"}, {"fill", "reread"})
              \/ Moves(c, {"fill"}, {"record"}) /\ call[c].kind = "write"
              \/ Moves(c, Labels \ {"idle", "done"}, {"done"})
           /\ DOMAIN looked' = Calls
           /\ \A d \in Calls \ {c} : looked'[d] = looked[d]
           /\ gone \subseteq gone'
  <1>0. pc[c] \in Labels
    BY DEF Types
  <1>1. CASE Drop(c)
    <2>1. CASE pc[c] \in {"truncate", "fill"}
      BY <1>1, <2>1 DEF Drop, Moves, Types
    <2>2. CASE pc[c] \notin {"truncate", "fill"}
      <3>1. Goto(c, "done") /\ Found(c, "absent") /\ gone \subseteq gone' /\ pc[c] \in Labels \ {"idle", "done"}
        BY <1>0, <1>1, <2>2 DEF Drop
      <3> QED
        BY <3>1, GotoFacts, FoundFacts DEF Moves, Labels
    <2> QED
      BY <2>1, <2>2
  <1>2. CASE Look(c)
    <2>1. /\ pc[c] = "look" /\ Found(c, file) /\ gone' = gone
          /\ \/ call[c].kind = "read" /\ Goto(c, "remember")
             \/ call[c].kind # "read" /\ Goto(c, "guard")
      BY <1>2 DEF Look
    <2> QED
      BY <2>1, GotoFacts, FoundFacts DEF Moves, Labels
  <1>3. CASE Remember(c) \/ RecordWritten(c) \/ Reread(c)
    <2>1. Goto(c, "done") /\ Found(c, "absent") /\ gone' = gone /\ pc[c] \in Labels \ {"idle", "done"}
      BY <1>3 DEF Remember, RecordWritten, Reread, Labels
    <2> QED
      BY <2>1, GotoFacts, FoundFacts DEF Moves, Labels
  <1>4. CASE Guard(c)
    <2>1. /\ pc[c] = "guard" /\ gone' = gone
          /\ \/ Goto(c, "truncate") /\ looked' = looked
             \/ Goto(c, "done") /\ Found(c, "absent")
      BY <1>4 DEF Guard
    <2> QED
      BY <2>1, GotoFacts, FoundFacts DEF Moves, Labels, Types
  <1>5. CASE Truncate(c)
    <2>1. pc[c] = "truncate" /\ gone' = gone /\ Goto(c, "fill") /\ looked' = looked
      BY <1>5 DEF Truncate
    <2> QED
      BY <2>1, GotoFacts DEF Moves, Labels, Types
  <1>6. CASE Fill(c)
    <2>1. /\ pc[c] = "fill" /\ gone' = gone /\ Found(c, "absent")
          /\ \/ Goto(c, "done")
             \/ call[c].kind = "write" /\ Goto(c, "record")
             \/ Goto(c, "reread")
      BY <1>6 DEF Fill
    <2> QED
      BY <2>1, GotoFacts, FoundFacts DEF Moves, Labels
  <1> QED
    BY <1>1, <1>2, <1>3, <1>4, <1>5, <1>6

-----------------------------------------------------------------------------
\* A call begins only beside calls it may run beside.
LEMMA BeginKeeps ==
    ASSUME Types, CallInv, SeenInv, AloneInv, SinceInv, NEW c \in Calls, NEW k \in Kinds, Begin(c, k)
    PROVE  Types' /\ CallInv' /\ SeenInv' /\ AloneInv' /\ SinceInv'
  <1> DEFINE s == SessionOf[c]
  <1>0. /\ s \in Sessions /\ pc[c] = "idle" /\ Admitted(c, k)
        /\ call' = [call EXCEPT ![c] = k] /\ pc' = [pc EXCEPT ![c] = "look"]
        /\ seen' = [seen EXCEPT ![s] = IF k.kind \in {"write", "create"} THEN seen[s] \cup {k.text}
                                                                         ELSE seen[s]]
        /\ UNCHANGED <<record, looked, gone, since, unseen>>
    BY FileAssumption DEF Begin
  <1>1. /\ pc'[c] = "look" /\ call'[c] = k /\ pc' \in [Calls -> Labels]
        /\ \A d \in Calls \ {c} : pc'[d] = pc[d] /\ call'[d] = call[d]
        /\ DOMAIN call' = Calls /\ DOMAIN seen' = Sessions
    BY <1>0 DEF Types, Labels
  <1>2. Types'
    BY <1>0, <1>1 DEF Types
  <1>3. CallInv'
    BY <1>1, KindFacts DEF CallInv, Writing
  <1>4. /\ \A q \in Sessions : seen[q] \subseteq seen'[q]
        /\ k.kind \in {"write", "create"} => k.text \in seen'[s]
    BY <1>0 DEF Types
  <1>5. SeenInv'
    <2>0. \A d \in Calls : SessionOf[d] \in Sessions
      BY FileAssumption
    <2>1. \A q \in Sessions : ~record'[q].partial /\ record'[q].content # "absent" =>
             record'[q].content \in seen'[q] \cup unseen'[q]
      BY <1>0, <1>4 DEF SeenInv
    <2>2. ASSUME NEW d \in Calls, pc'[d] \in Labels \ {"idle", "done"}, call'[d].kind \in {"write", "create"}
          PROVE  call'[d].text \in seen'[SessionOf[d]]
      <3>1. CASE d = c
        BY <1>1, <1>4, <2>2, <3>1
      <3>2. CASE d # c
        BY <1>1, <1>4, <2>0, <2>2, <3>2 DEF SeenInv
      <3> QED
        BY <3>1, <3>2
    <2>3. ASSUME NEW d \in Calls, pc'[d] = "truncate"
          PROVE  \/ looked'[d] \notin Texts \cup {"torn"}
                 \/ looked'[d] \in seen'[SessionOf[d]] \cup unseen'[SessionOf[d]]
      BY <1>0, <1>1, <1>4, <2>0, <2>3 DEF SeenInv
    <2> QED
      BY <2>1, <2>2, <2>3 DEF SeenInv
  <1>6. AloneInv'
    <2> SUFFICES ASSUME NEW d \in Calls, NEW e \in Calls, d # e, SessionOf[d] = SessionOf[e],
                        d \notin gone, e \notin gone,
                        pc'[d] \notin {"idle", "done"}, pc'[e] \notin {"idle", "done"}
                 PROVE  call'[d].kind = "read" /\ call'[e].kind = "read"
      BY <1>0 DEF AloneInv
    <2>1. \A b \in Calls : /\ SessionOf[b] = s /\ pc[b] \notin {"idle", "done"} /\ b \notin gone
                           => k.kind = "read" /\ call[b].kind = "read"
      BY <1>0 DEF Admitted, Underway
    <2> QED
      BY <1>1, <2>1 DEF AloneInv
  <1>7. SinceInv'
    BY <1>0, <1>1 DEF SinceInv
  <1> QED
    BY <1>2, <1>3, <1>5, <1>6, <1>7

\* The steps of a call keep what is known about the records.
LEMMA StepKeepsSeen ==
    ASSUME Types, CallInv, SeenInv, NEW c \in Calls,
           \/ Drop(c) \/ Look(c) \/ Remember(c) \/ Guard(c) \/ Truncate(c) \/ Fill(c)
           \/ RecordWritten(c) \/ Reread(c)
    PROVE  Types' /\ CallInv' /\ SeenInv'
  <1> DEFINE s == SessionOf[c]
  <1>0. s \in Sessions
    BY FileAssumption
  <1>1. /\ CallInv' /\ Moves(c, Labels \ {"idle", "done"}, Labels \ {"idle"})
        /\ DOMAIN looked' = Calls /\ \A d \in Calls \ {c} : looked'[d] = looked[d]
    BY CallSteps, MoveKeepsCalls DEF Moves, Labels
  <1>2. CASE Drop(c) \/ Look(c) \/ Truncate(c) \/ Fill(c)
    <2>1. /\ UNCHANGED <<record, seen, unseen>> /\ DOMAIN since' = Calls
          /\ pc'[c] = "truncate" => pc[c] = "truncate" /\ looked' = looked
      BY <1>2 DEF Drop, Look, Truncate, Fill, Goto, Noted, Types
    <2>2. SeenInv'
      BY <1>0, <1>1, <2>1, MoveKeepsSeen DEF SeenInv
    <2> QED
      BY <1>1, <2>1, <2>2 DEF Types, Moves
  <1>3. CASE Remember(c)
    <2>1. /\ UNCHANGED <<unseen, since>> /\ pc'[c] = "done"
          /\ \/ UNCHANGED <<record, seen>>
             \/ /\ record' = [record EXCEPT ![s] = [content |-> looked[c], partial |-> ~~call[c].partial]]
                /\ seen' = [seen EXCEPT ![s] = IF ~call[c].partial THEN seen[s] \cup {looked[c]} ELSE seen[s]]
      BY <1>3 DEF Remember, Remembers, Goto, Types
    <2>2. /\ DOMAIN record' = Sessions /\ DOMAIN seen' = Sessions
          /\ \A q \in Sessions : seen[q] \subseteq seen'[q]
          /\ \A q \in Sessions \ {s} : record'[q] = record[q]
      BY <1>0, <2>1 DEF Types
    <2>3. record'[s] = record[s] \/ record'[s].partial \/ record'[s].content \in seen'[s]
      <3>1. CASE UNCHANGED record
        BY <3>1
      <3>2. CASE ~call[c].partial /\ ~UNCHANGED record
        <4>1. record'[s].content = looked[c] /\ looked[c] \in seen'[s]
          BY <1>0, <2>1, <3>2 DEF Types
        <4> QED
          BY <4>1
      <3>3. CASE call[c].partial /\ ~UNCHANGED record
        <4>1. record'[s] = [content |-> looked[c], partial |-> ~~call[c].partial]
          BY <1>0, <2>1, <3>3 DEF Types
        <4>2. \A x, y : [content |-> x, partial |-> y].partial = y
          OBVIOUS
        <4>3. record'[s].partial = ~~call[c].partial
          BY <4>1, <4>2, Zenon
        <4> QED
          BY <3>3, <4>3, Zenon
      <3> QED
        BY <3>1, <3>2, <3>3
    <2>4. SeenInv'
      BY <1>0, <1>1, <2>1, <2>2, <2>3, MoveKeepsSeen
    <2> QED
      BY <1>1, <2>1, <2>2, <2>4 DEF Types, Moves
  <1>4. CASE Guard(c)
    <2>1. /\ UNCHANGED <<record, unseen, since>>
          /\ \/ seen' = seen
             \/ seen' = [seen EXCEPT ![s] = IF looked[c] \in seen[s] THEN seen[s] \cup {call[c].text} ELSE seen[s]]
      BY <1>4 DEF Guard
    <2>2. DOMAIN seen' = Sessions /\ \A q \in Sessions : seen[q] \subseteq seen'[q]
      BY <1>0, <2>1 DEF Types
    <2>3. pc'[c] = "truncate" =>
             \/ looked'[c] \notin Texts \cup {"torn"}
             \/ looked'[c] \in seen[s] \cup unseen[s]
      <3> SUFFICES ASSUME pc'[c] = "truncate", looked'[c] \in Texts \cup {"torn"}
                   PROVE  looked'[c] \in seen[s] \cup unseen[s]
        OBVIOUS
      <3>1. looked' = looked /\ IF call[c].kind = "write" THEN WriteAllowed(c) ELSE EditAllowed(c)
        BY <1>4 DEF Guard, Goto, Types
      <3>2. looked[c] \in Readable /\ looked[c] \notin {"absent", "blank"}
        BY <3>1, FileAssumption DEF Readable
      <3>3. ReadAndUnchanged(s, looked[c])
        BY <3>1, <3>2 DEF WriteAllowed, EditAllowed
      <3> QED
        BY <1>0, <3>1, <3>2, <3>3 DEF ReadAndUnchanged, SeenInv
    <2>4. SeenInv'
      BY <1>0, <1>1, <2>1, <2>2, <2>3, MoveKeepsSeen
    <2> QED
      BY <1>1, <2>1, <2>2, <2>4 DEF Types, Moves
  <1>5. CASE RecordWritten(c)
    <2>1. /\ UNCHANGED <<seen, unseen, since>> /\ pc[c] = "record" /\ pc'[c] = "done"
          /\ \/ record' = record
             \/ record' = [record EXCEPT ![s] = [content |-> call[c].text, partial |-> FALSE]]
      BY <1>5 DEF RecordWritten, Remembers, Goto, Types
    <2>2. call[c].text \in seen[s]
      BY <1>0, <2>1 DEF CallInv, SeenInv, Labels
    <2>3. /\ DOMAIN record' = Sessions
          /\ \A q \in Sessions : record'[q] = record[q] \/ record'[q].content \in seen[q]
      BY <1>0, <2>1, <2>2 DEF Types
    <2>4. SeenInv'
      BY <1>0, <1>1, <2>1, <2>3, MoveKeepsSeen
    <2> QED
      BY <1>1, <2>1, <2>3, <2>4 DEF Types, Moves
  <1>6. CASE Reread(c)
    <2>1. /\ UNCHANGED <<seen, since>> /\ pc'[c] = "done"
          /\ \/ UNCHANGED <<record, unseen>>
             \/ /\ record' = [record EXCEPT ![s] = [content |-> file, partial |-> FALSE]]
                /\ unseen' = [unseen EXCEPT ![s] = IF file \in seen[s] THEN unseen[s] ELSE unseen[s] \cup {file}]
      BY <1>6 DEF Reread, Remembers, Goto, Types
    <2>2. /\ DOMAIN record' = Sessions /\ DOMAIN unseen' = Sessions
          /\ \A q \in Sessions : unseen[q] \subseteq unseen'[q]
          /\ \A q \in Sessions : record'[q] = record[q] \/ record'[q].content \in seen[q] \cup unseen'[q]
      BY <1>0, <2>1 DEF Types
    <2>3. SeenInv'
      BY <1>0, <1>1, <2>1, <2>2, MoveKeepsSeen
    <2> QED
      BY <1>1, <2>1, <2>2, <2>3 DEF Types, Moves
  <1> QED
    BY <1>2, <1>3, <1>4, <1>5, <1>6

\* A write that ends is noted by the writes that are between truncating and
\* filling: they are of other sessions, or one of the two was abandoned.
LEMMA StepKeepsSince ==
    ASSUME IInv, NEW c \in Calls,
           \/ Drop(c) \/ Look(c) \/ Remember(c) \/ Guard(c) \/ Truncate(c) \/ Fill(c)
           \/ RecordWritten(c) \/ Reread(c)
    PROVE  AloneInv' /\ SinceInv'
  <1>0. Types /\ CallInv /\ AloneInv /\ SinceInv
    BY DEF IInv
  <1>1. Moves(c, Labels \ {"idle", "done"}, Labels \ {"idle"}) /\ gone \subseteq gone'
    BY <1>0, CallSteps DEF Moves, Labels
  <1>2. AloneInv'
    BY <1>0, <1>1, MoveKeepsAlone
  <1>3. CASE Truncate(c)
    <2>1. /\ since'[c] = {} /\ gone' = gone
          /\ \A d \in Calls \ {c} : pc'[d] = pc[d] /\ since'[d] = since[d]
      BY <1>0, <1>1, <1>3 DEF Truncate, Types, Moves
    <2> QED
      BY <1>0, <1>2, <2>1 DEF SinceInv
  <1>4. CASE Fill(c)
    <2>1. /\ pc[c] = "fill" /\ gone' = gone /\ pc'[c] # "fill"
          /\ \A d \in Calls \ {c} : pc'[d] = pc[d] /\ (pc[d] = "fill" => since'[d] = since[d] \cup {c})
      BY <1>0, <1>1, <1>4 DEF Fill, Noted, Types, Moves, Goto
    <2>2. ASSUME NEW d \in Calls \ {c}, pc[d] = "fill"
          PROVE  c \in gone \/ d \in gone \/ SessionOf[c] # SessionOf[d]
      BY <1>0, <2>1, <2>2 DEF AloneInv, CallInv, Writing
    <2> QED
      BY <1>0, <1>2, <2>1, <2>2 DEF SinceInv
  <1>5. CASE Drop(c) \/ Look(c) \/ Remember(c) \/ Guard(c) \/ RecordWritten(c) \/ Reread(c)
    <2>1. since' = since /\ (pc'[c] = "fill" => pc[c] = "fill")
      BY <1>0, <1>5 DEF Drop, Look, Remember, Guard, RecordWritten, Reread, Goto, Types
    <2> QED
      BY <1>0, <1>1, <1>2, <2>1 DEF SinceInv, Moves
  <1> QED
    BY <1>3, <1>4, <1>5

LEMMA NextKeepsIInv == IInv /\ [Next]_vars => IInv'
  <1> SUFFICES ASSUME IInv, [Next]_vars PROVE IInv'
    OBVIOUS
  <1>1. ASSUME NEW c \in Calls, NEW k \in Kinds, Begin(c, k) PROVE IInv'
    BY <1>1, BeginKeeps DEF IInv
  <1>2. ASSUME NEW c \in Calls,
               \/ Drop(c) \/ Look(c) \/ Remember(c) \/ Guard(c) \/ Truncate(c) \/ Fill(c)
               \/ RecordWritten(c) \/ Reread(c)
        PROVE  IInv'
    BY <1>2, StepKeepsSeen, StepKeepsSince DEF IInv
  <1>3. ASSUME NEW content, UserWrites(content) PROVE IInv'
    <2>1. /\ UNCHANGED <<record, pc, call, looked, gone, seen, unseen>> /\ DOMAIN since' = Calls
          /\ \A d \in Calls : since'[d] \subseteq since[d] \cup {"user"}
      BY <1>3 DEF UserWrites, Noted
    <2> QED
      BY <2>1 DEF IInv, Types, CallInv, SeenInv, AloneInv, SinceInv
  <1>4. CASE UNCHANGED vars
    BY <1>4 DEF vars, IInv, Types, CallInv, SeenInv, AloneInv, SinceInv
  <1> QED
    BY <1>1, <1>2, <1>3, <1>4 DEF Next

LEMMA Invariance == Spec => []IInv
  BY InitInv, NextKeepsIInv, PTL DEF Spec

-----------------------------------------------------------------------------
\* Write and Edit overwrite text that they found only if their session has seen
\* it (the checks of read records in shared.rs).
THEOREM OverwritesAreSeen == Spec => OverwritesOnlySeen
  <1>1. ASSUME IInv, NEW c \in Calls, pc[c] = "truncate"
        PROVE  \/ file \notin Texts \cup {"torn"} \/ file # looked[c]
               \/ file \in seen[SessionOf[c]] \cup unseen[SessionOf[c]]
    BY <1>1 DEF IInv, SeenInv
  <1>2. IInv /\ [Next]_vars =>
          [\A c \in Calls : pc[c] = "truncate" /\ pc'[c] = "fill" =>
              LET s == SessionOf[c] IN
              \/ file \notin Texts \cup {"torn"}
              \/ file # looked[c]
              \/ file \in seen[s] \cup unseen[s]]_vars
    BY <1>1
  <1> QED
    BY <1>2, Invariance, PTL DEF Spec, OverwritesOnlySeen

\* Within a session writes are mixed only with writes that were abandoned: a
\* Write or an Edit is exclusive until its future is dropped.
THEOREM TornByStrangers == Spec => TornOnlyByStrangers
  <1> DEFINE Strange == \E c \in Calls : pc[c] = "fill" /\ pc'[c] # "fill" /\
                           \E who \in since[c] : who = "user" \/ c \in gone \/ who \in gone
                                                 \/ SessionOf[who] # SessionOf[c]
  <1>1. ASSUME IInv, [Next]_vars, file' = "torn", file # "torn" PROVE Strange
    <2>0. Types /\ CallInv /\ SinceInv
      BY <1>1 DEF IInv
    <2>1. ASSUME NEW c \in Calls, Fill(c) PROVE Strange
      <3>1. pc[c] = "fill" /\ pc'[c] # "fill"
        BY <2>0, <2>1 DEF Fill, Goto, Types
      <3>2. call[c].text # "torn"
        BY <2>0, <3>1, FileAssumption DEF CallInv, Writing
      <3>3. since[c] # {}
        BY <1>1, <2>1, <3>2 DEF Fill
      <3>4. PICK who : who \in since[c]
        BY <3>3
      <3> QED
        BY <2>0, <3>1, <3>4 DEF SinceInv
    <2>2. ASSUME NEW c \in Calls,
                 \/ \E k \in Kinds : Begin(c, k)
                 \/ Drop(c) \/ Look(c) \/ Remember(c) \/ Guard(c) \/ Truncate(c)
                 \/ RecordWritten(c) \/ Reread(c)
          PROVE  FALSE
      BY <1>1, <2>2 DEF Begin, Drop, Look, Remember, Guard, Truncate, RecordWritten, Reread
    <2>3. ASSUME NEW content \in Texts \cup {"absent", "binary"}, UserWrites(content) PROVE FALSE
      BY <1>1, <2>3, FileAssumption DEF UserWrites
    <2> QED
      BY <1>1, <2>1, <2>2, <2>3 DEF Next, vars
  <1>2. IInv /\ [Next]_vars => [file' = "torn" /\ file # "torn" => Strange]_vars
    BY <1>1
  <1> QED
    BY <1>2, Invariance, PTL DEF Spec, TornOnlyByStrangers
=============================================================================
