-------------------------- MODULE WslClientProofs --------------------------
(***************************************************************************)
(* Proofs about WslClient for any calls and ids: a call gets the answer to *)
(* another one only when that one was released by something else than its  *)
(* own last answer, an id whose execution completed is free on both sides, *)
(* and Disconnected is justified.                                          *)
(***************************************************************************)
EXTENDS WslClient, SequenceTheorems, TLAPS

Results  == {"completed", "failed", "refused"}
Acks     == {"found", "not_found"}
Messages == [type : Results \cup Acks \cup {"tools", "oversized"}, about : Calls]
Replies  == [type : Results \cup Acks \cup {"tools", "none", "duplicate", "disconnected"},
             about : Calls]

\* A message is about a call of its kind.
MessageKind(m) ==
    /\ m.type \in Results \cup {"oversized"} => m.about \in Executes
    /\ m.type \in Acks => m.about \in Cancels

Types ==
    /\ call \in [Calls -> {"new", "registered", "awaiting", "dropped"}]
    /\ reply \in [Calls -> Replies]
    /\ pending \in [Ids -> Executes \cup {None}]
    /\ cancel_acks \in [Ids -> Cancels \cup {None}]
    /\ tool_acks \subseteq Lists
    /\ requests \in Seq(Calls \cup {Shutdown})
    /\ responses \in Seq(Messages)
    /\ \A i \in DOMAIN responses : MessageKind(responses[i])
    /\ active \in [Ids -> Executes \cup {None}]
    /\ execution \in [Executes -> {"none", "active", "failed", "freed", "ended"}]
    /\ writer = "ended" => requests = <<>>

\* What waits in a slot has its id, has begun and is unanswered.
SlotInv ==
    /\ \A id \in Ids : pending[id] # None =>
          IdOf[pending[id]] = id /\ call[pending[id]] # "new" /\ Unanswered(pending[id])
    /\ \A id \in Ids : cancel_acks[id] # None =>
          /\ IdOf[cancel_acks[id]] = id /\ call[cancel_acks[id]] # "new"
          /\ Unanswered(cancel_acks[id])
    /\ \A l \in tool_acks : call[l] # "new"

\* A call that has not begun has no reply, only an answer is about another
\* call, and an execute gets no answer of another kind.
ReplyInv ==
    /\ \A c \in Calls : call[c] = "new" => reply[c] = NoReply(c)
    /\ \A c \in Calls : reply[c].type \in {"none", "duplicate", "disconnected"} => reply[c].about = c
    /\ \A e \in Executes : reply[e].type \notin Acks \cup {"tools"}

\* The guest's executions that are not over.
UnderWay == {e \in Executes : execution[e] \in {"active", "failed", "freed"}}

Asked(c)    == \E i \in DOMAIN requests : requests[i] = c
Answered(c) == \E i \in DOMAIN responses : responses[i].about = c

\* The guest owes the call something, or something about it is on its way.
Outstanding(c) == Asked(c) \/ Answered(c) \/ c \in UnderWay

\* A call is asked once, before anything is said about it and before the guest
\* works on it; a call that has not been sent is unknown.
AskedOnce ==
    \A i, j \in DOMAIN requests : requests[i] = requests[j] /\ requests[i] \in Calls => i = j

AskedFirst ==
    \A c \in Calls : Asked(c) => ~Answered(c) /\ (c \in Executes => execution[c] = "none")

UnsentUnknown ==
    \A c \in Calls : call[c] \in {"new", "registered"} =>
        ~Outstanding(c) /\ (c \in Executes => execution[c] = "none")

\* Only a Failed report is followed by another message about its call, and
\* only it is said of an execution that is under way.
LastWord ==
    \A i, j \in DOMAIN responses :
        i < j /\ responses[i].about = responses[j].about => responses[i].type = "failed"

NotOverYet ==
    \A i \in DOMAIN responses : responses[i].about \in UnderWay => responses[i].type = "failed"

\* The guest's active execution of an id is under way and has that id.
GuestInv ==
    \A id \in Ids : active[id] # None =>
        execution[active[id]] \in {"active", "failed"} /\ IdOf[active[id]] = id

OrderInv == AskedOnce /\ AskedFirst /\ UnsentUnknown /\ LastWord /\ NotOverYet /\ GuestInv

\* What released a call is not its own last answer.
Released(c) ==
    \/ reply[c].about # c
    \/ reply[c].type = "disconnected"
    \/ c \in Executes /\ reply[c].type = "failed"

\* A call waits in its slot or was released.
Slotted(c) ==
    \/ c \in Executes /\ pending[IdOf[c]] = c
    \/ c \in Cancels /\ cancel_acks[IdOf[c]] = c
    \/ Released(c)

OutInv ==
    \A c \in Executes \cup Cancels : Outstanding(c) \/ call[c] = "registered" => Slotted(c)

\* A call got a result that will not change any more.
Resulted(c) == reply[c].type \in Results /\ call[c] # "registered"

RefusedInv ==
    \A i \in DOMAIN responses : responses[i].type = "refused" /\ reader = "reading" =>
        \E d \in Executes : IdOf[d] = IdOf[responses[i].about] /\ Resulted(d)

RefusedReplies ==
    \A e \in Executes : reply[e].type = "refused" =>
        \E d \in Executes \ {e} : IdOf[d] = IdOf[e] /\ Resulted(d)

IInv == Types /\ SlotInv /\ ReplyInv /\ OrderInv /\ OutInv

-----------------------------------------------------------------------------
(* Sequences.                                                              *)

LEMMA Appended ==
    ASSUME NEW S, NEW s \in Seq(S), NEW m \in S
    PROVE  /\ Append(s, m) \in Seq(S)
           /\ \E n \in DOMAIN Append(s, m) :
                /\ \A i \in DOMAIN Append(s, m) : i \in DOMAIN s \/ i = n
                /\ \A i \in DOMAIN s : /\ i \in DOMAIN Append(s, m) /\ Append(s, m)[i] = s[i]
                                       /\ ~(n < i) /\ i # n
                /\ Append(s, m)[n] = m /\ ~(n < n)
  <1>1. /\ Append(s, m) \in Seq(S) /\ Len(s) \in Nat
        /\ DOMAIN s = 1..Len(s) /\ DOMAIN Append(s, m) = 1..(Len(s) + 1)
        /\ \A i \in DOMAIN s : Append(s, m)[i] = s[i]
        /\ Append(s, m)[Len(s) + 1] = m
    OBVIOUS
  <1>2. Append(s, m) \in Seq(S)
    BY <1>1
  <1>3. \E n \in DOMAIN Append(s, m) :
           /\ \A i \in DOMAIN Append(s, m) : i \in DOMAIN s \/ i = n
           /\ \A i \in DOMAIN s : /\ i \in DOMAIN Append(s, m) /\ Append(s, m)[i] = s[i]
                                  /\ ~(n < i) /\ i # n
           /\ Append(s, m)[n] = m /\ ~(n < n)
    <2>1. WITNESS Len(s) + 1 \in DOMAIN Append(s, m)
    <2> QED BY <1>1
  <1> QED BY <1>2, <1>3

LEMMA Dropped ==
    ASSUME NEW S, NEW s \in Seq(S), s # <<>>
    PROVE  /\ Tail(s) \in Seq(S) /\ Head(s) \in S
           /\ 1 \in DOMAIN s /\ s[1] = Head(s)
           /\ \A i \in DOMAIN Tail(s) :
                 /\ i \in Nat /\ 1 < i + 1 /\ i + 1 \in DOMAIN s /\ i + 1 # 1
                 /\ Tail(s)[i] = s[i + 1]
           /\ \A i \in DOMAIN s : i = 1 \/ \E j \in DOMAIN Tail(s) : i = j + 1
  <1>1. /\ Tail(s) \in Seq(S) /\ Head(s) \in S /\ Len(s) \in Nat \ {0}
        /\ DOMAIN s = 1..Len(s) /\ DOMAIN Tail(s) = 1..(Len(s) - 1)
        /\ \A i \in DOMAIN Tail(s) : Tail(s)[i] = s[i + 1]
        /\ s[1] = Head(s)
    OBVIOUS
  <1>2. ASSUME NEW i \in DOMAIN s, i # 1
        PROVE  \E j \in DOMAIN Tail(s) : i = j + 1
    <2>1. i - 1 \in DOMAIN Tail(s) /\ i = (i - 1) + 1
      BY <1>1, <1>2
    <2> QED BY <2>1
  <1> QED BY <1>1, <1>2

-----------------------------------------------------------------------------
(* Types.                                                                  *)

\* Values that are put into the variables.
LEMMA Values ==
    /\ \A c \in Calls : /\ NoReply(c) \in Replies /\ Disconnected(c) \in Replies
                        /\ [type |-> "duplicate", about |-> c] \in Replies
    /\ \A c \in Calls, type \in Results \cup Acks \cup {"tools"} :
          [type |-> type, about |-> c] \in Replies
    /\ \A c \in Calls, type \in Results \cup Acks \cup {"tools", "oversized"} :
          [type |-> type, about |-> c] \in Messages
  BY DEF NoReply, Disconnected, Replies, Messages

LEMMA Kinds ==
    /\ Executes \subseteq Calls /\ Cancels \subseteq Calls /\ Lists \subseteq Calls
    /\ Executes \cap Cancels = {} /\ Executes \cap Lists = {} /\ Cancels \cap Lists = {}
    /\ None \notin Calls /\ Shutdown \notin Calls
    /\ \A c \in Executes \cup Cancels : IdOf[c] \in Ids
  BY CallsAssumption, NamesAssumption DEF Calls

\* Dropping senders or resolving a waiter keeps the type of reply.
LEMMA ReplyTypes ==
    ASSUME Types
    PROVE  /\ \A C : DropSenders(C) \in [Calls -> Replies]
           /\ \A c, type, about : [type |-> type, about |-> about] \in Replies =>
                 Resolve(c, type, about) \in [Calls -> Replies]
  BY Values DEF Types, DropSenders, Resolve

\* The reader takes a message: what it is and who waits for it.
LEMMA ReadMessage ==
    ASSUME Types, responses # <<>>
    PROVE  /\ Head(responses) \in Messages /\ Head(responses).about \in Calls
           /\ MessageKind(Head(responses)) /\ 1 \in DOMAIN responses /\ responses[1] = Head(responses)
           /\ Head(responses).type \in Results => IdOf[Head(responses).about] \in Ids
           /\ Head(responses).type \in Acks => IdOf[Head(responses).about] \in Ids
  <1>1. Head(responses) \in Messages /\ 1 \in DOMAIN responses /\ responses[1] = Head(responses)
    BY Dropped DEF Types
  <1>2. MessageKind(Head(responses))
    BY <1>1 DEF Types
  <1> QED BY <1>1, <1>2, Kinds DEF Messages, MessageKind

\* Replies and slots after the reader's steps.
LEMMA ReaderTypes ==
    ASSUME Types, responses # <<>>, ReadsResult \/ ReadsCancelAck \/ ReadsTools
    PROVE  /\ reply' \in [Calls -> Replies]
           /\ pending' \in [Ids -> Executes \cup {None}]
           /\ cancel_acks' \in [Ids -> Cancels \cup {None}]
           /\ tool_acks' \subseteq Lists
  <1> DEFINE m == Head(responses)
  <1>0. m.about \in Calls
    BY ReadMessage
  <1>1. CASE ReadsResult
    <2>1. m.type \in Results /\ reply' = Resolve(pending[IdOf[m.about]], m.type, m.about)
      BY <1>1 DEF ReadsResult, Results
    <2>2. reply' \in [Calls -> Replies]
      BY <1>0, <2>1, Values, ReplyTypes
    <2> QED BY <1>1, <2>2 DEF ReadsResult, Types
  <1>2. CASE ReadsCancelAck
    <2>1. m.type \in Acks /\ reply' = Resolve(cancel_acks[IdOf[m.about]], m.type, m.about)
      BY <1>2 DEF ReadsCancelAck, Acks
    <2>2. reply' \in [Calls -> Replies]
      BY <1>0, <2>1, Values, ReplyTypes
    <2> QED BY <1>2, <2>2 DEF ReadsCancelAck, Types
  <1>3. CASE ReadsTools
    <2>1. m.type = "tools" /\ (reply' = reply \/ reply' = Resolve(m.about, m.type, m.about))
      BY <1>3 DEF ReadsTools
    <2>2. reply' \in [Calls -> Replies]
      <3>1. [type |-> m.type, about |-> m.about] \in Replies
        BY <1>0, <2>1, Values
      <3>2. reply \in [Calls -> Replies]
        BY DEF Types
      <3> QED BY <2>1, <3>1, <3>2, ReplyTypes
    <2> QED BY <1>3, <2>2 DEF ReadsTools, Types
  <1> QED BY <1>1, <1>2, <1>3

LEMMA TypesStep ==
    ASSUME Types, [Next]_vars
    PROVE  Types'
  <1> USE DEF callers, maps, guest
  <1>0. /\ call \in [Calls -> {"new", "registered", "awaiting", "dropped"}]
        /\ reply \in [Calls -> Replies]
        /\ pending \in [Ids -> Executes \cup {None}]
        /\ cancel_acks \in [Ids -> Cancels \cup {None}]
        /\ tool_acks \subseteq Lists
        /\ requests \in Seq(Calls \cup {Shutdown})
        /\ responses \in Seq(Messages)
        /\ \A i \in DOMAIN responses : MessageKind(responses[i])
        /\ active \in [Ids -> Executes \cup {None}]
        /\ execution \in [Executes -> {"none", "active", "failed", "freed", "ended"}]
        /\ writer = "ended" => requests = <<>>
    BY DEF Types
  <1>q. ASSUME NEW x \in Calls \cup {Shutdown}, requests' = Append(requests, x)
        PROVE  requests' \in Seq(Calls \cup {Shutdown})
    BY <1>0, <1>q, Appended
  <1>t. requests # <<>> => Tail(requests) \in Seq(Calls \cup {Shutdown})
    BY <1>0, Dropped
  <1>r. ASSUME NEW m \in Messages, MessageKind(m), responses' = Append(responses, m)
        PROVE  responses' \in Seq(Messages) /\ \A i \in DOMAIN responses' : MessageKind(responses'[i])
    BY <1>0, <1>r, Appended
  <1>g. Types' <=>
        /\ call' \in [Calls -> {"new", "registered", "awaiting", "dropped"}]
        /\ reply' \in [Calls -> Replies]
        /\ pending' \in [Ids -> Executes \cup {None}]
        /\ cancel_acks' \in [Ids -> Cancels \cup {None}]
        /\ tool_acks' \subseteq Lists
        /\ requests' \in Seq(Calls \cup {Shutdown})
        /\ responses' \in Seq(Messages)
        /\ \A i \in DOMAIN responses' : MessageKind(responses'[i])
        /\ active' \in [Ids -> Executes \cup {None}]
        /\ execution' \in [Executes -> {"none", "active", "failed", "freed", "ended"}]
        /\ writer' = "ended" => requests' = <<>>
    BY DEF Types, MessageKind
  <1>1. CASE UNCHANGED vars
    BY <1>0, <1>1, <1>g DEF vars
  <1>2. ASSUME NEW e \in Executes, ExecuteDuplicate(e) \/ ExecuteRegisters(e) \/ ExecuteSendFails(e)
        PROVE  Types'
    <2>1. e \in Calls
      BY Kinds
    <2>2. reply' \in [Calls -> Replies]
      <3>1. DropSenders({pending[IdOf[e]]}) \in [Calls -> Replies]
        BY ReplyTypes
      <3>2. /\ Disconnected(e) \in Replies
            /\ [type |-> "duplicate", about |-> e] \in Replies
        BY <2>1, Values
      <3>3. \A r \in [Calls -> Replies], x \in Replies : [r EXCEPT ![e] = x] \in [Calls -> Replies]
        OBVIOUS
      <3>4. \/ reply' = reply
            \/ reply' = [reply EXCEPT ![e] = [type |-> "duplicate", about |-> e]]
            \/ reply' = [DropSenders({pending[IdOf[e]]}) EXCEPT ![e] = Disconnected(e)]
        BY <1>2 DEF ExecuteDuplicate, ExecuteRegisters, ExecuteSendFails
      <3> QED BY <1>0, <3>1, <3>2, <3>3, <3>4
    <2> QED BY <1>0, <1>2, <1>g, <2>1, <2>2, Kinds
            DEF ExecuteDuplicate, ExecuteRegisters, ExecuteSendFails
  <1>3. ASSUME NEW l \in Lists, ListRegisters(l) \/ ListSendFails(l)
        PROVE  Types'
    <2>1. l \in Calls
      BY Kinds
    <2> QED BY <1>0, <1>3, <1>g, <2>1, Values DEF ListRegisters, ListSendFails
  <1>4. ASSUME NEW k \in Cancels, CancelSends(k) \/ CancelSendFails(k)
        PROVE  Types'
    <2>1. k \in Calls /\ IdOf[k] \in Ids
      BY Kinds
    <2>2. reply' \in [Calls -> Replies]
      BY <1>4, ReplyTypes DEF CancelSends, CancelSendFails
    <2>3. requests' \in Seq(Calls \cup {Shutdown})
      BY <1>0, <1>4, <1>q, <2>1 DEF CancelSends, CancelSendFails, SendRequest
    <2> QED BY <1>0, <1>4, <1>g, <2>1, <2>2, <2>3 DEF CancelSends, CancelSendFails, SendRequest
  <1>5. ASSUME NEW c \in Calls, Sends(c) \/ CallerDrops(c)
        PROVE  Types'
    <2>1. requests' \in Seq(Calls \cup {Shutdown})
      BY <1>0, <1>5, <1>q DEF Sends, CallerDrops, SendRequest
    <2> QED BY <1>0, <1>5, <1>g, <2>1 DEF Sends, CallerDrops, SendRequest
  <1>6. CASE ClientDrops \/ WritesToLost \/ WriterAborted
    <2>1. \/ requests' = requests \/ requests' = Append(requests, Shutdown)
          \/ requests # <<>> /\ requests' = Tail(requests)
          \/ requests' = <<>>
      BY <1>6 DEF ClientDrops, WritesToLost, WriterAborted
    <2>2. requests' \in Seq(Calls \cup {Shutdown})
      <3>1. CASE requests' = Append(requests, Shutdown)
        BY <1>q, <3>1
      <3>2. CASE requests' = <<>>
        BY <3>2
      <3>3. CASE requests # <<>> /\ requests' = Tail(requests)
        BY <1>t, <3>3
      <3>4. CASE requests' = requests
        BY <1>0, <3>4
      <3> QED BY <2>1, <3>1, <3>2, <3>3, <3>4
    <2> QED BY <1>0, <1>6, <1>g, <2>2 DEF ClientDrops, WritesToLost, WriterAborted
  <1>7. CASE ReaderReads
    <2>1. responses # <<>> /\ responses' = Tail(responses)
      BY <1>7 DEF ReaderReads
    <2>2. responses' \in Seq(Messages) /\ \A i \in DOMAIN responses' : MessageKind(responses'[i])
      BY <1>0, <2>1, Dropped
    <2>3. /\ reply' \in [Calls -> Replies]
          /\ pending' \in [Ids -> Executes \cup {None}]
          /\ cancel_acks' \in [Ids -> Cancels \cup {None}]
          /\ tool_acks' \subseteq Lists
      BY <1>7, <2>1, ReaderTypes DEF ReaderReads
    <2> QED BY <1>0, <1>7, <1>g, <2>2, <2>3 DEF ReaderReads
  <1>8. CASE ReaderStops \/ ConnectionLost
    BY <1>0, <1>8, <1>g DEF ReaderStops, ConnectionLost
  <1>9. CASE DrainPending \/ DrainCancels \/ DrainTools
    <2>1. reply' \in [Calls -> Replies]
      BY <1>9, ReplyTypes DEF DrainPending, DrainCancels, DrainTools
    <2> QED BY <1>0, <1>9, <1>g, <2>1 DEF DrainPending, DrainCancels, DrainTools
  <1>10. CASE GuestReceives
    <2> DEFINE m == Head(requests)
    <2>1. requests # <<>> /\ requests' = Tail(requests)
          /\ UNCHANGED <<call, reply, pending, cancel_acks, tool_acks, writer>>
      BY <1>10 DEF GuestReceives
    <2>2. requests' \in Seq(Calls \cup {Shutdown}) /\ (writer' = "ended" => requests' = <<>>)
      BY <1>0, <1>t, <2>1
    <2>3. CASE GuestExecutes(m)
      <3>1. m \in Executes /\ m \in Calls /\ IdOf[m] \in Ids
        BY <2>3, Kinds DEF GuestExecutes
      <3>2. /\ [type |-> "refused", about |-> m] \in Messages
            /\ MessageKind([type |-> "refused", about |-> m])
        BY <3>1, Values DEF Results, Acks, MessageKind
      <3>3. responses' \in Seq(Messages) /\ \A i \in DOMAIN responses' : MessageKind(responses'[i])
        BY <1>0, <1>r, <2>3, <3>2 DEF GuestExecutes, Answer
      <3>4. /\ active' \in [Ids -> Executes \cup {None}]
            /\ execution' \in [Executes -> {"none", "active", "failed", "freed", "ended"}]
        BY <1>0, <2>3, <3>1 DEF GuestExecutes
      <3> QED BY <1>0, <1>g, <2>1, <2>2, <3>3, <3>4
    <2>4. CASE GuestCancels(m) \/ GuestLists(m)
      <3>1. /\ m \in Calls
            /\ \/ m \in Cancels /\ Answer("found", m)
               \/ m \in Cancels /\ Answer("not_found", m)
               \/ m \in Lists /\ Answer("tools", m)
        BY <2>4, Kinds DEF GuestCancels, GuestLists
      <3>2. /\ [type |-> "found", about |-> m] \in Messages
            /\ [type |-> "not_found", about |-> m] \in Messages
            /\ [type |-> "tools", about |-> m] \in Messages
        BY <3>1, Values DEF Acks
      <3>4. /\ m \in Cancels => /\ MessageKind([type |-> "found", about |-> m])
                                /\ MessageKind([type |-> "not_found", about |-> m])
            /\ MessageKind([type |-> "tools", about |-> m])
        BY DEF Results, Acks, MessageKind
      <3>3. responses' \in Seq(Messages) /\ \A i \in DOMAIN responses' : MessageKind(responses'[i])
        BY <1>r, <3>1, <3>2, <3>4 DEF Answer
      <3> QED BY <1>0, <1>g, <2>1, <2>2, <2>4, <3>3 DEF GuestCancels, GuestLists
    <2>5. CASE GuestShutsDown(m)
      BY <1>0, <1>g, <2>1, <2>2, <2>5 DEF GuestShutsDown
    <2> QED BY <1>10, <2>3, <2>4, <2>5 DEF GuestReceives
  <1>11. ASSUME NEW e \in Executes, GuestFails(e) \/ GuestFrees(e) \/ GuestCompletes(e)
         PROVE  Types'
    <2>1. e \in Calls /\ IdOf[e] \in Ids
      BY Kinds
    <2>2. \A type \in {"failed", "completed", "oversized"} :
             [type |-> type, about |-> e] \in Messages /\ MessageKind([type |-> type, about |-> e])
      BY <2>1, Values DEF Results, Acks, MessageKind
    <2>3. responses' \in Seq(Messages) /\ \A i \in DOMAIN responses' : MessageKind(responses'[i])
      BY <1>0, <1>r, <1>11, <2>2 DEF GuestFails, GuestFrees, GuestCompletes, Answer
    <2> QED BY <1>0, <1>g, <1>11, <2>1, <2>3 DEF GuestFails, GuestFrees, GuestCompletes
  <1> QED
    BY <1>1, <1>2, <1>3, <1>4, <1>5, <1>6, <1>7, <1>8, <1>9, <1>10, <1>11
    DEF Next, CallStep, Writer, Reader

-----------------------------------------------------------------------------
(* What a step does to a reply and to the slots.                           *)

\* The call is told that the connection is gone, or loses its slot.
CutOff(c) ==
    /\ reply'[c] = Disconnected(c) /\ call'[c] # "new"
    /\ Unanswered(c) \/ (call[c] = "registered" /\ call'[c] = "awaiting")
    /\ \/ reader' # "reading" \/ writer' = "ended"
       \/ c \in Cancels /\ \E k \in Cancels \ {c} : IdOf[k] = IdOf[c] /\ call'[k] # "new"

\* The id is in use.
Duplicate(c) ==
    call[c] = "new" /\ reply'[c] = [type |-> "duplicate", about |-> c] /\ call'[c] = "awaiting"

\* The reader delivers a message.
Delivered(c) ==
    LET m == Head(responses) IN
    /\ ReaderReads
    /\ Unanswered(c) /\ call[c] # "new" /\ call'[c] = call[c]
    /\ reply'[c] = [type |-> m.type, about |-> m.about]
    /\ \/ m.type \in Results /\ c = pending[IdOf[m.about]]
       \/ m.type \in Acks /\ c = cancel_acks[IdOf[m.about]]
       \/ m.type = "tools" /\ c = m.about /\ c \in Lists

ReplyEffect(c) ==
    /\ call[c] # "new" => call'[c] # "new"
    /\ reply'[c] = reply[c] \/ CutOff(c) \/ Duplicate(c) \/ Delivered(c)

\* What is in a slot has been there unanswered or has just begun, and what has
\* left it is answered.
ExecuteSlot(id) ==
    /\ pending'[id] # None =>
          \/ pending'[id] = pending[id] /\ reply'[pending[id]] = reply[pending[id]]
          \/ /\ call[pending'[id]] = "new" /\ call'[pending'[id]] # "new"
             /\ IdOf[pending'[id]] = id /\ reply'[pending'[id]] = reply[pending'[id]]
    /\ pending[id] # None /\ pending'[id] # pending[id] => reply'[pending[id]] # reply[pending[id]]

CancelSlot(id) ==
    /\ cancel_acks'[id] # None =>
          \/ cancel_acks'[id] = cancel_acks[id] /\ reply'[cancel_acks[id]] = reply[cancel_acks[id]]
          \/ /\ call[cancel_acks'[id]] = "new" /\ call'[cancel_acks'[id]] # "new"
             /\ IdOf[cancel_acks'[id]] = id /\ reply'[cancel_acks'[id]] = reply[cancel_acks'[id]]
    /\ cancel_acks[id] # None /\ cancel_acks'[id] # cancel_acks[id] =>
          reply'[cancel_acks[id]] # reply[cancel_acks[id]]

ListSlots == \A l \in tool_acks' : l \in tool_acks \/ call'[l] # "new"

Effects ==
    /\ \A c \in Calls : ReplyEffect(c)
    /\ \A id \in Ids : ExecuteSlot(id) /\ CancelSlot(id)
    /\ ListSlots

\* What dropping senders and resolving do to each reply.
LEMMA DropFacts ==
    ASSUME Types, NEW C, NEW c \in Calls
    PROVE  /\ c \notin C => DropSenders(C)[c] = reply[c]
           /\ c \in C /\ Unanswered(c) => DropSenders(C)[c] = Disconnected(c)
           /\ c \in C /\ ~Unanswered(c) => DropSenders(C)[c] = reply[c]
           /\ DropSenders(C) \in [Calls -> Replies]
           /\ Unanswered(c) => Disconnected(c) # reply[c]
  <1>1. Disconnected(c).type = "disconnected"
    BY DEF Disconnected
  <1> QED BY <1>1, ReplyTypes DEF DropSenders, Unanswered

LEMMA ResolveFacts ==
    ASSUME NEW x, NEW type, NEW about, NEW c \in Calls
    PROVE  /\ c # x => Resolve(x, type, about)[c] = reply[c]
           /\ c = x /\ Unanswered(c) => Resolve(x, type, about)[c] = [type |-> type, about |-> about]
           /\ c = x /\ ~Unanswered(c) => Resolve(x, type, about)[c] = reply[c]
           /\ Unanswered(c) /\ type # "none" => [type |-> type, about |-> about] # reply[c]
  <1>1. [type |-> type, about |-> about].type = type
    OBVIOUS
  <1> QED BY <1>1 DEF Resolve, Unanswered

\* Replies and slots stay as they are.
LEMMA EffectsQuiet ==
    ASSUME \A c \in Calls : call[c] # "new" => call'[c] # "new",
           UNCHANGED <<reply, pending, cancel_acks, tool_acks>>
    PROVE  Effects
  BY DEF Effects, ReplyEffect, ExecuteSlot, CancelSlot, ListSlots

\* The calls that do not wait for the guest.
LEMMA EffectsOfCalls ==
    ASSUME Types, SlotInv, ReplyInv, NEW c \in Calls,
           \/ c \in Executes /\ ExecuteDuplicate(c)
           \/ c \in Executes /\ ExecuteRegisters(c)
           \/ c \in Executes /\ ExecuteSendFails(c)
           \/ c \in Lists /\ ListRegisters(c)
           \/ c \in Lists /\ ListSendFails(c)
    PROVE  Effects
  <1> USE Kinds DEF callers, maps, guest
  <1>0. /\ call \in [Calls -> {"new", "registered", "awaiting", "dropped"}]
        /\ reply \in [Calls -> Replies] /\ pending \in [Ids -> Executes \cup {None}]
        /\ cancel_acks \in [Ids -> Cancels \cup {None}] /\ tool_acks \subseteq Lists
    BY DEF Types
  <1>1. CASE c \in Executes /\ ExecuteDuplicate(c)
    <2>1. /\ call[c] = "new" /\ call'[c] = "awaiting" /\ reply'[c] = [type |-> "duplicate", about |-> c]
          /\ \A d \in Calls : d # c => call'[d] = call[d] /\ reply'[d] = reply[d]
          /\ UNCHANGED <<pending, cancel_acks, tool_acks>>
      BY <1>0, <1>1 DEF ExecuteDuplicate, Begin
    <2>2. \A d \in Calls : ReplyEffect(d)
      BY <2>1 DEF ReplyEffect, Duplicate
    <2>3. \A id \in Ids : pending[id] # c /\ cancel_acks[id] # c
      BY <1>0, <2>1 DEF SlotInv
    <2> QED BY <1>0, <2>1, <2>2, <2>3 DEF Effects, ExecuteSlot, CancelSlot, ListSlots
  <1>2. CASE c \in Executes /\ ExecuteRegisters(c)
    <2>1. /\ call[c] = "new" /\ call'[c] = "registered" /\ IdOf[c] \in Ids
          /\ \A d \in Calls : d # c => call'[d] = call[d]
          /\ pending[IdOf[c]] = None /\ pending'[IdOf[c]] = c
          /\ \A id \in Ids : id # IdOf[c] => pending'[id] = pending[id]
          /\ UNCHANGED <<reply, cancel_acks, tool_acks>>
      BY <1>0, <1>2 DEF ExecuteRegisters, Begin
    <2>2. \A d \in Calls : ReplyEffect(d)
      BY <2>1 DEF ReplyEffect
    <2> QED BY <1>0, <2>1, <2>2 DEF Effects, ExecuteSlot, CancelSlot, ListSlots
  <1>3. CASE c \in Executes /\ ExecuteSendFails(c)
    <2> DEFINE w == pending[IdOf[c]]
    <2>1. /\ call[c] = "registered" /\ call'[c] = "awaiting" /\ IdOf[c] \in Ids
          /\ \A d \in Calls : d # c => call'[d] = call[d]
          /\ writer' = "ended"
          /\ pending'[IdOf[c]] = None
          /\ \A id \in Ids : id # IdOf[c] => pending'[id] = pending[id]
          /\ UNCHANGED <<cancel_acks, tool_acks>>
      BY <1>0, <1>3 DEF ExecuteSendFails
    <2>2. reply' = [DropSenders({w}) EXCEPT ![c] = Disconnected(c)]
      BY <1>3 DEF ExecuteSendFails
    <2>3. w # None => w \in Executes /\ Unanswered(w) /\ call[w] # "new"
      BY <1>0, <2>1 DEF SlotInv
    <2>4. /\ reply'[c] = Disconnected(c)
          /\ \A d \in Calls : d # c /\ d # w => reply'[d] = reply[d]
          /\ w # None => reply'[w] = Disconnected(w) /\ Disconnected(w) # reply[w]
      <3>1. DropSenders({w}) \in [Calls -> Replies]
        BY DropFacts
      <3>2. \A d \in Calls : d # w => DropSenders({w})[d] = reply[d]
        BY DropFacts
      <3>3. w # None => DropSenders({w})[w] = Disconnected(w) /\ Disconnected(w) # reply[w]
        BY <2>3, DropFacts
      <3> HIDE DEF w
      <3> QED BY <2>2, <2>3, <3>1, <3>2, <3>3
    <2>5. \A d \in Calls : ReplyEffect(d)
      <3> SUFFICES ASSUME NEW d \in Calls PROVE ReplyEffect(d)
        OBVIOUS
      <3>1. CASE d = c
        BY <2>1, <2>4, <3>1 DEF ReplyEffect, CutOff
      <3>2. CASE d # c /\ d = w
        <4>1. d # None
          BY Kinds
        <4>2. reply'[d] = Disconnected(d) /\ Unanswered(d) /\ call[d] # "new" /\ call'[d] # "new"
          BY <2>1, <2>3, <2>4, <3>2, <4>1
        <4> QED BY <2>1, <4>2 DEF ReplyEffect, CutOff
      <3>3. CASE d # c /\ d # w
        BY <2>1, <2>4, <3>3 DEF ReplyEffect
      <3> QED BY <3>1, <3>2, <3>3
    <2>6. ASSUME NEW id \in Ids
          PROVE  ExecuteSlot(id) /\ CancelSlot(id)
      <3>1. id # IdOf[c] /\ pending[id] # None => pending[id] # c /\ pending[id] # w
        BY <1>0, <2>1, <2>3 DEF SlotInv
      <3>2. cancel_acks[id] # None => cancel_acks[id] # c /\ cancel_acks[id] # w
        BY <1>0, <1>3, <2>1
      <3>3. ExecuteSlot(id)
        BY <1>0, <2>1, <2>4, <3>1 DEF ExecuteSlot
      <3>4. CancelSlot(id)
        BY <1>0, <2>1, <2>4, <3>2 DEF CancelSlot
      <3> QED BY <3>3, <3>4
    <2> QED BY <2>1, <2>5, <2>6 DEF Effects, ListSlots
  <1>4. CASE c \in Lists /\ ListRegisters(c)
    <2>1. /\ call'[c] = "registered" /\ \A d \in Calls : d # c => call'[d] = call[d]
          /\ tool_acks' = tool_acks \cup {c}
          /\ UNCHANGED <<reply, pending, cancel_acks>>
      BY <1>0, <1>4 DEF ListRegisters
    <2> QED BY <2>1 DEF Effects, ReplyEffect, ExecuteSlot, CancelSlot, ListSlots
  <1>5. CASE c \in Lists /\ ListSendFails(c)
    <2>1. /\ call[c] = "registered" /\ call'[c] = "awaiting" /\ writer' = "ended"
          /\ \A d \in Calls : d # c => call'[d] = call[d] /\ reply'[d] = reply[d]
          /\ reply'[c] = Disconnected(c)
          /\ tool_acks' \subseteq tool_acks
          /\ UNCHANGED <<pending, cancel_acks>>
      BY <1>0, <1>5 DEF ListSendFails
    <2>2. \A d \in Calls : ReplyEffect(d)
      BY <2>1 DEF ReplyEffect, CutOff
    <2>3. \A id \in Ids : pending[id] # c /\ cancel_acks[id] # c
      BY <1>0, <1>5
    <2> QED BY <1>0, <2>1, <2>2, <2>3 DEF Effects, ExecuteSlot, CancelSlot, ListSlots
  <1> QED BY <1>1, <1>2, <1>3, <1>4, <1>5

\* A cancel takes the slot of its id, or finds the writer gone.
LEMMA EffectsOfCancels ==
    ASSUME Types, SlotInv, ReplyInv, NEW k \in Cancels, CancelSends(k) \/ CancelSendFails(k)
    PROVE  Effects
  <1> USE Kinds DEF callers, maps, guest
  <1> DEFINE w == cancel_acks[IdOf[k]]
  <1>0. /\ call \in [Calls -> {"new", "registered", "awaiting", "dropped"}]
        /\ reply \in [Calls -> Replies] /\ pending \in [Ids -> Executes \cup {None}]
        /\ cancel_acks \in [Ids -> Cancels \cup {None}] /\ tool_acks \subseteq Lists
        /\ IdOf[k] \in Ids /\ k \in Calls
    BY DEF Types
  <1>1. /\ call[k] = "new" /\ call'[k] = "awaiting"
        /\ \A d \in Calls : d # k => call'[d] = call[d]
        /\ \A id \in Ids : id # IdOf[k] => cancel_acks'[id] = cancel_acks[id]
        /\ UNCHANGED <<pending, tool_acks>>
    BY <1>0 DEF CancelSends, CancelSendFails, Begin
  <1>2. reply[k] = NoReply(k) /\ Unanswered(k)
    BY <1>0, <1>1 DEF ReplyInv, NoReply, Unanswered
  <1>3. w # None => w \in Cancels /\ Unanswered(w) /\ call[w] # "new" /\ IdOf[w] = IdOf[k] /\ w # k
    BY <1>0, <1>1 DEF SlotInv
  <1>4. /\ \A d \in Calls : d # k /\ d # w => reply'[d] = reply[d]
        /\ w # None => reply'[w] = Disconnected(w) /\ Disconnected(w) # reply[w]
        /\ \/ cancel_acks'[IdOf[k]] = k /\ reply'[k] = reply[k]
           \/ cancel_acks'[IdOf[k]] = None /\ reply'[k] = Disconnected(k) /\ writer' = "ended"
    <2>1. CASE CancelSends(k)
      <3>1. reply' = DropSenders({w}) /\ cancel_acks'[IdOf[k]] = k
        BY <1>0, <2>1 DEF CancelSends
      <3>2. k \notin {w}
        BY <1>0, <1>3
      <3> HIDE DEF w
      <3> QED BY <1>0, <1>3, <3>1, <3>2, DropFacts
    <2>2. CASE CancelSendFails(k)
      <3>1. reply' = DropSenders({w, k}) /\ cancel_acks'[IdOf[k]] = None /\ writer' = "ended"
        BY <1>0, <2>2 DEF CancelSendFails
      <3> HIDE DEF w
      <3> QED BY <1>0, <1>2, <1>3, <3>1, DropFacts
    <2> QED BY <2>1, <2>2
  <1> HIDE DEF w
  <1>5. ASSUME NEW d \in Calls
        PROVE  ReplyEffect(d)
    <2>1. CASE d = k
      BY <1>1, <1>2, <1>4, <2>1 DEF ReplyEffect, CutOff
    <2>2. CASE d # k /\ d = w
      <3>1. d # None
        OBVIOUS
      <3>2. /\ reply'[d] = Disconnected(d) /\ Unanswered(d) /\ call[d] # "new" /\ call'[d] # "new"
            /\ d \in Cancels /\ k \in Cancels \ {d} /\ IdOf[k] = IdOf[d] /\ call'[k] # "new"
        BY <1>1, <1>3, <1>4, <2>2, <3>1
      <3> QED BY <3>2 DEF ReplyEffect, CutOff
    <2>3. CASE d # k /\ d # w
      BY <1>1, <1>4, <2>3 DEF ReplyEffect
    <2> QED BY <2>1, <2>2, <2>3
  <1>6. ASSUME NEW id \in Ids
        PROVE  ExecuteSlot(id) /\ CancelSlot(id)
    <2>1. pending[id] # None => pending[id] \in Calls /\ pending[id] # k /\ pending[id] # w
      BY <1>0, <1>3
    <2>2. ExecuteSlot(id)
      BY <1>1, <1>4, <2>1 DEF ExecuteSlot
    <2>3. CASE id # IdOf[k]
      <3>1. cancel_acks[id] # None => cancel_acks[id] \in Calls /\ cancel_acks[id] # k /\ cancel_acks[id] # w
        BY <1>0, <1>1, <1>3, <2>3 DEF SlotInv
      <3> QED BY <1>1, <1>4, <2>2, <2>3, <3>1 DEF CancelSlot
    <2>4. CASE id = IdOf[k]
      <3>1. cancel_acks[id] = w
        BY <2>4 DEF w
      <3> QED BY <1>1, <1>3, <1>4, <2>2, <2>4, <3>1 DEF CancelSlot
    <2> QED BY <2>3, <2>4
  <1> QED BY <1>1, <1>5, <1>6 DEF Effects, ListSlots

\* The reader delivers the message to what waits in its slot.
LEMMA EffectsOfReader ==
    ASSUME Types, SlotInv, ReplyInv, ReaderReads
    PROVE  Effects
  <1> USE Kinds
  <1> DEFINE m == Head(responses)
  <1>0. /\ pending \in [Ids -> Executes \cup {None}] /\ cancel_acks \in [Ids -> Cancels \cup {None}]
        /\ tool_acks \subseteq Lists /\ responses # <<>> /\ call' = call
    BY DEF Types, ReaderReads
  <1>1. /\ m.type \in Results => IdOf[m.about] \in Ids
        /\ m.type \in Acks => IdOf[m.about] \in Ids
    BY <1>0, ReadMessage
  <1>2. ASSUME NEW w, m.type \in Results \cup Acks \cup {"tools"},
               reply' = Resolve(w, m.type, m.about)
        PROVE  /\ \A d \in Calls : d # w => reply'[d] = reply[d]
               /\ \A d \in Calls : d = w /\ Unanswered(d) =>
                     reply'[d] = [type |-> m.type, about |-> m.about] /\ reply'[d] # reply[d]
               /\ \A d \in Calls : d = w /\ ~Unanswered(d) => reply'[d] = reply[d]
    <2>1. m.type # "none"
      BY <1>2 DEF Results, Acks
    <2> HIDE DEF m
    <2> QED BY <1>2, <2>1, ResolveFacts
  <1>3. CASE ReadsResult
    <2> DEFINE w == pending[IdOf[m.about]]
    <2>1. /\ m.type \in Results /\ reply' = Resolve(w, m.type, m.about)
          /\ pending' = [pending EXCEPT ![IdOf[m.about]] = None]
          /\ UNCHANGED <<cancel_acks, tool_acks>>
      BY <1>3 DEF ReadsResult, Results
    <2>2. w # None => w \in Executes /\ Unanswered(w) /\ call[w] # "new"
      BY <1>0, <1>1, <2>1 DEF SlotInv
    <2>3. /\ \A d \in Calls : d # w => reply'[d] = reply[d]
          /\ w # None => reply'[w] = [type |-> m.type, about |-> m.about] /\ reply'[w] # reply[w]
      <3> HIDE DEF m, w
      <3> QED BY <1>2, <2>1, <2>2
    <2>4. \A d \in Calls : ReplyEffect(d)
      <3>1. ASSUME NEW d \in Calls, d = w
            PROVE  Delivered(d)
        BY <1>0, <2>1, <2>2, <2>3, <3>1 DEF Delivered
      <3> QED BY <1>0, <2>3, <3>1 DEF ReplyEffect
    <2>5. ASSUME NEW id \in Ids
          PROVE  ExecuteSlot(id) /\ CancelSlot(id)
      <3>1. ExecuteSlot(id)
        <4>1. CASE id = IdOf[m.about]
          BY <1>0, <2>1, <2>3, <4>1 DEF ExecuteSlot
        <4>2. CASE id # IdOf[m.about]
          <5>1. pending[id] # None => pending[id] \in Calls /\ pending[id] # w
            BY <1>0, <1>1, <2>1, <4>2 DEF SlotInv
          <5>2. pending'[id] = pending[id]
            BY <1>0, <2>1, <4>2
          <5> QED BY <2>3, <5>1, <5>2 DEF ExecuteSlot
        <4> QED BY <4>1, <4>2
      <3>2. cancel_acks[id] # None => cancel_acks[id] \in Calls /\ cancel_acks[id] # w
        BY <1>0, <2>2
      <3> QED BY <2>1, <2>3, <3>1, <3>2 DEF CancelSlot
    <2> QED BY <2>1, <2>4, <2>5 DEF Effects, ListSlots
  <1>4. CASE ReadsCancelAck
    <2> DEFINE w == cancel_acks[IdOf[m.about]]
    <2>1. /\ m.type \in Acks /\ reply' = Resolve(w, m.type, m.about)
          /\ cancel_acks' = [cancel_acks EXCEPT ![IdOf[m.about]] = None]
          /\ UNCHANGED <<pending, tool_acks>>
      BY <1>4 DEF ReadsCancelAck, Acks
    <2>2. w # None => w \in Cancels /\ Unanswered(w) /\ call[w] # "new"
      BY <1>0, <1>1, <2>1 DEF SlotInv
    <2>3. /\ \A d \in Calls : d # w => reply'[d] = reply[d]
          /\ w # None => reply'[w] = [type |-> m.type, about |-> m.about] /\ reply'[w] # reply[w]
      <3> HIDE DEF m, w
      <3> QED BY <1>2, <2>1, <2>2
    <2>4. \A d \in Calls : ReplyEffect(d)
      <3>1. ASSUME NEW d \in Calls, d = w
            PROVE  Delivered(d)
        BY <1>0, <2>1, <2>2, <2>3, <3>1 DEF Delivered
      <3> QED BY <1>0, <2>3, <3>1 DEF ReplyEffect
    <2>5. ASSUME NEW id \in Ids
          PROVE  ExecuteSlot(id) /\ CancelSlot(id)
      <3>1. CancelSlot(id)
        <4>1. CASE id = IdOf[m.about]
          BY <1>0, <2>1, <2>3, <4>1 DEF CancelSlot
        <4>2. CASE id # IdOf[m.about]
          <5>1. cancel_acks[id] # None => cancel_acks[id] \in Calls /\ cancel_acks[id] # w
            BY <1>0, <1>1, <2>1, <4>2 DEF SlotInv
          <5>2. cancel_acks'[id] = cancel_acks[id]
            BY <1>0, <2>1, <4>2
          <5> QED BY <2>3, <5>1, <5>2 DEF CancelSlot
        <4> QED BY <4>1, <4>2
      <3>2. pending[id] # None => pending[id] \in Calls /\ pending[id] # w
        BY <1>0, <2>2
      <3> QED BY <2>1, <2>3, <3>1, <3>2 DEF ExecuteSlot
    <2> QED BY <2>1, <2>4, <2>5 DEF Effects, ListSlots
  <1>5. CASE ReadsTools
    <2>1. /\ m.type = "tools" /\ tool_acks' \subseteq tool_acks /\ UNCHANGED <<pending, cancel_acks>>
          /\ \/ reply' = reply
             \/ m.about \in tool_acks /\ reply' = Resolve(m.about, m.type, m.about)
      BY <1>5 DEF ReadsTools
    <2>2. CASE reply' = reply
      BY <1>0, <2>1, <2>2 DEF Effects, ReplyEffect, ExecuteSlot, CancelSlot, ListSlots
    <2>3. CASE m.about \in tool_acks /\ reply' = Resolve(m.about, m.type, m.about)
      <3>1. m.about \in Lists /\ call[m.about] # "new"
        BY <1>0, <2>3 DEF SlotInv
      <3>2. /\ \A d \in Calls : d # m.about => reply'[d] = reply[d]
            /\ \A d \in Calls : d = m.about /\ Unanswered(d) =>
                     reply'[d] = [type |-> m.type, about |-> m.about]
            /\ \A d \in Calls : d = m.about /\ ~Unanswered(d) => reply'[d] = reply[d]
        BY <1>2, <2>1, <2>3
      <3>3. \A d \in Calls : ReplyEffect(d)
        <4>1. ASSUME NEW d \in Calls, d = m.about, Unanswered(d)
              PROVE  Delivered(d)
          BY <1>0, <2>1, <3>1, <3>2, <4>1 DEF Delivered
        <4> QED BY <1>0, <3>2, <4>1 DEF ReplyEffect
      <3>4. \A id \in Ids : pending[id] # m.about /\ cancel_acks[id] # m.about
        BY <1>0, <3>1
      <3> QED BY <1>0, <2>1, <3>2, <3>3, <3>4 DEF Effects, ExecuteSlot, CancelSlot, ListSlots
    <2> QED BY <2>1, <2>2, <2>3
  <1> QED BY <1>3, <1>4, <1>5 DEF ReaderReads

\* The reader has stopped and empties a map.
LEMMA EffectsOfDrains ==
    ASSUME Types, SlotInv, ReplyInv, DrainPending \/ DrainCancels \/ DrainTools
    PROVE  Effects
  <1> USE Kinds
  <1>0. /\ pending \in [Ids -> Executes \cup {None}] /\ cancel_acks \in [Ids -> Cancels \cup {None}]
        /\ tool_acks \subseteq Lists /\ call' = call /\ reader' # "reading"
    BY DEF Types, DrainPending, DrainCancels, DrainTools
  <1>1. ASSUME NEW C, reply' = DropSenders(C), \A d \in Calls : d \in C => call[d] # "new"
        PROVE  /\ \A d \in Calls : ReplyEffect(d)
               /\ \A d \in Calls : d \notin C => reply'[d] = reply[d]
               /\ \A d \in Calls : d \in C /\ Unanswered(d) => reply'[d] # reply[d]
    <2>1. ASSUME NEW d \in Calls
          PROVE  /\ d \notin C => reply'[d] = reply[d]
                 /\ d \in C /\ Unanswered(d) => reply'[d] = Disconnected(d) /\ reply'[d] # reply[d]
                 /\ d \in C /\ ~Unanswered(d) => reply'[d] = reply[d]
      BY <1>1, DropFacts
    <2>2. ASSUME NEW d \in Calls
          PROVE  ReplyEffect(d)
      BY <1>0, <1>1, <2>1 DEF ReplyEffect, CutOff
    <2> QED BY <2>1, <2>2
  <1>2. CASE DrainPending
    <2> DEFINE C == {pending[id] : id \in Ids}
    <2>1. /\ reply' = DropSenders(C) /\ \A id \in Ids : pending'[id] = None
          /\ UNCHANGED <<cancel_acks, tool_acks>>
      BY <1>2 DEF DrainPending
    <2>2. \A d \in Calls : d \in C => call[d] # "new" /\ Unanswered(d) /\ d \in Executes
      BY <1>0 DEF SlotInv
    <2>3. \A id \in Ids : pending[id] \in C
      OBVIOUS
    <2> HIDE DEF C
    <2>4. /\ \A d \in Calls : ReplyEffect(d)
          /\ \A d \in Calls : d \notin C => reply'[d] = reply[d]
          /\ \A d \in Calls : d \in C /\ Unanswered(d) => reply'[d] # reply[d]
      BY <1>1, <2>1, <2>2
    <2>5. \A id \in Ids : ExecuteSlot(id) /\ CancelSlot(id)
      <3>1. \A id \in Ids : pending[id] # None => reply'[pending[id]] # reply[pending[id]]
        BY <1>0, <2>2, <2>3, <2>4
      <3>2. \A id \in Ids : cancel_acks[id] # None => reply'[cancel_acks[id]] = reply[cancel_acks[id]]
        BY <1>0, <2>2, <2>4
      <3> QED BY <2>1, <3>1, <3>2 DEF ExecuteSlot, CancelSlot
    <2> QED BY <2>1, <2>4, <2>5 DEF Effects, ListSlots
  <1>3. CASE DrainCancels
    <2> DEFINE C == {cancel_acks[id] : id \in Ids}
    <2>1. /\ reply' = DropSenders(C) /\ \A id \in Ids : cancel_acks'[id] = None
          /\ UNCHANGED <<pending, tool_acks>>
      BY <1>3 DEF DrainCancels
    <2>2. \A d \in Calls : d \in C => call[d] # "new" /\ Unanswered(d) /\ d \in Cancels
      BY <1>0 DEF SlotInv
    <2>3. \A id \in Ids : cancel_acks[id] \in C
      OBVIOUS
    <2> HIDE DEF C
    <2>4. /\ \A d \in Calls : ReplyEffect(d)
          /\ \A d \in Calls : d \notin C => reply'[d] = reply[d]
          /\ \A d \in Calls : d \in C /\ Unanswered(d) => reply'[d] # reply[d]
      BY <1>1, <2>1, <2>2
    <2>5. \A id \in Ids : ExecuteSlot(id) /\ CancelSlot(id)
      <3>1. \A id \in Ids : cancel_acks[id] # None => reply'[cancel_acks[id]] # reply[cancel_acks[id]]
        BY <1>0, <2>2, <2>3, <2>4
      <3>2. \A id \in Ids : pending[id] # None => reply'[pending[id]] = reply[pending[id]]
        BY <1>0, <2>2, <2>4
      <3> QED BY <2>1, <3>1, <3>2 DEF ExecuteSlot, CancelSlot
    <2> QED BY <2>1, <2>4, <2>5 DEF Effects, ListSlots
  <1>4. CASE DrainTools
    <2>1. /\ reply' = DropSenders(tool_acks) /\ tool_acks' = {} /\ UNCHANGED <<pending, cancel_acks>>
      BY <1>4 DEF DrainTools
    <2>2. \A d \in Calls : d \in tool_acks => call[d] # "new"
      BY DEF SlotInv
    <2>3. /\ \A d \in Calls : ReplyEffect(d)
          /\ \A d \in Calls : d \notin tool_acks => reply'[d] = reply[d]
      BY <1>1, <2>1, <2>2
    <2>4. \A id \in Ids :
             /\ pending[id] # None => reply'[pending[id]] = reply[pending[id]]
             /\ cancel_acks[id] # None => reply'[cancel_acks[id]] = reply[cancel_acks[id]]
      BY <1>0, <2>3
    <2>5. ASSUME NEW id \in Ids
          PROVE  ExecuteSlot(id) /\ CancelSlot(id)
      <3>1. /\ pending'[id] = pending[id] /\ cancel_acks'[id] = cancel_acks[id]
            /\ pending[id] # None => reply'[pending[id]] = reply[pending[id]]
            /\ cancel_acks[id] # None => reply'[cancel_acks[id]] = reply[cancel_acks[id]]
        BY <2>1, <2>4
      <3>2. ExecuteSlot(id)
        BY ONLY <3>1 DEF ExecuteSlot
      <3>3. CancelSlot(id)
        BY ONLY <3>1 DEF CancelSlot
      <3> QED BY <3>2, <3>3
    <2>6. ListSlots
      BY <2>1 DEF ListSlots
    <2> QED BY <2>3, <2>5, <2>6 DEF Effects
  <1> QED BY <1>2, <1>3, <1>4

\* Every step has these effects.
LEMMA EffectsStep ==
    ASSUME Types, SlotInv, ReplyInv, [Next]_vars
    PROVE  Effects
  <1> USE DEF callers, maps, guest
  <1>1. CASE UNCHANGED vars
    BY <1>1, EffectsQuiet DEF vars
  <1>2. ASSUME NEW c \in Calls, Sends(c) \/ CallerDrops(c)
        PROVE  Effects
    <2>1. /\ UNCHANGED <<reply, pending, cancel_acks, tool_acks>>
          /\ call' = [call EXCEPT ![c] = "awaiting"] \/ call' = [call EXCEPT ![c] = "dropped"]
      BY <1>2 DEF Sends, CallerDrops
    <2>2. \A d \in Calls : call[d] # "new" => call'[d] # "new"
      BY <2>1 DEF Types
    <2> QED BY <2>1, <2>2, EffectsQuiet
  <1>3. CASE \/ ClientDrops \/ Writer \/ ReaderStops \/ GuestReceives \/ ConnectionLost
             \/ \E e \in Executes : GuestFails(e) \/ GuestFrees(e) \/ GuestCompletes(e)
    <2>1. UNCHANGED <<call, reply, pending, cancel_acks, tool_acks>>
      BY <1>3 DEF ClientDrops, Writer, WritesToLost, WriterAborted, ReaderStops, GuestReceives,
                  ConnectionLost, GuestFails, GuestFrees, GuestCompletes
    <2> QED BY <2>1, EffectsQuiet
  <1> QED
    BY <1>1, <1>2, <1>3, EffectsOfCalls, EffectsOfCancels, EffectsOfReader, EffectsOfDrains, Kinds
    DEF Next, CallStep, Reader

-----------------------------------------------------------------------------
(* Slots, replies and Disconnected.                                        *)

LEMMA SlotStep ==
    ASSUME Types, Types', SlotInv, ReplyInv, Effects
    PROVE  SlotInv' /\ ReplyInv'
  <1> USE Kinds
  <1>0. /\ pending \in [Ids -> Executes \cup {None}] /\ cancel_acks \in [Ids -> Cancels \cup {None}]
        /\ pending' \in [Ids -> Executes \cup {None}] /\ cancel_acks' \in [Ids -> Cancels \cup {None}]
        /\ tool_acks \subseteq Lists /\ tool_acks' \subseteq Lists
    BY DEF Types
  <1>1. \A c \in Calls : call[c] # "new" => call'[c] # "new"
    BY DEF Effects, ReplyEffect
  <1>2. \A c \in Calls : reply'[c] = reply[c] => (Unanswered(c)' <=> Unanswered(c))
    BY DEF Unanswered
  <1>3. \A c \in Calls : call[c] = "new" => Unanswered(c)
    <2>1. \A c \in Calls : NoReply(c).type = "none"
      BY DEF NoReply
    <2> QED BY <2>1 DEF ReplyInv, Unanswered
  <1>4. ASSUME NEW id \in Ids, pending'[id] # None
        PROVE  /\ IdOf[pending'[id]] = id /\ call'[pending'[id]] # "new"
               /\ Unanswered(pending[id])'
    <2> DEFINE c == pending'[id]
    <2>1. c \in Calls
      BY <1>0, <1>4
    <2>2. \/ c = pending[id] /\ reply'[c] = reply[c]
          \/ call[c] = "new" /\ call'[c] # "new" /\ IdOf[c] = id /\ reply'[c] = reply[c]
      BY <1>4 DEF Effects, ExecuteSlot
    <2>3. IdOf[c] = id /\ call'[c] # "new" /\ Unanswered(c)
      BY <1>1, <1>3, <1>4, <2>1, <2>2 DEF SlotInv
    <2>4. reply'[c] = reply[c]
      BY <2>2
    <2> QED BY <2>3, <2>4 DEF Unanswered
  <1>5. ASSUME NEW id \in Ids, cancel_acks'[id] # None
        PROVE  /\ IdOf[cancel_acks'[id]] = id /\ call'[cancel_acks'[id]] # "new"
               /\ Unanswered(cancel_acks[id])'
    <2> DEFINE c == cancel_acks'[id]
    <2>1. c \in Calls
      BY <1>0, <1>5
    <2>2. \/ c = cancel_acks[id] /\ reply'[c] = reply[c]
          \/ call[c] = "new" /\ call'[c] # "new" /\ IdOf[c] = id /\ reply'[c] = reply[c]
      BY <1>5 DEF Effects, CancelSlot
    <2>3. IdOf[c] = id /\ call'[c] # "new" /\ Unanswered(c)
      BY <1>1, <1>3, <1>5, <2>1, <2>2 DEF SlotInv
    <2>4. reply'[c] = reply[c]
      BY <2>2
    <2> QED BY <2>3, <2>4 DEF Unanswered
  <1>6. \A l \in tool_acks' : call'[l] # "new"
    BY <1>0, <1>1 DEF Effects, ListSlots, SlotInv
  <1>7. SlotInv'
    BY <1>4, <1>5, <1>6 DEF SlotInv
  <1>8. ASSUME NEW c \in Calls, call'[c] = "new"
        PROVE  reply'[c] = NoReply(c)
    BY <1>1, <1>8 DEF Effects, ReplyEffect, CutOff, Duplicate, Delivered, ReplyInv
  <1>9. ASSUME NEW c \in Calls, reply'[c].type \in {"none", "duplicate", "disconnected"}
        PROVE  reply'[c].about = c
    <2>1. CASE reply'[c] = reply[c]
      BY <1>9, <2>1 DEF ReplyInv
    <2>2. CASE CutOff(c)
      BY <2>2 DEF CutOff, Disconnected
    <2>3. CASE Duplicate(c)
      BY <2>3 DEF Duplicate
    <2>4. CASE Delivered(c)
      <3>1. reply'[c] = [type |-> Head(responses).type, about |-> Head(responses).about]
            /\ Head(responses).type \in Results \cup Acks \cup {"tools"}
        BY <2>4 DEF Delivered
      <3>2. reply'[c].type \in Results \cup Acks \cup {"tools"}
        BY <3>1
      <3> QED BY <1>9, <3>2 DEF Results, Acks
    <2> QED BY <2>1, <2>2, <2>3, <2>4 DEF Effects, ReplyEffect
  <1>10. ASSUME NEW e \in Executes
         PROVE  reply'[e].type \notin Acks \cup {"tools"}
    <2>1. CASE reply'[e] = reply[e]
      BY <2>1 DEF ReplyInv
    <2>2. CASE CutOff(e)
      BY <2>2 DEF CutOff, Disconnected, Acks
    <2>3. CASE Duplicate(e)
      BY <2>3 DEF Duplicate, Acks
    <2>4. CASE Delivered(e)
      <3> DEFINE m == Head(responses)
      <3>1. reply'[e].type = m.type /\ responses # <<>>
        BY <2>4 DEF Delivered, ReaderReads
      <3>2. m.type \in Acks => IdOf[m.about] \in Ids
        BY <3>1, ReadMessage
      <3>3. m.type \in Results
        BY <1>0, <2>4, <3>2 DEF Delivered
      <3> QED BY <3>1, <3>3 DEF Results, Acks
    <2> QED BY <2>1, <2>2, <2>3, <2>4 DEF Effects, ReplyEffect
  <1> QED BY <1>7, <1>8, <1>9, <1>10 DEF ReplyInv, NoReply

\* Neither the reader nor the writer starts again.
LEMMA EndedStays ==
    ASSUME [Next]_vars
    PROVE  /\ reader # "reading" => reader' # "reading"
           /\ writer = "ended" => writer' = "ended"
  <1> USE DEF callers, maps, guest
  <1>1. CASE UNCHANGED vars
    BY <1>1 DEF vars
  <1>2. ASSUME NEW e \in Executes,
               \/ ExecuteDuplicate(e) \/ ExecuteRegisters(e) \/ ExecuteSendFails(e)
               \/ GuestFails(e) \/ GuestFrees(e) \/ GuestCompletes(e)
        PROVE  UNCHANGED <<reader, writer>>
    BY <1>2 DEF ExecuteDuplicate, ExecuteRegisters, ExecuteSendFails, GuestFails, GuestFrees,
                GuestCompletes
  <1>3. ASSUME NEW c \in Calls,
               \/ CancelSends(c) \/ CancelSendFails(c) \/ ListRegisters(c) \/ ListSendFails(c)
               \/ Sends(c) \/ CallerDrops(c)
        PROVE  UNCHANGED <<reader, writer>>
    BY <1>3 DEF CancelSends, CancelSendFails, ListRegisters, ListSendFails, Sends, CallerDrops
  <1>4. CASE ClientDrops \/ Writer \/ Reader \/ GuestReceives \/ ConnectionLost
    BY <1>4 DEF ClientDrops, Writer, WritesToLost, WriterAborted, Reader, ReaderReads, ReaderStops,
                DrainPending, DrainCancels, DrainTools, GuestReceives, ConnectionLost
  <1> QED BY <1>1, <1>2, <1>3, <1>4, Kinds DEF Next, CallStep

LEMMA JustifiedStep ==
    ASSUME Effects, DisconnectedIsJustified, [Next]_vars
    PROVE  DisconnectedIsJustified'
  <1> SUFFICES ASSUME NEW c \in Calls, reply'[c].type = "disconnected"
               PROVE  \/ reader' # "reading" \/ writer' = "ended"
                      \/ c \in Cancels /\ \E k \in Cancels \ {c} : IdOf[k] = IdOf[c] /\ call'[k] # "new"
    BY DEF DisconnectedIsJustified
  <1>1. CASE reply'[c] = reply[c]
    <2>1. \A k \in Cancels : call[k] # "new" => call'[k] # "new"
      BY Kinds DEF Effects, ReplyEffect
    <2> QED BY <1>1, <2>1, EndedStays DEF DisconnectedIsJustified
  <1>2. CASE CutOff(c)
    BY <1>2 DEF CutOff
  <1>3. CASE Duplicate(c)
    BY <1>3 DEF Duplicate
  <1>4. CASE Delivered(c)
    <2>1. reply'[c].type \in Results \cup Acks \cup {"tools"}
      BY <1>4 DEF Delivered
    <2> QED BY <2>1 DEF Results, Acks
  <1> QED BY <1>1, <1>2, <1>3, <1>4 DEF Effects, ReplyEffect

LEMMA InitHolds ==
    ASSUME Init
    PROVE  IInv /\ DisconnectedIsJustified /\ RefusedInv /\ RefusedReplies /\ StrayAnswersOnly
  <1> USE DEF Init
  <1>1. \A c \in Calls : reply[c] = NoReply(c) /\ reply[c].type = "none" /\ reply[c].about = c
    BY DEF NoReply
  <1>2. requests = <<>> /\ DOMAIN requests = {} /\ responses = <<>> /\ DOMAIN responses = {}
    OBVIOUS
  <1>3. Types
    <2>1. reply \in [Calls -> Replies]
      BY Values
    <2>2. requests \in Seq(Calls \cup {Shutdown}) /\ responses \in Seq(Messages)
      OBVIOUS
    <2> QED BY <1>2, <2>1, <2>2 DEF Types
  <1>4. SlotInv /\ ReplyInv
    BY <1>1, Kinds DEF SlotInv, ReplyInv, Acks
  <1>5. \A c \in Calls : ~Outstanding(c)
    BY <1>2 DEF Outstanding, Asked, Answered, UnderWay
  <1>6. OrderInv
    BY <1>2, <1>5 DEF OrderInv, AskedOnce, AskedFirst, UnsentUnknown, LastWord, NotOverYet, GuestInv,
                      Asked
  <1>7. OutInv
    BY <1>5, Kinds DEF OutInv
  <1> QED BY <1>1, <1>2, <1>3, <1>4, <1>6, <1>7, Kinds
          DEF IInv, DisconnectedIsJustified, RefusedInv, RefusedReplies, StrayAnswersOnly

BaseInv == Types /\ SlotInv /\ ReplyInv

LEMMA BaseStep ==
    ASSUME BaseInv, [Next]_vars
    PROVE  BaseInv' /\ Effects
  BY TypesStep, EffectsStep, SlotStep DEF BaseInv

\* A call is told Disconnected only when the reader or the writer has ended, a
\* cancel also when a later one has taken its slot (execute, cancel and the
\* reader task of connect).
THEOREM DisconnectsAreJustified == Spec => []DisconnectedIsJustified
  <1>1. Init => BaseInv /\ DisconnectedIsJustified
    BY InitHolds DEF IInv, BaseInv
  <1>2. BaseInv /\ DisconnectedIsJustified /\ [Next]_vars => (BaseInv /\ DisconnectedIsJustified)'
    BY BaseStep, JustifiedStep
  <1> QED BY <1>1, <1>2, PTL DEF Spec

-----------------------------------------------------------------------------
(* What is asked, answered and under way.                                  *)

\* The channel to the guest gets longer, shorter or is emptied.
LEMMA AskedMore ==
    ASSUME Types, AskedOnce, NEW m \in Calls \cup {Shutdown}, m \in Calls => ~Asked(m),
           requests' = Append(requests, m)
    PROVE  AskedOnce' /\ \A c : Asked(c)' => Asked(c) \/ c = m
  <1>0. requests \in Seq(Calls \cup {Shutdown})
    BY DEF Types
  <1>1. PICK n \in DOMAIN requests' :
           /\ \A i \in DOMAIN requests' : i \in DOMAIN requests \/ i = n
           /\ \A i \in DOMAIN requests : requests'[i] = requests[i]
           /\ requests'[n] = m
    BY <1>0, Appended
  <1>2. ASSUME NEW i \in DOMAIN requests, m \in Calls
        PROVE  requests[i] # m
    BY <1>2 DEF Asked
  <1>3. ASSUME NEW i \in DOMAIN requests', NEW j \in DOMAIN requests',
               requests'[i] = requests'[j], requests'[i] \in Calls
        PROVE  i = j
    <2>1. CASE i \in DOMAIN requests /\ j \in DOMAIN requests
      BY <1>1, <1>3, <2>1 DEF AskedOnce
    <2>2. CASE i = n \/ j = n
      BY <1>1, <1>2, <1>3, <2>2
    <2> QED BY <1>1, <2>1, <2>2
  <1>4. \A c : Asked(c)' => Asked(c) \/ c = m
    BY <1>1 DEF Asked
  <1> QED BY <1>3, <1>4 DEF AskedOnce

LEMMA AskedLess ==
    ASSUME Types, AskedOnce, \/ requests # <<>> /\ requests' = Tail(requests)
                             \/ requests' = <<>> \/ requests' = requests
    PROVE  AskedOnce' /\ \A c : Asked(c)' => Asked(c)
  <1>1. CASE requests # <<>> /\ requests' = Tail(requests)
    <2>1. \A i \in DOMAIN requests' : /\ i \in Nat /\ i + 1 \in DOMAIN requests
                                      /\ requests'[i] = requests[i + 1]
      BY <1>1, Dropped DEF Types
    <2>2. ASSUME NEW i \in DOMAIN requests', NEW j \in DOMAIN requests',
                 requests'[i] = requests'[j], requests'[i] \in Calls
          PROVE  i = j
      <3>1. i + 1 = j + 1
        BY <2>1, <2>2 DEF AskedOnce
      <3> QED BY <2>1, <3>1
    <2>3. \A c : Asked(c)' => Asked(c)
      BY <2>1 DEF Asked
    <2> QED BY <2>2, <2>3 DEF AskedOnce
  <1>2. CASE requests' = <<>>
    <2>1. DOMAIN requests' = {}
      BY <1>2
    <2> QED BY <2>1 DEF AskedOnce, Asked
  <1>3. CASE requests' = requests
    BY <1>3 DEF AskedOnce, Asked
  <1> QED BY <1>1, <1>2, <1>3

\* The guest takes the first request: it is not asked any more.
LEMMA Taken ==
    ASSUME Types, AskedOnce, requests # <<>>, requests' = Tail(requests),
           NEW c \in Calls, c = Head(requests)
    PROVE  Asked(c) /\ ~Asked(c)'
  <1>1. /\ 1 \in DOMAIN requests /\ requests[1] = c
        /\ \A i \in DOMAIN requests' : /\ i + 1 \in DOMAIN requests /\ i + 1 # 1
                                       /\ requests'[i] = requests[i + 1]
    BY Dropped DEF Types
  <1>2. Asked(c)
    BY <1>1 DEF Asked
  <1>3. ASSUME NEW i \in DOMAIN requests', requests'[i] = c
        PROVE  FALSE
    BY <1>1, <1>3 DEF AskedOnce
  <1> QED BY <1>2, <1>3 DEF Asked

\* The stream from the guest gets longer or shorter.
LEMMA AnsweredMore ==
    ASSUME Types, LastWord, NEW m \in Messages, responses' = Append(responses, m),
           \A i \in DOMAIN responses : responses[i].about = m.about => responses[i].type = "failed"
    PROVE  /\ LastWord' /\ \A c : Answered(c)' => Answered(c) \/ c = m.about
           /\ \A i \in DOMAIN responses' :
                 responses'[i] = m \/ \E j \in DOMAIN responses : responses'[i] = responses[j]
  <1>1. PICK n \in DOMAIN responses' :
           /\ \A i \in DOMAIN responses' : i \in DOMAIN responses \/ i = n
           /\ \A i \in DOMAIN responses : responses'[i] = responses[i] /\ ~(n < i)
           /\ responses'[n] = m /\ ~(n < n)
    BY Appended DEF Types
  <1>2. ASSUME NEW i \in DOMAIN responses', NEW j \in DOMAIN responses',
               i < j, responses'[i].about = responses'[j].about
        PROVE  responses'[i].type = "failed"
    <2>1. i \in DOMAIN responses
      BY <1>1, <1>2
    <2>2. CASE j \in DOMAIN responses
      BY <1>1, <1>2, <2>1, <2>2 DEF LastWord
    <2>3. CASE j = n
      BY <1>1, <1>2, <2>1, <2>3
    <2> QED BY <1>1, <2>2, <2>3
  <1>3. \A c : Answered(c)' => Answered(c) \/ c = m.about
    BY <1>1 DEF Answered
  <1>4. \A i \in DOMAIN responses' :
           responses'[i] = m \/ \E j \in DOMAIN responses : responses'[i] = responses[j]
    BY <1>1
  <1> QED BY <1>2, <1>3, <1>4 DEF LastWord

LEMMA AnsweredLess ==
    ASSUME Types, LastWord, \/ responses # <<>> /\ responses' = Tail(responses)
                            \/ responses' = responses
    PROVE  /\ LastWord' /\ \A c : Answered(c)' => Answered(c)
           /\ \A i \in DOMAIN responses' : \E j \in DOMAIN responses : responses'[i] = responses[j]
  <1>1. CASE responses # <<>> /\ responses' = Tail(responses)
    <2>1. \A i \in DOMAIN responses' : /\ i \in Nat /\ i + 1 \in DOMAIN responses
                                       /\ responses'[i] = responses[i + 1]
      BY <1>1, Dropped DEF Types
    <2>2. ASSUME NEW i \in DOMAIN responses', NEW j \in DOMAIN responses',
                 i < j, responses'[i].about = responses'[j].about
          PROVE  responses'[i].type = "failed"
      <3>1. i + 1 < j + 1
        BY <2>1, <2>2
      <3> QED BY <2>1, <2>2, <3>1 DEF LastWord
    <2> QED BY <2>1, <2>2 DEF LastWord, Answered
  <1>2. CASE responses' = responses
    BY <1>2 DEF LastWord, Answered
  <1> QED BY <1>1, <1>2

\* The reader takes the last word about a call: nothing is outstanding.
LEMMA LastRead ==
    ASSUME Types, OrderInv, ReaderReads, NEW c \in Calls, c = Head(responses).about,
           Head(responses).type # "failed"
    PROVE  ~Outstanding(c)' /\ call[c] # "registered"
  <1>1. /\ 1 \in DOMAIN responses /\ responses[1] = Head(responses)
        /\ \A i \in DOMAIN responses' : /\ 1 < i + 1 /\ i + 1 \in DOMAIN responses
                                        /\ responses'[i] = responses[i + 1]
    BY Dropped DEF Types, ReaderReads
  <1>2. Answered(c)
    BY <1>1 DEF Answered
  <1>3. ~Answered(c)'
    BY <1>1 DEF Answered, OrderInv, LastWord
  <1>4. ~Asked(c)'
    BY <1>2 DEF OrderInv, AskedFirst, ReaderReads, Asked
  <1>5. c \notin UnderWay'
    BY <1>1 DEF OrderInv, NotOverYet, ReaderReads, UnderWay, guest
  <1>6. call[c] # "registered"
    BY <1>2 DEF OrderInv, UnsentUnknown, Outstanding
  <1> QED BY <1>3, <1>4, <1>5, <1>6 DEF Outstanding

\* A call that was sent stays sent.
Unsent(c) == call[c] \in {"new", "registered"}

LEMMA SentStays ==
    ASSUME Types, [Next]_vars, NEW c \in Calls
    PROVE  /\ Unsent(c)' => Unsent(c)
           /\ call'[c] = "registered" =>
                 call[c] = "registered" \/ c \in Lists \/ (c \in Executes /\ ExecuteRegisters(c))
  <1> USE DEF callers, maps, guest
  <1>0. call \in [Calls -> {"new", "registered", "awaiting", "dropped"}]
    BY DEF Types
  <1>1. ASSUME call' = call
        PROVE  (Unsent(c)' => Unsent(c)) /\ (call'[c] = "registered" => call[c] = "registered")
    BY <1>1 DEF Unsent
  <1>2. ASSUME NEW d \in Calls,
               call' = [call EXCEPT ![d] = "awaiting"] \/ call' = [call EXCEPT ![d] = "dropped"]
        PROVE  (Unsent(c)' => Unsent(c)) /\ (call'[c] = "registered" => call[c] = "registered")
    BY <1>0, <1>2 DEF Unsent
  <1>3. ASSUME NEW d \in Calls, call[d] = "new", call' = [call EXCEPT ![d] = "registered"]
        PROVE  (Unsent(c)' => Unsent(c)) /\ (call'[c] = "registered" => call[c] = "registered" \/ c = d)
    BY <1>0, <1>3 DEF Unsent
  <1>4. CASE UNCHANGED vars
    BY <1>1, <1>4 DEF vars
  <1>5. ASSUME NEW d \in Calls,
               \/ ExecuteDuplicate(d) \/ ExecuteSendFails(d) \/ ListSendFails(d) \/ Sends(d)
               \/ CancelSends(d) \/ CancelSendFails(d) \/ CallerDrops(d)
        PROVE  call' = [call EXCEPT ![d] = "awaiting"] \/ call' = [call EXCEPT ![d] = "dropped"]
    BY <1>5 DEF ExecuteDuplicate, ExecuteSendFails, ListSendFails, Sends, CancelSends,
                CancelSendFails, CallerDrops
  <1>6. ASSUME NEW d \in Executes \cup Lists, ExecuteRegisters(d) \/ ListRegisters(d)
        PROVE  call[d] = "new" /\ call' = [call EXCEPT ![d] = "registered"]
    BY <1>6 DEF ExecuteRegisters, ListRegisters, Begin
  <1>7. CASE \/ ClientDrops \/ Writer \/ Reader \/ GuestReceives \/ ConnectionLost
             \/ \E e \in Executes : GuestFails(e) \/ GuestFrees(e) \/ GuestCompletes(e)
    <2>1. call' = call
      BY <1>7 DEF ClientDrops, Writer, WritesToLost, WriterAborted, Reader, ReaderReads, ReaderStops,
                  DrainPending, DrainCancels, DrainTools, GuestReceives, ConnectionLost,
                  GuestFails, GuestFrees, GuestCompletes
    <2> QED BY <1>1, <2>1
  <1> QED BY <1>2, <1>3, <1>4, <1>5, <1>6, <1>7, Kinds DEF Next, CallStep

\* A step of neither the guest nor a call that sends.
LEMMA OrderQuiet ==
    ASSUME OrderInv, AskedOnce', LastWord', UNCHANGED guest,
           \A c \in Calls : Unsent(c)' => Unsent(c),
           \A c : (Asked(c)' => Asked(c)) /\ (Answered(c)' => Answered(c)),
           \A i \in DOMAIN responses' : \E j \in DOMAIN responses : responses'[i] = responses[j]
    PROVE  OrderInv' /\ \A c \in Calls : Outstanding(c)' => Outstanding(c)
  <1>1. UnderWay' = UnderWay /\ UNCHANGED <<active, execution>>
    BY DEF UnderWay, guest
  <1>2. \A c \in Calls : Outstanding(c)' => Outstanding(c)
    BY <1>1 DEF Outstanding
  <1>3. AskedFirst' /\ UnsentUnknown' /\ NotOverYet'
    BY <1>1, <1>2 DEF OrderInv, AskedFirst, UnsentUnknown, NotOverYet, Unsent
  <1>4. GuestInv'
    BY <1>1 DEF OrderInv, GuestInv
  <1> QED BY <1>2, <1>3, <1>4 DEF OrderInv

\* A call is sent, or Shutdown.
LEMMA OrderAsked ==
    ASSUME Types, OrderInv, NEW m \in Calls \cup {Shutdown}, m \in Calls => Unsent(m) /\ ~Unsent(m)',
           requests' = Append(requests, m), UNCHANGED <<responses, guest>>,
           \A c \in Calls : Unsent(c)' => Unsent(c)
    PROVE  OrderInv' /\ \A c \in Calls : Outstanding(c)' => Outstanding(c) \/ c = m
  <1>1. UnderWay' = UnderWay /\ UNCHANGED <<active, execution, responses>>
    BY DEF UnderWay, guest
  <1>2. m \in Calls => ~Outstanding(m)
    BY DEF OrderInv, UnsentUnknown, Unsent
  <1>3. AskedOnce' /\ \A c : Asked(c)' => Asked(c) \/ c = m
    BY <1>2, AskedMore DEF OrderInv, Outstanding
  <1>4. \A c : Answered(c)' <=> Answered(c)
    BY DEF Answered
  <1>5. \A c \in Calls : Outstanding(c)' => Outstanding(c) \/ c = m
    BY <1>1, <1>3, <1>4 DEF Outstanding
  <1>6. m \in Executes => execution[m] = "none"
    BY Kinds DEF OrderInv, UnsentUnknown, Unsent
  <1>7. UnsentUnknown'
    BY <1>1, <1>5 DEF OrderInv, UnsentUnknown, Unsent
  <1>8. AskedFirst'
    BY <1>1, <1>2, <1>3, <1>4, <1>6 DEF OrderInv, AskedFirst, Outstanding
  <1>9. LastWord' /\ NotOverYet' /\ GuestInv'
    BY <1>1 DEF OrderInv, LastWord, NotOverYet, GuestInv
  <1> QED BY <1>3, <1>5, <1>7, <1>8, <1>9 DEF OrderInv

\* The guest handles a frame: the call is not asked any more, but answered or
\* under way.
LEMMA OrderReceived ==
    ASSUME Types, Types', OrderInv, GuestReceives
    PROVE  OrderInv' /\ \A c \in Calls : Outstanding(c)' => Outstanding(c)
  <1> USE Kinds DEF callers, maps, guest
  <1> DEFINE m == Head(requests)
  <1>0. requests # <<>> /\ requests' = Tail(requests) /\ call' = call
    BY DEF GuestReceives
  <1>1. AskedOnce' /\ \A c : Asked(c)' => Asked(c)
    BY <1>0, AskedLess DEF OrderInv
  <1>2. m \in Calls => Asked(m) /\ ~Answered(m) /\ ~Unsent(m)
    BY <1>0, Taken DEF OrderInv, AskedFirst, UnsentUnknown, Unsent, Outstanding
  <1>3. \A c : c = m /\ c \in Calls => ~Asked(c)'
    BY <1>0, Taken DEF OrderInv
  <1> HIDE DEF m
  <1>4. ASSUME NEW type \in Results \cup Acks \cup {"tools"}, m \in Calls, Answer(type, m),
               UNCHANGED guest
        PROVE  OrderInv' /\ \A c \in Calls : Outstanding(c)' => Outstanding(c)
    <2> DEFINE r == [type |-> type, about |-> m]
    <2>1. r \in Messages /\ r.about = m /\ responses' = Append(responses, r)
      BY <1>4, Values DEF Answer
    <2> HIDE DEF r
    <2>2. \A i \in DOMAIN responses : responses[i].about # m
      BY <1>2, <1>4 DEF Answered
    <2>3. /\ LastWord' /\ \A c : Answered(c)' => Answered(c) \/ c = m
          /\ \A i \in DOMAIN responses' :
                responses'[i] = r \/ \E j \in DOMAIN responses : responses'[i] = responses[j]
      BY <2>1, <2>2, AnsweredMore DEF OrderInv
    <2>4. UnderWay' = UnderWay /\ UNCHANGED <<active, execution>>
      BY <1>4 DEF UnderWay
    <2>5. \A c \in Calls : Outstanding(c)' => Outstanding(c)
      BY <1>1, <1>2, <2>3, <2>4 DEF Outstanding
    <2>6. m \notin UnderWay
      BY <1>2, <1>4 DEF OrderInv, AskedFirst, UnderWay
    <2>7. AskedFirst'
      BY <1>1, <1>3, <2>3, <2>4 DEF OrderInv, AskedFirst
    <2>8. UnsentUnknown'
      BY <1>0, <2>4, <2>5 DEF OrderInv, UnsentUnknown
    <2>9. NotOverYet'
      BY <2>1, <2>3, <2>4, <2>6 DEF OrderInv, NotOverYet
    <2>10. GuestInv'
      BY <2>4 DEF OrderInv, GuestInv
    <2> QED BY <1>1, <2>3, <2>5, <2>7, <2>8, <2>9, <2>10 DEF OrderInv
  <1>5. ASSUME m \in Executes, active[IdOf[m]] = None,
               active' = [active EXCEPT ![IdOf[m]] = m],
               execution' = [execution EXCEPT ![m] = "active"], UNCHANGED responses
        PROVE  OrderInv' /\ \A c \in Calls : Outstanding(c)' => Outstanding(c)
    <2>0. /\ active \in [Ids -> Executes \cup {None}]
          /\ execution \in [Executes -> {"none", "active", "failed", "freed", "ended"}]
      BY DEF Types
    <2>1. \A c : Answered(c)' <=> Answered(c)
      BY <1>5 DEF Answered
    <2>2. \A c : c \in UnderWay' <=> c \in UnderWay \/ c = m
      BY <1>5, <2>0 DEF UnderWay
    <2>3. \A c \in Calls : Outstanding(c)' => Outstanding(c)
      BY <1>1, <1>2, <2>1, <2>2 DEF Outstanding
    <2>4. \A e \in Executes : e # m => execution'[e] = execution[e]
      BY <1>5, <2>0
    <2>5. AskedFirst'
      BY <1>1, <1>3, <2>1, <2>4 DEF OrderInv, AskedFirst
    <2>6. UnsentUnknown'
      BY <1>0, <1>2, <2>3, <2>4 DEF OrderInv, UnsentUnknown, Unsent
    <2>7. LastWord'
      BY <1>5 DEF OrderInv, LastWord
    <2>8. NotOverYet'
      <3>1. \A i \in DOMAIN responses : responses[i].about # m
        BY <1>2, <1>5 DEF Answered
      <3> QED BY <1>5, <2>2, <3>1 DEF OrderInv, NotOverYet
    <2>9. GuestInv'
      <3> SUFFICES ASSUME NEW id \in Ids, active'[id] # None
                   PROVE  /\ execution'[active'[id]] \in {"active", "failed"}
                          /\ IdOf[active'[id]] = id
        BY DEF GuestInv
      <3>1. CASE id = IdOf[m]
        BY <1>5, <2>0, <3>1
      <3>2. CASE id # IdOf[m]
        <4>1. active'[id] = active[id] /\ active[id] \in Executes
          BY <1>5, <2>0, <3>2
        <4>2. IdOf[active[id]] = id /\ execution[active[id]] \in {"active", "failed"}
          BY <4>1 DEF OrderInv, GuestInv
        <4> QED BY <2>4, <3>2, <4>1, <4>2
      <3> QED BY <3>1, <3>2
    <2> QED BY <1>1, <2>3, <2>5, <2>6, <2>7, <2>8, <2>9 DEF OrderInv
  <1>6. CASE GuestExecutes(m)
    BY <1>4, <1>5, <1>6 DEF GuestExecutes, Results
  <1>7. CASE GuestCancels(m)
    BY <1>4, <1>7 DEF GuestCancels, Acks
  <1>8. CASE GuestLists(m)
    BY <1>4, <1>8 DEF GuestLists
  <1>9. CASE GuestShutsDown(m)
    <2>1. UNCHANGED <<responses, guest>>
      BY <1>9 DEF GuestShutsDown
    <2>2. /\ LastWord' /\ \A c : Answered(c)' => Answered(c)
          /\ \A i \in DOMAIN responses' : \E j \in DOMAIN responses : responses'[i] = responses[j]
      BY <2>1, AnsweredLess DEF OrderInv
    <2>3. \A c \in Calls : Unsent(c)' => Unsent(c)
      BY <1>0 DEF Unsent
    <2> QED BY <1>1, <2>1, <2>2, <2>3, OrderQuiet
  <1> QED BY <1>6, <1>7, <1>8, <1>9 DEF GuestReceives, m

\* An execution goes on: Failed, the id freed, Completed.
LEMMA OrderExecution ==
    ASSUME Types, OrderInv, NEW e \in Executes, GuestFails(e) \/ GuestFrees(e) \/ GuestCompletes(e)
    PROVE  OrderInv' /\ \A c \in Calls : Outstanding(c)' => Outstanding(c)
  <1> USE Kinds DEF callers, maps, guest
  <1>0. /\ active \in [Ids -> Executes \cup {None}]
        /\ execution \in [Executes -> {"none", "active", "failed", "freed", "ended"}]
        /\ UNCHANGED <<call, requests>>
    BY DEF Types, GuestFails, GuestFrees, GuestCompletes
  <1>1. e \in UnderWay /\ execution[e] # "none" /\ e \in Calls
    BY DEF UnderWay, GuestFails, GuestFrees, GuestCompletes
  <1>2. ~Asked(e) /\ ~Unsent(e)
    BY <1>1 DEF OrderInv, AskedFirst, UnsentUnknown, Outstanding, Unsent
  <1>3. AskedOnce' /\ \A c : Asked(c)' <=> Asked(c)
    BY <1>0 DEF OrderInv, AskedOnce, Asked
  <1>4. \A i \in DOMAIN responses : responses[i].about = e => responses[i].type = "failed"
    BY <1>1 DEF OrderInv, NotOverYet
  <1>5. \A d \in Executes : d # e => execution'[d] = execution[d]
    BY <1>0 DEF GuestFails, GuestFrees, GuestCompletes
  <1>6. \A c : c \in UnderWay' => c \in UnderWay
    BY <1>1, <1>5 DEF UnderWay
  <1>7. /\ LastWord' /\ \A c : Answered(c)' => Answered(c) \/ c = e
        /\ NotOverYet'
    <2>1. ASSUME NEW type \in {"failed", "completed", "oversized"}, Answer(type, e),
                 type = "failed" \/ e \notin UnderWay'
          PROVE  LastWord' /\ (\A c : Answered(c)' => Answered(c) \/ c = e) /\ NotOverYet'
      <3> DEFINE r == [type |-> type, about |-> e]
      <3>1. r \in Messages /\ r.about = e /\ r.type = type /\ responses' = Append(responses, r)
        BY <1>1, <2>1, Values DEF Answer, Results
      <3> HIDE DEF r
      <3>2. /\ LastWord' /\ \A c : Answered(c)' => Answered(c) \/ c = e
            /\ \A i \in DOMAIN responses' :
                  responses'[i] = r \/ \E j \in DOMAIN responses : responses'[i] = responses[j]
        BY <1>4, <3>1, AnsweredMore DEF OrderInv
      <3>3. NotOverYet'
        BY <1>6, <2>1, <3>1, <3>2 DEF OrderInv, NotOverYet
      <3> QED BY <3>2, <3>3
    <2>2. CASE GuestFails(e)
      BY <2>1, <2>2 DEF GuestFails
    <2>3. CASE GuestCompletes(e)
      <3>1. e \notin UnderWay'
        BY <1>0, <2>3 DEF GuestCompletes, UnderWay
      <3> QED BY <2>1, <2>3, <3>1 DEF GuestCompletes
    <2>4. CASE GuestFrees(e)
      <3>1. UNCHANGED responses
        BY <2>4 DEF GuestFrees
      <3> QED BY <1>6, <3>1 DEF OrderInv, LastWord, NotOverYet, Answered
    <2> QED BY <2>2, <2>3, <2>4
  <1>8. \A c \in Calls : Outstanding(c)' => Outstanding(c)
    BY <1>1, <1>3, <1>6, <1>7 DEF Outstanding
  <1>9. AskedFirst'
    BY <1>2, <1>3, <1>5, <1>7 DEF OrderInv, AskedFirst
  <1>10. UnsentUnknown'
    BY <1>0, <1>2, <1>5, <1>8 DEF OrderInv, UnsentUnknown, Unsent
  <1>11. GuestInv'
    <2> SUFFICES ASSUME NEW id \in Ids, active'[id] # None
                 PROVE  /\ execution'[active'[id]] \in {"active", "failed"}
                        /\ IdOf[active'[id]] = id
      BY DEF GuestInv
    <2>1. active'[id] = active[id] /\ active[id] \in Executes
      BY <1>0 DEF GuestFails, GuestFrees, GuestCompletes
    <2>2. IdOf[active[id]] = id /\ execution[active[id]] \in {"active", "failed"}
      BY <2>1 DEF OrderInv, GuestInv
    <2>3. CASE active[id] # e
      BY <1>5, <2>1, <2>2, <2>3
    <2>4. CASE active[id] = e
      <3>1. GuestFails(e)
        BY <1>0, <2>1, <2>2, <2>4 DEF GuestFrees, GuestCompletes
      <3> QED BY <1>0, <2>1, <2>2, <2>4, <3>1 DEF GuestFails
    <2> QED BY <2>3, <2>4
  <1> QED BY <1>3, <1>7, <1>8, <1>9, <1>10, <1>11 DEF OrderInv

\* Only a call that is sent becomes outstanding.
LEMMA OrderStep ==
    ASSUME Types, Types', OrderInv, [Next]_vars
    PROVE  /\ OrderInv'
           /\ \A c \in Calls : Outstanding(c)' =>
                 Outstanding(c) \/ call[c] = "registered" \/ (c \in Cancels /\ CancelSends(c))
  <1> USE DEF callers, maps, guest
  <1>1. \A c \in Calls : Unsent(c)' => Unsent(c)
    BY SentStays
  <1>2. ASSUME \/ requests # <<>> /\ requests' = Tail(requests)
               \/ requests' = <<>> \/ requests' = requests,
               \/ responses # <<>> /\ responses' = Tail(responses)
               \/ responses' = responses,
               UNCHANGED guest
        PROVE  OrderInv' /\ \A c \in Calls : Outstanding(c)' => Outstanding(c)
    <2>1. AskedOnce' /\ \A c : Asked(c)' => Asked(c)
      BY <1>2, AskedLess DEF OrderInv
    <2>2. /\ LastWord' /\ \A c : Answered(c)' => Answered(c)
          /\ \A i \in DOMAIN responses' : \E j \in DOMAIN responses : responses'[i] = responses[j]
      BY <1>2, AnsweredLess DEF OrderInv
    <2> QED BY <1>1, <1>2, <2>1, <2>2, OrderQuiet
  <1>3. CASE UNCHANGED vars
    BY <1>2, <1>3 DEF vars
  <1>4. ASSUME NEW c \in Calls,
               \/ ExecuteDuplicate(c) \/ ExecuteRegisters(c) \/ ExecuteSendFails(c)
               \/ ListRegisters(c) \/ ListSendFails(c) \/ CancelSendFails(c) \/ CallerDrops(c)
        PROVE  UNCHANGED <<requests, responses, guest>>
    BY <1>4 DEF ExecuteDuplicate, ExecuteRegisters, ExecuteSendFails, ListRegisters, ListSendFails,
                CancelSendFails, CallerDrops
  <1>5. ASSUME NEW c \in Calls, Sends(c) \/ (c \in Cancels /\ CancelSends(c))
        PROVE  /\ OrderInv'
               /\ \A d \in Calls : Outstanding(d)' =>
                     Outstanding(d) \/ call[d] = "registered" \/ (d \in Cancels /\ CancelSends(d))
    <2>1. /\ requests' = Append(requests, c) /\ UNCHANGED <<responses, guest>>
          /\ call[c] = "registered" \/ (c \in Cancels /\ CancelSends(c))
          /\ call' = [call EXCEPT ![c] = "awaiting"] /\ call[c] \in {"new", "registered"}
      BY <1>5 DEF Sends, CancelSends, SendRequest, Begin
    <2>2. Unsent(c) /\ ~Unsent(c)'
      BY <2>1 DEF Unsent, Types
    <2>3. OrderInv' /\ \A d \in Calls : Outstanding(d)' => Outstanding(d) \/ d = c
      BY <1>1, <2>1, <2>2, OrderAsked
    <2> QED BY <2>1, <2>3
  <1>6. CASE ClientDrops
    <2>1. UNCHANGED <<responses, guest>>
          /\ (requests' = requests \/ requests' = Append(requests, Shutdown))
      BY <1>6 DEF ClientDrops
    <2>2. CASE requests' = requests
      BY <1>2, <2>1, <2>2
    <2>3. CASE requests' = Append(requests, Shutdown)
      BY <1>1, <2>1, <2>3, OrderAsked, Kinds
    <2> QED BY <2>1, <2>2, <2>3
  <1>7. CASE Writer \/ Reader \/ ConnectionLost
    <2>1. /\ \/ requests # <<>> /\ requests' = Tail(requests)
             \/ requests' = <<>> \/ requests' = requests
          /\ \/ responses # <<>> /\ responses' = Tail(responses)
             \/ responses' = responses
          /\ UNCHANGED guest
      BY <1>7 DEF Writer, WritesToLost, WriterAborted, Reader, ReaderReads, ReaderStops, DrainPending,
                  DrainCancels, DrainTools, ConnectionLost
    <2> QED BY <1>2, <2>1
  <1> QED BY <1>2, <1>3, <1>4, <1>5, <1>6, <1>7, OrderReceived, OrderExecution, Kinds
          DEF Next, CallStep

-----------------------------------------------------------------------------
(* Who was released, and how.                                              *)

\* What released a call is not undone.
LEMMA ReleasedStays ==
    ASSUME ReplyInv, Effects, NEW c \in Calls, Released(c)
    PROVE  Released(c)'
  <1>1. ~Unanswered(c)
    BY DEF Released, ReplyInv, Unanswered
  <1>2. call[c] # "new"
    <2>1. NoReply(c).type = "none"
      BY DEF NoReply
    <2> QED BY <1>1, <2>1 DEF ReplyInv, Unanswered
  <1>3. reply'[c] = reply[c] \/ reply'[c] = Disconnected(c)
    BY <1>1, <1>2 DEF Effects, ReplyEffect, CutOff, Duplicate, Delivered
  <1> QED BY <1>3 DEF Released, Disconnected

\* A call that leaves its slot is released, or nothing about it is left.
LEMMA LeavesReleased ==
    ASSUME Types, OrderInv, ReplyInv, Effects, NEW c \in Executes \cup Cancels,
           call[c] # "new", reply'[c] # reply[c]
    PROVE  Released(c)' \/ (~Outstanding(c)' /\ call'[c] # "registered")
  <1> USE Kinds
  <1>1. CutOff(c) \/ Delivered(c)
    BY DEF Effects, ReplyEffect, Duplicate
  <1>2. CASE CutOff(c)
    BY <1>2 DEF CutOff, Released, Disconnected
  <1>3. CASE Delivered(c)
    <2> DEFINE m == Head(responses)
    <2>1. /\ ReaderReads /\ call'[c] = call[c] /\ reply'[c].type = m.type /\ reply'[c].about = m.about
          /\ m.type \in Results \cup Acks
      BY <1>3 DEF Delivered
    <2>2. CASE m.about # c
      BY <2>1, <2>2 DEF Released
    <2>3. CASE m.about = c /\ m.type # "failed"
      BY <2>1, <2>3, LastRead
    <2>4. CASE m.about = c /\ m.type = "failed"
      <3>1. MessageKind(m)
        BY <2>1, ReadMessage DEF ReaderReads
      <3>2. c \in Executes
        BY <2>4, <3>1 DEF MessageKind, Results
      <3> QED BY <2>1, <2>4, <3>2 DEF Released
    <2> QED BY <2>2, <2>3, <2>4
  <1> QED BY <1>1, <1>2, <1>3

LEMMA OutStep ==
    ASSUME Types, Types', SlotInv, ReplyInv, OrderInv, OutInv, Effects, [Next]_vars
    PROVE  OutInv'
  <1> USE Kinds
  <1> SUFFICES ASSUME NEW c \in Executes \cup Cancels, Outstanding(c)' \/ call'[c] = "registered"
               PROVE  Slotted(c)'
    BY DEF OutInv
  <1>0. /\ pending \in [Ids -> Executes \cup {None}] /\ cancel_acks \in [Ids -> Cancels \cup {None}]
        /\ IdOf[c] \in Ids /\ c # None
    BY DEF Types
  <1>1. \/ Outstanding(c) \/ call[c] = "registered"
        \/ c \in Cancels /\ CancelSends(c)
        \/ c \in Executes /\ ExecuteRegisters(c)
    BY OrderStep, SentStays
  <1>2. CASE c \in Cancels /\ CancelSends(c)
    BY <1>0, <1>2 DEF CancelSends, Slotted
  <1>3. CASE c \in Executes /\ ExecuteRegisters(c)
    BY <1>0, <1>3 DEF ExecuteRegisters, Slotted
  <1>4. CASE Slotted(c)
    <2>1. CASE Released(c)
      BY <2>1, ReleasedStays DEF Slotted
    <2>2. CASE c \in Executes /\ pending[IdOf[c]] = c
      <3>1. call[c] # "new"
        BY <1>0, <2>2 DEF SlotInv
      <3>2. pending'[IdOf[c]] = c \/ reply'[c] # reply[c]
        BY <1>0, <2>2 DEF Effects, ExecuteSlot
      <3> QED BY <2>2, <3>1, <3>2, LeavesReleased DEF Slotted
    <2>3. CASE c \in Cancels /\ cancel_acks[IdOf[c]] = c
      <3>1. call[c] # "new"
        BY <1>0, <2>3 DEF SlotInv
      <3>2. cancel_acks'[IdOf[c]] = c \/ reply'[c] # reply[c]
        BY <1>0, <2>3 DEF Effects, CancelSlot
      <3> QED BY <2>3, <3>1, <3>2, LeavesReleased DEF Slotted
    <2> QED BY <1>4, <2>1, <2>2, <2>3 DEF Slotted
  <1> QED BY <1>1, <1>2, <1>3, <1>4 DEF OutInv

\* The inductive invariant.
LEMMA Inductive ==
    ASSUME IInv, [Next]_vars
    PROVE  IInv' /\ Effects
  <1>1. BaseInv' /\ Effects
    BY BaseStep DEF IInv, BaseInv
  <1>2. OrderInv'
    BY <1>1, OrderStep DEF IInv, BaseInv
  <1>3. OutInv'
    BY <1>1, OutStep DEF IInv, BaseInv
  <1> QED BY <1>1, <1>2, <1>3 DEF IInv, BaseInv

\* A message delivered to another call than its own: they share kind and id,
\* and its own has been released.
LEMMA StrayDelivered ==
    ASSUME IInv, NEW c \in Calls, Delivered(c), NEW d, d = Head(responses).about, d # c
    PROVE  /\ {c, d} \subseteq Executes \/ {c, d} \subseteq Cancels
           /\ IdOf[c] = IdOf[d] /\ d \in Calls /\ Released(d)
  <1> USE Kinds
  <1> DEFINE m == Head(responses)
  <1>0. /\ pending \in [Ids -> Executes \cup {None}] /\ cancel_acks \in [Ids -> Cancels \cup {None}]
    BY DEF IInv, Types
  <1>1. responses # <<>>
    BY DEF Delivered, ReaderReads
  <1>2. /\ MessageKind(m) /\ d \in Calls /\ 1 \in DOMAIN responses /\ responses[1] = m
        /\ m.type \in Results \cup Acks => IdOf[d] \in Ids
    BY <1>1, ReadMessage DEF IInv
  <1>3. Outstanding(d)
    BY <1>2 DEF Outstanding, Answered
  <1>4. CASE m.type \in Results /\ c = pending[IdOf[d]]
    <2>1. c \in Executes /\ IdOf[c] = IdOf[d] /\ d \in Executes
      BY <1>0, <1>2, <1>4 DEF IInv, SlotInv, MessageKind
    <2> QED BY <1>2, <1>3, <1>4, <2>1 DEF IInv, OutInv, Slotted
  <1>5. CASE m.type \in Acks /\ c = cancel_acks[IdOf[d]]
    <2>1. c \in Cancels /\ IdOf[c] = IdOf[d] /\ d \in Cancels
      BY <1>0, <1>2, <1>5 DEF IInv, SlotInv, MessageKind
    <2> QED BY <1>2, <1>3, <1>5, <2>1 DEF IInv, OutInv, Slotted
  <1> QED BY <1>4, <1>5 DEF Delivered

LEMMA StrayStep ==
    ASSUME IInv, StrayAnswersOnly, Effects
    PROVE  StrayAnswersOnly'
  <1>1. ASSUME NEW c \in Calls, NEW d, d = reply'[c].about, d # c
        PROVE  /\ {c, d} \subseteq Executes \/ {c, d} \subseteq Cancels
               /\ IdOf[c] = IdOf[d] /\ Released(d)'
    <2>1. CASE reply'[c] = reply[c]
      <3>1. /\ {c, d} \subseteq Executes \/ {c, d} \subseteq Cancels
            /\ IdOf[c] = IdOf[d] /\ Released(d)
        BY <1>1, <2>1 DEF StrayAnswersOnly, Released
      <3> QED BY <3>1, ReleasedStays, Kinds DEF IInv
    <2>2. CASE CutOff(c)
      BY <1>1, <2>2 DEF CutOff, Disconnected
    <2>3. CASE Duplicate(c)
      BY <1>1, <2>3 DEF Duplicate
    <2>4. CASE Delivered(c)
      <3>1. d = Head(responses).about
        BY <1>1, <2>4 DEF Delivered
      <3>2. /\ {c, d} \subseteq Executes \/ {c, d} \subseteq Cancels
            /\ IdOf[c] = IdOf[d] /\ d \in Calls /\ Released(d)
        BY <1>1, <2>4, <3>1, StrayDelivered
      <3> QED BY <3>2, ReleasedStays DEF IInv
    <2> QED BY <2>1, <2>2, <2>3, <2>4 DEF Effects, ReplyEffect
  <1>2. ASSUME NEW c \in Calls, NEW d, d = reply'[c].about, d # c
        PROVE  /\ {c, d} \subseteq Executes \/ {c, d} \subseteq Cancels
               /\ IdOf[c] = IdOf[d]
               /\ \/ reply'[d].about # d
                  \/ reply'[d].type = "disconnected"
                  \/ d \in Executes /\ reply'[d].type = "failed"
    BY <1>1, <1>2 DEF Released
  <1> QED BY <1>2 DEF StrayAnswersOnly

\* A call that gets the answer to another one shares its kind and its id, and
\* that other one was released by a stray answer, by losing its sender or by a
\* Failed report (the reader task of connect, which looks its waiters up by id).
THEOREM StraysAreExplained == Spec => []StrayAnswersOnly
  <1>1. Init => IInv /\ StrayAnswersOnly
    BY InitHolds
  <1>2. IInv /\ StrayAnswersOnly /\ [Next]_vars => (IInv /\ StrayAnswersOnly)'
    BY Inductive, StrayStep
  <1> QED BY <1>1, <1>2, PTL DEF Spec

-----------------------------------------------------------------------------
(* When an id is free again.                                               *)

\* A result, once returned, stays.
LEMMA ResultedStays ==
    ASSUME Types, ReplyInv, Effects, [Next]_vars, NEW c \in Calls, Resulted(c)
    PROVE  Resulted(c)' /\ reply'[c] = reply[c]
  <1>1. ~Unanswered(c)
    BY DEF Resulted, Results, Unanswered
  <1>2. ~Unsent(c)
    <2>1. NoReply(c).type = "none"
      BY DEF NoReply
    <2> QED BY <1>1, <2>1 DEF ReplyInv, Unanswered, Unsent, Resulted
  <1>3. reply'[c] = reply[c]
    BY <1>1, <1>2 DEF Effects, ReplyEffect, CutOff, Duplicate, Delivered, Unsent
  <1>4. ~Unsent(c)'
    BY <1>2, SentStays
  <1> QED BY <1>3, <1>4 DEF Resulted, Unsent

\* As long as both tasks run, an execute that is not in its slot, although the
\* guest knows of it, got a result.
LEMMA ReleasedByResult ==
    ASSUME IInv, DisconnectedIsJustified, reader = "reading", writer # "ended",
           NEW e \in Executes, Outstanding(e), pending[IdOf[e]] # e
    PROVE  Resulted(e)
  <1> USE Kinds
  <1>1. Released(e)
    BY DEF IInv, OutInv, Slotted
  <1>2. reply[e].type # "disconnected"
    BY DEF DisconnectedIsJustified
  <1>3. reply[e].type \notin {"none", "duplicate"}
    BY <1>1, <1>2 DEF Released, IInv, ReplyInv
  <1>4. reply[e].type \notin Acks \cup {"tools"}
    BY DEF IInv, ReplyInv
  <1>5. reply[e] \in Replies
    BY DEF IInv, Types
  <1>6. reply[e].type \in Results
    BY <1>2, <1>3, <1>4, <1>5 DEF Replies
  <1>7. call[e] # "registered"
    BY DEF IInv, OrderInv, UnsentUnknown
  <1> QED BY <1>6, <1>7 DEF Resulted

\* The guest refuses an id: a call with that id got a result before.
LEMMA RefusedFor ==
    ASSUME IInv, DisconnectedIsJustified, reader = "reading", GuestReceives,
           NEW e \in Executes, e = Head(requests), active[IdOf[e]] # None
    PROVE  \E d \in Executes : IdOf[d] = IdOf[e] /\ Resulted(d)
  <1> USE Kinds
  <1> DEFINE g == active[IdOf[e]]
  <1>1. requests # <<>> /\ requests' = Tail(requests)
    BY DEF GuestReceives
  <1>2. writer # "ended"
    BY <1>1 DEF IInv, Types
  <1>3. /\ g \in Executes /\ IdOf[g] = IdOf[e] /\ execution[g] \in {"active", "failed"}
    BY DEF IInv, OrderInv, GuestInv, Types
  <1>4. Asked(e)
    BY <1>1, Taken DEF IInv, OrderInv
  <1>5. Outstanding(e) /\ Outstanding(g) /\ g # e
    BY <1>3, <1>4 DEF Outstanding, UnderWay, IInv, OrderInv, AskedFirst
  <1>6. CASE pending[IdOf[e]] # e
    BY <1>2, <1>5, <1>6, ReleasedByResult
  <1>7. CASE pending[IdOf[e]] = e
    BY <1>2, <1>3, <1>5, <1>7, ReleasedByResult
  <1> QED BY <1>6, <1>7

\* Where the messages come from.
LEMMA Refusals ==
    ASSUME Types, [Next]_vars, NEW i \in DOMAIN responses', responses'[i].type = "refused"
    PROVE  \/ \E j \in DOMAIN responses : responses'[i] = responses[j]
           \/ GuestReceives /\ \E e \in Executes :
                 e = Head(requests) /\ responses'[i].about = e /\ active[IdOf[e]] # None
  <1> USE Kinds DEF callers, maps, guest
  <1>0. responses \in Seq(Messages)
    BY DEF Types
  <1>1. CASE responses' = responses
    BY <1>1
  <1>2. CASE ReaderReads
    <2>1. responses # <<>> /\ responses' = Tail(responses)
      BY <1>2 DEF ReaderReads
    <2> QED BY <1>0, <2>1, Dropped
  <1>3. ASSUME NEW type \in Results \cup Acks \cup {"tools", "oversized"}, NEW c \in Calls,
               Answer(type, c)
        PROVE  \/ \E j \in DOMAIN responses : responses'[i] = responses[j]
               \/ type = "refused" /\ responses'[i].about = c
    <2> DEFINE r == [type |-> type, about |-> c]
    <2>1. r \in Messages /\ r.about = c /\ r.type = type /\ responses' = Append(responses, r)
      BY <1>3, Values DEF Answer
    <2> HIDE DEF r
    <2>2. responses'[i] = r \/ \E j \in DOMAIN responses : responses'[i] = responses[j]
      BY <1>0, <2>1, Appended
    <2> QED BY <2>1, <2>2
  <1>4. ASSUME NEW e \in Executes, GuestFails(e) \/ GuestFrees(e) \/ GuestCompletes(e)
        PROVE  \E j \in DOMAIN responses : responses'[i] = responses[j]
    <2>1. \/ responses' = responses
          \/ \E type \in {"failed", "completed", "oversized"} : Answer(type, e)
      BY <1>4 DEF GuestFails, GuestFrees, GuestCompletes
    <2> QED BY <1>1, <1>3, <2>1 DEF Results
  <1>5. CASE GuestReceives
    <2> DEFINE m == Head(requests)
    <2>1. CASE m \in Executes /\ active[IdOf[m]] # None /\ Answer("refused", m)
      <3>1. \/ \E j \in DOMAIN responses : responses'[i] = responses[j]
            \/ responses'[i].about = m
        BY <1>3, <2>1 DEF Results
      <3> QED BY <1>5, <2>1, <3>1
    <2>2. CASE responses' = responses
      BY <2>2
    <2>3. CASE m \in Cancels \cup Lists /\ \E type \in Acks \cup {"tools"} : Answer(type, m)
      BY <1>3, <2>3 DEF Acks
    <2>4. GuestExecutes(m) \/ GuestCancels(m) \/ GuestLists(m) \/ GuestShutsDown(m)
      BY <1>5 DEF GuestReceives
    <2> HIDE DEF m
    <2> QED BY <2>1, <2>2, <2>3, <2>4
            DEF GuestExecutes, GuestCancels, GuestLists, GuestShutsDown, Acks
  <1>6. ASSUME NEW c \in Calls,
               \/ ExecuteDuplicate(c) \/ ExecuteRegisters(c) \/ ExecuteSendFails(c)
               \/ ListRegisters(c) \/ ListSendFails(c) \/ CancelSends(c) \/ CancelSendFails(c)
               \/ Sends(c) \/ CallerDrops(c)
        PROVE  responses' = responses
    BY <1>6 DEF ExecuteDuplicate, ExecuteRegisters, ExecuteSendFails, ListRegisters, ListSendFails,
                CancelSends, CancelSendFails, Sends, CallerDrops
  <1>7. CASE \/ UNCHANGED vars \/ ClientDrops \/ Writer \/ ReaderStops \/ DrainPending
             \/ DrainCancels \/ DrainTools \/ ConnectionLost
    <2>1. responses' = responses
      BY <1>7 DEF vars, ClientDrops, Writer, WritesToLost, WriterAborted, ReaderStops, DrainPending,
                  DrainCancels, DrainTools, ConnectionLost
    <2> QED BY <1>1, <2>1
  <1> QED BY <1>1, <1>2, <1>4, <1>5, <1>6, <1>7 DEF Next, CallStep, Reader

LEMMA RefusedStep ==
    ASSUME IInv, DisconnectedIsJustified, RefusedInv, RefusedReplies, Effects, [Next]_vars
    PROVE  RefusedInv' /\ RefusedReplies'
  <1> USE Kinds
  <1>0. \A d \in Executes : Resulted(d) => Resulted(d)'
    BY ResultedStays DEF IInv
  <1>1. ASSUME NEW i \in DOMAIN responses', responses'[i].type = "refused", reader' = "reading"
        PROVE  \E d \in Executes : IdOf[d] = IdOf[responses'[i].about] /\ Resulted(d)'
    <2>1. reader = "reading"
      BY <1>1, EndedStays
    <2>2. \E d \in Executes : IdOf[d] = IdOf[responses'[i].about] /\ Resulted(d)
      <3>1. CASE \E j \in DOMAIN responses : responses'[i] = responses[j]
        BY <1>1, <2>1, <3>1 DEF RefusedInv
      <3>2. CASE GuestReceives /\ \E e \in Executes :
                    e = Head(requests) /\ responses'[i].about = e /\ active[IdOf[e]] # None
        BY <2>1, <3>2, RefusedFor
      <3> QED BY <1>1, <3>1, <3>2, Refusals DEF IInv
    <2> QED BY <1>0, <2>2
  <1>2. ASSUME NEW e \in Executes, reply'[e].type = "refused"
        PROVE  \E d \in Executes \ {e} : IdOf[d] = IdOf[e] /\ Resulted(d)'
    <2>1. CASE reply'[e] = reply[e]
      BY <1>0, <1>2, <2>1 DEF RefusedReplies
    <2>2. CASE CutOff(e)
      BY <1>2, <2>2 DEF CutOff, Disconnected
    <2>3. CASE Duplicate(e)
      BY <1>2, <2>3 DEF Duplicate
    <2>4. CASE Delivered(e)
      <3> DEFINE m == Head(responses)
      <3>1. /\ reader = "reading" /\ responses # <<>> /\ m.type = "refused"
            /\ e = pending[IdOf[m.about]] /\ Unanswered(e)
        BY <1>2, <2>4 DEF Delivered, ReaderReads, Acks
      <3>2. 1 \in DOMAIN responses /\ responses[1] = m /\ IdOf[m.about] \in Ids
        BY <3>1, ReadMessage DEF IInv, Results
      <3>3. PICK d \in Executes : IdOf[d] = IdOf[m.about] /\ Resulted(d)
        BY <3>1, <3>2 DEF RefusedInv
      <3>4. IdOf[e] = IdOf[m.about]
        BY <3>1, <3>2 DEF IInv, SlotInv
      <3>5. d # e
        BY <3>1, <3>3 DEF Resulted, Unanswered, Results
      <3> QED BY <1>0, <3>3, <3>4, <3>5
    <2> QED BY <2>1, <2>2, <2>3, <2>4 DEF Effects, ReplyEffect
  <1>3. RefusedInv'
    BY <1>1 DEF RefusedInv
  <1>4. RefusedReplies'
    BY <1>2 DEF RefusedReplies
  <1> QED BY <1>3, <1>4

LEMMA FreedAndRefused ==
    ASSUME IInv, RefusedReplies
    PROVE  IdsFreedByCompletion
  <1> USE Kinds
  <1>1. ASSUME NEW d \in Executes, reply[d] = [type |-> "completed", about |-> d]
        PROVE  ~Outstanding(d)
    <2>1. reply[d].type = "completed" /\ reply[d].about = d
      BY <1>1
    <2>2. ~Released(d) /\ ~Unanswered(d)
      BY <2>1 DEF Released, Unanswered
    <2>3. pending[IdOf[d]] # d
      BY <2>2 DEF IInv, SlotInv
    <2> QED BY <2>2, <2>3 DEF IInv, OutInv, Slotted
  <1>2. ASSUME NEW d \in Executes, reply[d] = [type |-> "completed", about |-> d]
        PROVE  /\ active[IdOf[d]] # d
               /\ \A i \in DOMAIN responses : responses[i].about # d
    BY <1>1, <1>2 DEF Outstanding, UnderWay, Answered, IInv, OrderInv, GuestInv
  <1>3. ASSUME NEW e \in Executes, reply[e].type = "refused"
        PROVE  \E d \in Executes \ {e} :
                  IdOf[d] = IdOf[e] /\ reply[d].type \notin {"none", "duplicate", "disconnected"}
    <2>1. PICK d \in Executes \ {e} : IdOf[d] = IdOf[e] /\ Resulted(d)
      BY <1>3 DEF RefusedReplies
    <2>2. reply[d].type \notin {"none", "duplicate", "disconnected"}
      BY <2>1 DEF Resulted, Results
    <2> QED BY <2>1, <2>2
  <1> QED BY <1>2, <1>3 DEF IdsFreedByCompletion

\* An id whose execution completed is free on both sides, and the guest refuses
\* an id only after a call with it got a result (serve frees the id before it
\* sends Completed; the client frees it at the first report).
THEOREM IdsAreFreed == Spec => []IdsFreedByCompletion
  <1> DEFINE Inv == IInv /\ DisconnectedIsJustified /\ RefusedInv /\ RefusedReplies
  <1>1. Init => Inv
    BY InitHolds
  <1>2. Inv /\ [Next]_vars => Inv'
    BY Inductive, JustifiedStep, RefusedStep
  <1>3. Inv => IdsFreedByCompletion
    BY FreedAndRefused
  <1> QED BY <1>1, <1>2, <1>3, PTL DEF Spec
=============================================================================
