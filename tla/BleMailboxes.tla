------------------------------ MODULE BleMailboxes -----------------------------
(***************************************************************************)
(* The two requests that a phone leaves for the main loop in unguarded     *)
(* memory: the name it wants for this node, and the profile it wants to    *)
(* read.  The callbacks of the BLE stack run on one core and store a       *)
(* request in several steps; update_ble runs on the other core about once  *)
(* a second and carries it out in several steps.                           *)
(*                                                                         *)
(* A name is told apart only by which name each of its two halves comes    *)
(* from, an answer by the question it answers.  The phone does one thing   *)
(* at a time; how long it waits before it reads an answer is left open,    *)
(* since its delay and the loop's interval are not related.                *)
(***************************************************************************)
EXTENDS Naturals

CONSTANTS
  Names,        \* names the phone may give
  Types,        \* values of the request's type: 0 for radio, 1 for user
  Ids,          \* values of the request's id
  Empty,        \* the empty answer
  MaxRequests   \* bound: requests of the phone

ASSUME MailboxAssumption ==
  /\ Types \subseteq Nat
  /\ Ids \subseteq Nat
  /\ Empty \notin Types \X Ids
  /\ MaxRequests \in Nat

VARIABLES
  name_buf,     \* node_name_write_buf_, its two halves
  name_len,     \* node_name_write_len_, 0 or 1 for more than 0
  name_flag,    \* has_node_name_write_
  req_type,     \* profile_read_request_type_
  req_id,       \* profile_read_request_id_
  req_flag,     \* has_profile_read_request_
  resp_data,    \* profile_read_response_buf_
  resp_len,     \* profile_read_response_len_, 0 or 1 for more than 0
  name_value,   \* node_name_value_buf_
  callback,     \* how far the callback of a write has come
  loop,         \* how far update_ble has come
  taken,        \* the question the loop has read
  copied,       \* the name the loop has copied
  name,         \* the node_name of the self entry
  phone,        \* what the phone waits for
  written,      \* the name the phone gave last
  name_overlap, \* it was given while another was pending or handled
  question,     \* what the phone asked last
  ask_overlap,  \* it was asked while another was pending, handled or still answered
  answer,       \* what the phone read then
  requests      \* requests so far

nameBox == <<name_buf, name_len, name_flag>>
profileBox == <<req_type, req_id, req_flag, resp_data, resp_len>>
asked == <<written, name_overlap, question, ask_overlap, answer, requests>>
boxVars == <<nameBox, profileBox, name_value, callback, loop, taken, copied, name, phone, asked>>

Halves == [head : Names, tail : Names]
Whole(n) == [head |-> n, tail |-> n]
Questions == Types \X Ids

\* update_profile_read: the radio profile 0 and the user profiles 0 to 2 exist.
Known(q) == (q[1] = 0 /\ q[2] = 0) \/ (q[1] = 1 /\ q[2] <= 2)
AnswerTo(q) == IF Known(q) THEN q ELSE Empty
Answers == {q \in Questions : Known(q)} \cup {Empty}

\* What the phone gets if it reads the response now.
Response == IF resp_len = 0 THEN Empty ELSE resp_data

BoxTypeOK ==
  /\ name_buf \in Halves
  /\ name_len \in 0 .. 1
  /\ name_flag \in BOOLEAN
  /\ req_type \in Types /\ req_id \in Ids
  /\ req_flag \in BOOLEAN
  /\ resp_data \in Answers
  /\ resp_len \in 0 .. 1
  /\ name_value \in Halves
  /\ callback \in {"no", "name_tail", "name_len", "name_flag", "ask_id", "ask_flag"}
  /\ loop \in {"rest", "profile", "answer", "answer_len", "answered", "name", "name_tail",
               "name_set", "name_clear", "name_len", "value"}
  /\ taken \in Questions
  /\ copied \in Halves
  /\ name \in Halves
  /\ phone \in {"free", "writing", "asking", "reading"}
  /\ written \in Names
  /\ name_overlap \in BOOLEAN
  /\ question \in Questions
  /\ ask_overlap \in BOOLEAN
  /\ answer \in Questions \cup {Empty}
  /\ requests \in 0 .. MaxRequests

-------------------------------------------------------------------------------

\* Nothing is asked yet; the node has some name.
BoxInit ==
  /\ written \in Names
  /\ name_buf = Whole(written)
  /\ name_len = 0
  /\ name_flag = FALSE
  /\ question \in Questions
  /\ req_type = question[1]
  /\ req_id = question[2]
  /\ req_flag = FALSE
  /\ resp_data = Empty
  /\ resp_len = 0
  /\ name = Whole(written)
  /\ name_value = Whole(written)
  /\ callback = "no"
  /\ loop = "rest"
  /\ taken = question
  /\ copied = Whole(written)
  /\ phone = "free"
  /\ name_overlap = FALSE
  /\ ask_overlap = FALSE
  /\ answer = Empty
  /\ requests = 0

-------------------------------------------------------------------------------
(* The phone and the callbacks.  Each changes the name box or the profile box. *)

LoopStill == UNCHANGED <<loop, taken, copied, name, name_value>>
InNameSection == loop \in {"name", "name_tail", "name_set", "name_clear", "name_len"}
InProfileSection == loop \in {"profile", "answer", "answer_len", "answered"}

\* writeNodeName; NodeNameCallbacks::onWrite begins to copy.
WriteName(n) ==
  /\ phone = "free"
  /\ requests < MaxRequests
  /\ phone' = "writing"
  /\ callback' = "name_tail"
  /\ name_buf' = [head |-> n, tail |-> name_buf.tail]
  /\ written' = n
  /\ name_overlap' = (name_flag \/ InNameSection)
  /\ requests' = requests + 1
  /\ LoopStill
  /\ UNCHANGED <<name_len, name_flag, profileBox, question, ask_overlap, answer>>

\* set_node_name_write_request, after its first half.
StoreName ==
  \/ /\ callback = "name_tail"
     /\ name_buf' = [head |-> name_buf.head, tail |-> written]
     /\ callback' = "name_len"
     /\ UNCHANGED <<name_len, name_flag, phone>>
  \/ /\ callback = "name_len"
     /\ name_len' = 1
     /\ callback' = "name_flag"
     /\ UNCHANGED <<name_buf, name_flag, phone>>
  \/ /\ callback = "name_flag"
     /\ name_flag' = TRUE
     /\ callback' = "no"
     /\ phone' = "free"
     /\ UNCHANGED <<name_buf, name_len>>

\* readProfile writes the request; ProfileReadCallbacks::onWrite stores the type, ...
Ask(q) ==
  /\ phone = "free"
  /\ requests < MaxRequests
  /\ phone' = "asking"
  /\ callback' = "ask_id"
  /\ req_type' = q[1]
  /\ question' = q
  /\ ask_overlap' = (req_flag \/ resp_len # 0 \/ InProfileSection)
  /\ answer' = Empty
  /\ requests' = requests + 1
  /\ LoopStill
  /\ UNCHANGED <<nameBox, req_id, req_flag, resp_data, resp_len, written, name_overlap>>

\* ... then the id, and then sets the flag.
StoreQuestion ==
  \/ /\ callback = "ask_id"
     /\ req_id' = question[2]
     /\ callback' = "ask_flag"
     /\ UNCHANGED <<req_flag, phone>>
  \/ /\ callback = "ask_flag"
     /\ req_flag' = TRUE
     /\ callback' = "no"
     /\ phone' = "reading"
     /\ UNCHANGED req_id

\* After its delay the phone reads; ProfileReadCallbacks::onRead gives what is there.
ReadAnswer ==
  /\ phone = "reading"
  /\ answer' = Response
  /\ phone' = "free"
  /\ LoopStill
  /\ UNCHANGED <<nameBox, profileBox, callback, written, name_overlap, question, ask_overlap,
                 requests>>

\* The phone is gone before it reads.
GiveUp ==
  /\ phone = "reading"
  /\ phone' = "free"
  /\ LoopStill
  /\ UNCHANGED <<nameBox, profileBox, callback, asked>>

Callback ==
  \/ StoreName /\ LoopStill /\ UNCHANGED <<profileBox, asked>>
  \/ StoreQuestion /\ LoopStill /\ UNCHANGED <<nameBox, req_type, resp_data, resp_len, asked>>

-------------------------------------------------------------------------------
(* The main loop, step by step. *)

PhoneStill == UNCHANGED <<callback, phone, asked>>

\* Mutant: an answer is left where it is until the next one.
KeepsAnswer ==
  \/ /\ loop = "profile"
     /\ ~req_flag
     /\ loop' = "name"
     /\ UNCHANGED <<taken, req_flag, resp_data, resp_len>>
  \/ /\ loop = "profile"
     /\ req_flag
     /\ taken' = <<req_type, req_id>>
     /\ loop' = "answer"
     /\ UNCHANGED <<req_flag, resp_data, resp_len>>
  \/ /\ loop = "answer"
     /\ resp_data' = taken
     /\ resp_len' = 1
     /\ loop' = "answered"
     /\ UNCHANGED <<taken, req_flag>>
  \/ /\ loop = "answered"
     /\ req_flag' = FALSE
     /\ loop' = "name"
     /\ UNCHANGED <<taken, resp_data, resp_len>>

\* update_profile_read.  Without a request the last answer is taken back; with one, the
\* answer is stored (a length of 0 if there is no such profile), then the request cleared.
AnswerProfile ==
  \/ /\ loop = "profile"
     /\ ~req_flag
     /\ resp_len' = 0
     /\ loop' = "name"
     /\ UNCHANGED <<taken, req_flag, resp_data>>
  \/ /\ loop = "profile"
     /\ req_flag
     /\ taken' = <<req_type, req_id>>
     /\ loop' = "answer"
     /\ UNCHANGED <<req_flag, resp_data, resp_len>>
  \/ /\ loop = "answer"
     /\ Known(taken)
     /\ resp_data' = taken
     /\ loop' = "answer_len"
     /\ UNCHANGED <<taken, req_flag, resp_len>>
  \/ /\ loop = "answer_len" \/ (loop = "answer" /\ ~Known(taken))
     /\ resp_len' = IF Known(taken) THEN 1 ELSE 0
     /\ loop' = "answered"
     /\ UNCHANGED <<taken, req_flag, resp_data>>
  \/ /\ loop = "answered"
     /\ req_flag' = FALSE
     /\ loop' = "name"
     /\ UNCHANGED <<taken, resp_data, resp_len>>

\* Mutant: the request is cleared before the name is copied.
ClearsFirst ==
  \/ /\ loop = "name"
     /\ ~name_flag
     /\ loop' = "value"
     /\ UNCHANGED <<copied, name, name_len, name_flag>>
  \/ /\ loop = "name"
     /\ name_flag
     /\ name_flag' = FALSE
     /\ name_len' = 0
     /\ loop' = "name_tail"
     /\ UNCHANGED <<copied, name>>
  \/ /\ loop = "name_tail"
     /\ name' = IF name_len = 1 THEN name_buf ELSE name
     /\ loop' = "value"
     /\ UNCHANGED <<copied, name_len, name_flag>>

\* The name section of update_ble: a request of length 0 is dropped, another copied and
\* given to the self entry; then the flag is cleared, and then the length.
ApplyName ==
  \/ /\ loop = "name"
     /\ ~name_flag
     /\ loop' = "value"
     /\ UNCHANGED <<copied, name, name_len, name_flag>>
  \/ /\ loop = "name"
     /\ name_flag
     /\ IF name_len = 0
        THEN loop' = "name_clear" /\ UNCHANGED copied
        ELSE loop' = "name_tail" /\ copied' = Whole(name_buf.head)
     /\ UNCHANGED <<name, name_len, name_flag>>
  \/ /\ loop = "name_tail"
     /\ copied' = [head |-> copied.head, tail |-> name_buf.tail]
     /\ loop' = "name_set"
     /\ UNCHANGED <<name, name_len, name_flag>>
  \/ /\ loop = "name_set"
     /\ name' = copied
     /\ loop' = "name_clear"
     /\ UNCHANGED <<copied, name_len, name_flag>>
  \/ /\ loop = "name_clear"
     /\ name_flag' = FALSE
     /\ loop' = "name_len"
     /\ UNCHANGED <<copied, name, name_len>>
  \/ /\ loop = "name_len"
     /\ name_len' = 0
     /\ loop' = "value"
     /\ UNCHANGED <<copied, name, name_flag>>

\* set_node_name_value; the advertised name follows it.
PublishName ==
  /\ loop = "value"
  /\ name_value' = name
  /\ loop' = "rest"
  /\ UNCHANGED <<taken, copied, name, nameBox, profileBox>>

\* update_ble is due again.
NextPass ==
  /\ loop = "rest"
  /\ loop' = "profile"
  /\ UNCHANGED <<taken, copied, name, name_value, nameBox, profileBox>>

LoopStep ==
  /\ PhoneStill
  /\ \/ NextPass
     \/ AnswerProfile /\ UNCHANGED <<copied, name, name_value, nameBox, req_type, req_id>>
     \/ ApplyName /\ UNCHANGED <<taken, name_value, name_buf, profileBox>>
     \/ PublishName

BoxNext ==
  \/ \E n \in Names : WriteName(n)
  \/ \E q \in Questions : Ask(q)
  \/ ReadAnswer \/ GiveUp
  \/ Callback
  \/ LoopStep

\* The loop does not stop, and a callback that has begun ends.
BoxFairness == WF_boxVars(LoopStep) /\ WF_boxVars(Callback)

BoxSpec == BoxInit /\ [][BoxNext]_boxVars /\ BoxFairness

-------------------------------------------------------------------------------
(* Properties *)

\* A question asked while the profile box is at rest is answered with its own answer or not
\* at all, however slowly the loop and the callbacks move.
OwnAnswerOrNone ==
  ~ask_overlap => answer \in {Empty, AnswerTo(question)}

\* A name written while no other one is pending or handled reaches what the phone reads
\* back, whole, unless a further one is written.
WrittenNameIsShown ==
  \A n \in Names :
    written = n /\ ~name_overlap ~>
      (name_value = Whole(n) \/ written # n \/ name_overlap)

\* What the comment of readProfile takes for granted: after the delay the answer is there
\* and is the one to the question asked.
AnswerIsToQuestion == answer \in {Empty, AnswerTo(question)}

================================================================================
