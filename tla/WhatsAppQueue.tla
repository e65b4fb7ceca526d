----------------------------- MODULE WhatsAppQueue -----------------------------
(***************************************************************************)
(* The messages a company queues for WhatsApp, and the only sending there  *)
(* is: a clerk presses the button, the adapter answers, the answer is      *)
(* written on the message and in its log.  Requests read when they begin   *)
(* and write when they end; of a row that was read only the columns that   *)
(* differ from what was read are written.                                  *)
(***************************************************************************)
EXTENDS Naturals, Sequences, SequencesExt

CONSTANTS Senders,     \* requests
          TextKeys,    \* idempotency keys
          OthersKeys,  \* keys of messages of other companies
          Templates,   \* names of templates
          Blanks,       \* what a text may leave to be filled in
          MaxMessages, \* bound: messages queued
          MaxSends     \* bound: calls that end

ASSUME WhatsAppAssumption == OthersKeys \subseteq TextKeys /\ {MaxMessages, MaxSends} \subseteq Nat

VARIABLES templates, \* the texts, by name, as the set of fields they ask for
          messages,  \* notification_queue, in the order the rows were made
          sending,   \* what every request read, and is to do
          lapped,    \* history: messages sent by requests that overlapped
          accepted,  \* history: what was answered as queued: a key, and the text
          sends      \* how many calls ended

whatsAppVars == <<templates, messages, sending, lapped, accepted, sends>>

-----------------------------------------------------------------------------
Unkeyed == "none"
NotSending == [kind |-> "none"]
Answers == {"sent", "failed"}   \* of the adapter
Texts == {"own"} \cup Templates

WhatsAppInit ==
  /\ templates = [t \in {} |-> {}] /\ messages = <<>>
  /\ sending = [s \in Senders |-> NotSending]
  /\ lapped = {} /\ accepted = {} /\ sends = 0

Begin(s, job) ==
  /\ sending[s] = NotSending /\ sends < MaxSends
  /\ sending' = [sending EXCEPT ![s] = job]
  /\ UNCHANGED <<templates, messages, lapped, accepted, sends>>

\* A request ends; those open that deliver the same message have read what is out of date.
End(s, message) ==
  /\ sends < MaxSends /\ sends' = sends + 1
  /\ sending' = [r \in Senders |->
       CASE r = s -> NotSending
         [] r # s /\ sending[r].kind = "deliver" ->
              [sending[r] EXCEPT !.late = @ \/ sending[r].message = message]
         [] OTHER -> sending[r]]

\* create_template: the name must be free, when the request begins and when it ends.
BeginTemplate(s) == \E t \in Templates \ DOMAIN templates, asked \in SUBSET Blanks :
  Begin(s, [kind |-> "template", name |-> t, asks |-> asked])

EndTemplate(s) == LET job == sending[s] IN
  /\ job.kind = "template" /\ End(s, 0)
  /\ templates' = IF job.name \in DOMAIN templates THEN templates
                  ELSE [t \in DOMAIN templates \cup {job.name} |->
                          IF t = job.name THEN job.asks ELSE templates[t]]
  /\ UNCHANGED <<messages, lapped, accepted>>

\* render_template: every field a template asks for is given.
Rendered(text, given) == text \in DOMAIN templates => templates[text] \subseteq given

\* get_template: none is ever made inactive; or the request brings its own text.
TextsToSend == DOMAIN templates \cup {"own"}

HasKey(key) == {m \in DOMAIN messages : key # Unkeyed /\ messages[m].key = key}

\* enqueue_message: the answer to a request whose key is used is the message that has it.
BeginMessage(s) ==
  \E key \in TextKeys \cup {Unkeyed}, text \in TextsToSend, given \in SUBSET Blanks :
    /\ Rendered(text, given) /\ Len(messages) < MaxMessages
    /\ Begin(s, [kind |-> "enqueue", key |-> key, text |-> text,
                 found |-> HasKey(key) # {}])

\* The unique key of the table refuses a message whose key came to be used, by whatever company.
KeyIsTaken(key) == HasKey(key) # {} \/ key \in OthersKeys

NewMessage(key, text) ==
  [key |-> key, text |-> text, status |-> "queued", sent |-> FALSE, failed |-> FALSE, log |-> <<>>]

EndMessage(s) == LET job == sending[s] IN
  /\ job.kind = "enqueue" /\ End(s, 0)
  /\ CASE job.found -> accepted' = accepted \cup {<<job.key, job.text>>} /\ UNCHANGED messages
       [] ~job.found /\ KeyIsTaken(job.key) -> UNCHANGED <<messages, accepted>>
       [] OTHER -> /\ Len(messages) < MaxMessages
                   /\ messages' = Append(messages, NewMessage(job.key, job.text))
                   /\ accepted' = accepted \cup {<<job.key, job.text>>}
  /\ UNCHANGED <<templates, lapped>>

\* deliver_with_mock_adapter: whatever the status, and whatever the message was scheduled for.
BeginDelivery(s) == \E m \in DOMAIN messages, answer \in Answers :
  Begin(s, [kind |-> "deliver", message |-> m, read |-> messages[m], answer |-> answer, late |-> FALSE])

Logged(log, answer) == Append(log, answer)

\* What the request leaves of the row: a column equal to what was read is not written.
Delivered(row, read, answer) ==
  [row EXCEPT !.status = IF read.status = answer THEN @ ELSE answer,
              !.sent = @ \/ answer = "sent",
              !.failed = CASE answer = "failed" -> TRUE
                           [] answer = "sent" /\ read.failed -> FALSE
                           [] OTHER -> @,
              !.log = Logged(@, answer)]

EndDelivery(s) == LET job == sending[s] IN
  /\ job.kind = "deliver" /\ End(s, job.message)
  /\ messages' = [messages EXCEPT ![job.message] = Delivered(@, job.read, job.answer)]
  /\ lapped' = IF job.late THEN lapped \cup {job.message} ELSE lapped
  /\ UNCHANGED <<templates, accepted>>

WhatsAppNext == \E s \in Senders :
  \/ BeginTemplate(s) \/ BeginMessage(s) \/ BeginDelivery(s)
  \/ EndTemplate(s) \/ EndMessage(s) \/ EndDelivery(s)
WhatsAppSpec == WhatsAppInit /\ [][WhatsAppNext]_whatsAppVars

-----------------------------------------------------------------------------
(* The tables hold rows of their kind. *)
WhatsAppTypeOK ==
  /\ DOMAIN templates \subseteq Templates /\ \A t \in DOMAIN templates : templates[t] \subseteq Blanks
  /\ Len(messages) <= MaxMessages /\ sends \in 0..MaxSends
  /\ \A m \in DOMAIN messages :
       /\ messages[m].key \in TextKeys \cup {Unkeyed} /\ messages[m].text \in Texts
       /\ messages[m].status \in {"queued", "sent", "failed"}
       /\ {messages[m].sent, messages[m].failed} \subseteq BOOLEAN
  /\ \A s \in Senders : sending[s].kind \in {"none", "template", "enqueue", "deliver"}
  /\ lapped \subseteq DOMAIN messages /\ accepted \subseteq (TextKeys \cup {Unkeyed}) \X Texts

(* What a request was told is queued is in the queue, once, whatever was sent again: unless a *)
(* message with its key was queued before it with another text (enqueue_message). *)
AcceptedIsQueued ==
  /\ \A m, n \in DOMAIN messages : messages[m].key = messages[n].key => m = n \/ messages[m].key = Unkeyed
  /\ \A a \in accepted : \E m \in DOMAIN messages :
       /\ messages[m].key = a[1]
       /\ messages[m].text = a[2] \/ <<a[1], messages[m].text>> \in accepted

(* A message tells how its last sending went, and none of what an earlier one left behind, as *)
(* long as no two sendings of it overlap; that it was sent at all is never lost. *)
StatusOfLastSending == \A m \in DOMAIN messages : LET row == messages[m] IN
  /\ row.sent <=> "sent" \in ToSet(row.log)
  /\ m \notin lapped => /\ row.status = IF row.log = <<>> THEN "queued" ELSE Last(row.log)
                        /\ row.failed <=> row.status = "failed"

WhatsAppSound == AcceptedIsQueued /\ StatusOfLastSending
=============================================================================
