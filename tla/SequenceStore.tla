---------------------------- MODULE SequenceStore ----------------------------
(***************************************************************************)
(* The sequence numbers of the client and the two files that keep them     *)
(* across runs: the daily .token file (next outbound and next inbound      *)
(* number) and the .resend file beside it (every message sent, by number). *)
(*                                                                         *)
(* The grain is that of a crash: the socket write, the store, the          *)
(* truncation of the token file and its rewriting are separate steps, and  *)
(* the process may stop between any two of them.                           *)
(*   src/src/application.cpp   send_current_message, store_sent_message,   *)
(*                             load_resend_store, validate_inbound_sequence*)
(*   src/src/token_handler.cpp read_sequence_token, save_sequence_token    *)
(*   src/src/fix_regression.cpp  the SND step of run_file                  *)
(***************************************************************************)
EXTENDS Naturals

CONSTANTS
  Admin,           \* message types that is_admin_message accepts
  App,             \* business message types
  Logon,           \* the 35=A message the client opens a session with
  ResendRequest,   \* the 35=2 message it sends when it sees a gap
  NoMessage,       \* "no entry" in a store
  Deviations,      \* what a run allows beside the plain live mode
  MaxSeq           \* largest MsgSeqNum considered (get_int_tag stops at 2e9)

ASSUME ConstantsAssumption ==
  /\ {Logon, ResendRequest} \subseteq Admin
  /\ NoMessage \notin Admin \cup App
  /\ MaxSeq \in Nat \ {0}
  /\ Deviations \subseteq {"testMode",     \* started with -m test: run_fix_regression
                           "unnumbered",   \* scenario lines without tag 34
                           "appendFails",  \* the .resend file cannot be opened
                           "saveFails"}    \* the token file cannot be written

Body       == Admin \cup App
Number     == 1..MaxSeq
NextNumber == 1..(MaxSeq + 1)
Store      == [Number -> Body \cup {NoMessage}]
Nothing    == [n \in Number |-> NoMessage]

\* What the token file holds: no file, nothing readable, the old format with
\* the outbound number only, or the pair of numbers.
Token      == [kind : {"absent", "empty", "legacy", "pair"},
               out : NextNumber, in : NextNumber]
Pair(o, i) == [kind |-> "pair", out |-> o, in |-> i]
Absent     == [kind |-> "absent", out |-> 1, in |-> 1]
Unreadable == [kind |-> "empty", out |-> 1, in |-> 1]

VARIABLES
  pc,          \* where the process is; "down" when there is none
  after,       \* where save_sequence_token returns to
  out, in,     \* sequence_state.outbound_seq, inbound_seq
  sent,        \* sent_messages, the store in memory
  cur,         \* the message in flight in send_current_message
  gap,         \* the number that opened a gap, while it is being asked for
  regression,  \* the process was started with -m test
  token,       \* the token file
  resend,      \* the .resend file, as load_resend_store would read it
  wire,        \* history: last message transmitted under each number ...
  first,       \* ... since the numbering began at these two numbers
  high,        \* history: one more than the highest number transmitted
  ever,        \* history: every <<number, message>> transmitted that day
  settled,     \* history: inbound numbers received, asked for, or waived
  handled      \* history: inbound numbers whose message was acted on

process == <<pc, after, out, in, sent, cur, gap, regression>>
disk    == <<token, resend>>
history == <<wire, first, high, ever, settled, handled>>
vars    == <<process, disk, history>>

NoCur == [seq |-> 0, body |-> NoMessage, file |-> FALSE]

\* A process that has ended keeps nothing but what is on disk.
Ended ==
  /\ pc' = "down" /\ after' = "ready"
  /\ out' = 1 /\ in' = 1
  /\ sent' = Nothing /\ cur' = NoCur /\ gap' = 0 /\ regression' = FALSE

-----------------------------------------------------------------------------
(* Sending: send_current_message, and the SND step that mirrors it.        *)

\* The socket write. `seq` is the number the message itself carries (0 for
\* none); `file` says whether the store step will append to the .resend file.
Transmit(body, seq, file, next) ==
  /\ out <= MaxSeq
  /\ wire' = IF seq = 0 THEN wire ELSE [wire EXCEPT ![seq] = body]
  /\ high' = IF seq >= high THEN seq + 1 ELSE high
  /\ ever' = IF seq = 0 THEN ever ELSE ever \cup {<<seq, body>>}
  /\ cur' = [seq |-> seq, body |-> body, file |-> file]
  /\ pc' = "sent" /\ after' = next
  /\ UNCHANGED <<out, in, sent, regression, disk, first, handled>>

SendLogon ==
  /\ pc = "logon"
  /\ Transmit(Logon, out, TRUE, "ready")
  /\ UNCHANGED <<gap, settled>>

\* Heartbeat, TestRequest, Logout: built with 34 = outbound_seq.
SendAdmin(body) ==
  /\ pc = "ready"
  /\ Transmit(body, out, TRUE, "ready")
  /\ UNCHANGED <<gap, settled>>

\* A scenario line of the live mode: fix_template_apply overwrites tag 34 when
\* the line has one and adds none when it has not.
SendScenarioLine(body, seq) ==
  /\ pc = "ready" /\ ~regression
  /\ seq = out \/ (seq = 0 /\ "unnumbered" \in Deviations)
  /\ Transmit(body, seq, TRUE, "ready")
  /\ UNCHANGED <<gap, settled>>

\* A SND step of the test mode: a blank 34 takes outbound_seq, an explicit one
\* is sent as written, and its own store_sent_message has no file to append to.
SendStep(body, seq) ==
  /\ pc = "ready" /\ regression
  /\ Transmit(body, seq, FALSE, "ready")
  /\ UNCHANGED <<gap, settled>>

\* Mutant: a number that is in the .resend file already keeps its first line.
AppendFirstLineWins ==
  IF cur.seq = 0 \/ ~cur.file THEN {resend}
  ELSE {[resend EXCEPT ![cur.seq] = IF @ = NoMessage THEN cur.body ELSE @]}

\* Mutant: the line written carries outbound_seq, not the message's own number.
AppendUnderOutbound ==
  IF ~cur.file THEN {resend} ELSE {[resend EXCEPT ![out] = cur.body]}

AppendResult ==
  IF cur.seq = 0 \/ ~cur.file THEN {resend}
  ELSE {[resend EXCEPT ![cur.seq] = cur.body]}
         \cup (IF "appendFails" \in Deviations THEN {resend} ELSE {})

\* Mutant: the numbers are not saved after a send.
StoreMessageUnsaved ==
  /\ pc = "sent"
  /\ sent' = IF cur.seq = 0 THEN sent ELSE [sent EXCEPT ![cur.seq] = cur.body]
  /\ resend' \in AppendResult
  /\ out' = out + 1
  /\ cur' = NoCur
  /\ pc' = after
  /\ UNCHANGED <<after, in, gap, regression, token, history>>

\* store_sent_message, then outbound_seq++.
StoreMessage ==
  /\ pc = "sent"
  /\ sent' = IF cur.seq = 0 THEN sent ELSE [sent EXCEPT ![cur.seq] = cur.body]
  /\ resend' \in AppendResult
  /\ out' = out + 1
  /\ cur' = NoCur
  /\ pc' = "save"
  /\ UNCHANGED <<after, in, gap, regression, token, history>>

-----------------------------------------------------------------------------
\* History: what was transmitted and received says nothing any more of the
\* numbers, which begin again at o and i.
Renumber(o, i) ==
  /\ wire' = Nothing
  /\ first' = [out |-> o, in |-> i]
  /\ high' = o
  /\ settled' = {} /\ handled' = {}

(* save_sequence_token                                                     *)

\* fopen(path, "w") has emptied the file; the numbers are not written yet.
TruncateToken ==
  /\ pc = "save"
  /\ token' = Unreadable
  /\ pc' = "truncated"
  /\ UNCHANGED <<after, out, in, sent, cur, gap, regression, resend, history>>

\* The save that read_sequence_token makes at start-up begins a new numbering.
BeginNumbering ==
  IF after = "load" THEN Renumber(out, in) /\ UNCHANGED ever
                    ELSE UNCHANGED history

\* fprintf and fclose.
WriteToken ==
  /\ pc = "truncated"
  /\ token' = Pair(out, in)
  /\ pc' = after
  /\ BeginNumbering
  /\ UNCHANGED <<after, out, in, sent, cur, gap, regression, resend>>

\* fopen fails, and save_sequence_token with it: every caller ignores that
\* except the start-up.
OpenFails ==
  /\ "saveFails" \in Deviations
  /\ pc = "save"
  /\ IF after = "load"
       THEN Ended
       ELSE pc' = after /\ UNCHANGED <<after, out, in, sent, cur, gap, regression>>
  /\ UNCHANGED <<disk, history>>

\* Nobody looks at the results of fprintf and fclose: the file stays empty and
\* the save counts as done, at start-up too.
WriteFails ==
  /\ "saveFails" \in Deviations
  /\ pc = "truncated"
  /\ pc' = after
  /\ BeginNumbering
  /\ UNCHANGED <<after, out, in, sent, cur, gap, regression, disk>>

-----------------------------------------------------------------------------
(* Receiving: validate_inbound_sequence and the handlers that move numbers *)

\* Mutant: the message is acted on before its number is saved.
ReceiveExpectedUnsaved ==
  /\ pc = "ready" /\ in <= MaxSeq
  /\ in' = in + 1
  /\ settled' = settled \cup {in}
  /\ pc' = "handle" /\ after' = "ready"
  /\ UNCHANGED <<out, sent, cur, gap, regression, disk, wire, first, high, ever, handled>>

\* The number expected: counted and saved before the message is acted on.
ReceiveExpected ==
  /\ pc = "ready" /\ in <= MaxSeq
  /\ in' = in + 1
  /\ settled' = settled \cup {in}
  /\ pc' = "save" /\ after' = "handle"
  /\ UNCHANGED <<out, sent, cur, gap, regression, disk, wire, first, high, ever, handled>>

\* Mutant: the numbers are moved past the gap before they are asked for.
DetectGapLate(n) ==
  /\ pc = "ready" /\ n > in
  /\ in' = n + 1
  /\ pc' = "save" /\ after' = "handle"
  /\ settled' = settled \cup {n}
  /\ UNCHANGED <<out, sent, cur, gap, regression, disk, wire, first, high, ever, handled>>

\* A number too high: the ResendRequest is sent, stored and counted first.
DetectGap(n) ==
  /\ pc = "ready" /\ n > in
  /\ Transmit(ResendRequest, out, TRUE, "accept")
  /\ gap' = n
  /\ settled' = settled \cup in..(n - 1)

\* Mutant: the number after the gap is counted twice.
AcceptGapTwice ==
  /\ pc = "accept"
  /\ in' = gap + 2
  /\ settled' = settled \cup {gap}
  /\ gap' = 0
  /\ pc' = "save" /\ after' = "handle"
  /\ UNCHANGED <<out, sent, cur, regression, disk, wire, first, high, ever, handled>>

\* ... and then the message that opened the gap is accepted.
AcceptGap ==
  /\ pc = "accept"
  /\ in' = gap + 1
  /\ settled' = settled \cup {gap}
  /\ gap' = 0
  /\ pc' = "save" /\ after' = "handle"
  /\ UNCHANGED <<out, sent, cur, regression, disk, wire, first, high, ever, handled>>

\* The rest of process_inbound_message. What it sends in reply is a later
\* SendAdmin, but for the replies to a ResendRequest: they go out under their old
\* numbers, are neither kept nor counted, and are not on `wire`. The last accepted
\* number is in - 1.
HandleMessage ==
  /\ pc = "handle"
  /\ handled' = handled \cup {in - 1}
  /\ pc' = "ready" /\ after' = "ready"
  /\ UNCHANGED <<out, in, sent, cur, gap, regression, disk, wire, first, high, ever, settled>>

\* A SequenceReset whose NewSeqNo is higher waives the numbers below it. One
\* that comes in as a possible duplicate reaches the handler without a count.
HandleSequenceReset(n) ==
  /\ pc \in {"ready", "handle"} /\ n > in
  /\ handled' = IF pc = "handle" THEN handled \cup {in - 1} ELSE handled
  /\ in' = n
  /\ settled' = settled \cup in..(n - 1)
  /\ pc' = "save" /\ after' = "ready"
  /\ UNCHANGED <<out, sent, cur, gap, regression, disk, wire, first, high, ever>>

-----------------------------------------------------------------------------
(* Start, stop, and what happens to the files between runs                 *)

\* read_sequence_token: `reset` is reset_on_logon.
Start(reset, test) ==
  /\ pc = "down"
  /\ test => "testMode" \in Deviations
  /\ regression' = test
  /\ out' = IF reset \/ token.kind \in {"absent", "empty"} THEN 1 ELSE token.out
  /\ in' = IF reset \/ token.kind # "pair" THEN 1 ELSE token.in
  /\ pc' = IF ~reset /\ token.kind = "pair" THEN "load" ELSE "save"
  /\ after' = "load"
  /\ UNCHANGED <<sent, cur, gap, disk, history>>

\* Mutant: the client starts without what it sent before.
LoadNoStore ==
  /\ pc = "load"
  /\ pc' = "logon" /\ after' = "ready"
  /\ UNCHANGED <<out, in, sent, cur, gap, regression, disk, history>>

\* load_resend_store: the last line of a number wins, stale ones included.
LoadStore ==
  /\ pc = "load"
  /\ sent' = resend
  /\ pc' = "logon" /\ after' = "ready"
  /\ UNCHANGED <<out, in, cur, gap, regression, disk, history>>

\* Any end of the process: a return from run, a kill, a SIGPIPE in send.
Stop ==
  /\ pc # "down"
  /\ Ended
  /\ UNCHANGED <<disk, history>>

\* The README's way to test a sequence number: write the token by hand.
EditToken(o, i) ==
  /\ pc = "down"
  /\ token' = Pair(o, i)
  /\ Renumber(o, i)
  /\ UNCHANGED <<process, resend, ever>>

\* Both file names carry the UTC day: the first start of a day finds neither.
NewDay ==
  /\ pc = "down"
  /\ token' = Absent
  /\ resend' = Nothing
  /\ Renumber(1, 1)
  /\ ever' = {}
  /\ UNCHANGED process

-----------------------------------------------------------------------------
Init ==
  /\ pc = "down" /\ after = "ready"
  /\ out = 1 /\ in = 1
  /\ sent = Nothing /\ cur = NoCur /\ gap = 0 /\ regression = FALSE
  /\ token \in {Absent} \cup {[kind |-> "legacy", out |-> o, in |-> 1] : o \in Number}
  /\ resend = Nothing
  /\ wire = Nothing
  /\ first = [out |-> token.out, in |-> 1]
  /\ high = token.out
  /\ ever = {}
  /\ settled = {} /\ handled = {}

Next ==
  \/ SendLogon
  \/ \E b \in Admin : SendAdmin(b)
  \/ \E b \in Body, s \in Number \cup {0} : SendScenarioLine(b, s)
  \/ \E b \in Body, s \in Number \cup {0} : SendStep(b, s)
  \/ StoreMessage
  \/ TruncateToken
  \/ WriteToken
  \/ OpenFails
  \/ WriteFails
  \/ ReceiveExpected
  \/ \E n \in Number : DetectGap(n)
  \/ AcceptGap
  \/ HandleMessage
  \/ \E n \in NextNumber : HandleSequenceReset(n)
  \/ \E r, t \in BOOLEAN : Start(r, t)
  \/ LoadStore
  \/ Stop
  \/ \E o, i \in NextNumber : EditToken(o, i)
  \/ NewDay

Spec == Init /\ [][Next]_vars

-----------------------------------------------------------------------------
(* Properties                                                              *)

\* Every variable stays in its set, and a message in flight leaves room for
\* the number it takes.
TypeOK ==
  /\ pc \in {"down", "save", "truncated", "load", "logon", "ready", "sent",
             "accept", "handle"}
  /\ after \in {"load", "ready", "accept", "handle"}
  /\ out \in NextNumber /\ in \in NextNumber
  /\ sent \in Store /\ resend \in Store /\ wire \in Store
  /\ cur \in [seq : Number \cup {0}, body : Body \cup {NoMessage}, file : BOOLEAN]
  /\ gap \in Number \cup {0}
  /\ regression \in BOOLEAN
  /\ token \in Token
  /\ first \in [out : NextNumber, in : NextNumber]
  /\ high \in NextNumber
  /\ ever \subseteq Number \X Body
  /\ settled \subseteq Number /\ handled \subseteq Number

\* The process has its numbers and is not about to begin a new numbering.
Numbered == pc # "down" /\ ~(pc \in {"save", "truncated"} /\ after = "load")
\* ... and it has loaded the resend store.
Loaded   == Numbered /\ pc # "load"

\* Store f holds, for every number of this numbering below n, the message last
\* transmitted under it.
Faithful(f, n) == \A k \in first.out..(n - 1) : f[k] # NoMessage /\ f[k] = wire[k]

\* A ResendRequest is answered from `sent`: below outbound_seq it holds exactly
\* what went out under each number, also after a restart, a reset to 1 over an
\* old .resend file, or a number transmitted twice because of a crash.
ResendsWhatWasSent == Loaded => Faithful(sent, out)

\* Nothing the client counts as sent is lost by a crash: whatever a
\* restart would take for sent, because it is below the saved outbound number,
\* is in the .resend file as it was last transmitted.
EveryMessagePersisted == token.kind = "pair" => Faithful(resend, token.out)

\* README "writes every sent FIX message into a resend store file": between two
\* messages, what was transmitted is in the .resend file. A process started with
\* -m test does not keep to it.
ResendFileComplete ==
  pc = "ready" => \A n \in Number : wire[n] # NoMessage => resend[n] # NoMessage

\* The saved outbound number is the next one to use, or, when the process died
\* between the socket write and the save, the one just used: a restart repeats
\* one number at most and never skips one.
TokenLagsAtMostOne ==
  token.kind = "pair" => (high = token.out \/ high = token.out + 1)

\* Every inbound number below the saved one was received, asked for with a
\* ResendRequest that went out before the save, or waived by a SequenceReset:
\* no crash lets the client forget a number it never saw.
NoInboundForgotten ==
  token.kind = "pair" => first.in..(token.in - 1) \subseteq settled

\* A message is acted on once, whatever the process does between counting it,
\* saving the count and acting: a restart never hands the same number to
\* process_inbound_message's handlers as a new one. (Only a message marked as a
\* possible duplicate is acted on again, application.cpp:452-459.)
NeverHandledTwice == pc = "handle" => in - 1 \notin handled

\* Whatever is lost on the way, nothing is made up: a message kept for resending
\* was transmitted earlier that day under the number it is kept for.
NothingForged ==
  \A n \in Number : /\ sent[n] # NoMessage => <<n, sent[n]>> \in ever
                    /\ resend[n] # NoMessage => <<n, resend[n]>> \in ever

\* The client is an outbound log: each number it transmits is one more than the
\* last, but for a crash, which may transmit the last one again.
Log == INSTANCE OutboundLog WITH log <- wire, next <- high
ImplementsOutboundLog == Log!Spec

=============================================================================
