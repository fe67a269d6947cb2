------------------------------ MODULE SmtpSend ------------------------------
(***************************************************************************)
(* SMTPSender.Send for one e-mail job: the exchange with the server, the   *)
(* goroutine that closes the connection when the context ends, and the     *)
(* deferred QUIT.  The server may refuse any command, stop answering, or   *)
(* accept the message and lose the answer.                                 *)
(***************************************************************************)
EXTENDS Naturals, Sequences

CONSTANTS
  Recipients       \* number of recipients of the message

ASSUME SmtpInputs == Recipients \in Nat

VARIABLES
  callerDeadline,  \* the context of the job has a deadline
  payloadOk,       \* the payload has a recipient and a subject
  command,         \* the command of Exchange that is next
  sendCtx,         \* the context of the exchange
  link,            \* the connection
  silent,          \* the server has stopped answering
  taken,           \* the server has accepted the message
  outcome          \* what Handle returns

smtpVars == <<callerDeadline, payloadOk, command, sendCtx, link, silent, taken, outcome>>

(* One RCPT per recipient; "end" is the dot that ends DATA. *)
Exchange == <<"dial", "greeting", "hello", "starttls", "auth", "mail">>
              \o [n \in 1..Recipients |-> "rcpt"] \o <<"data", "body", "end", "quit">>
QuitStep == Len(Exchange)
Returned == command > Len(Exchange)
At(s) == ~Returned /\ Exchange[command] = s

SmtpTypeOK ==
  /\ command \in 1..(Len(Exchange) + 1)
  /\ sendCtx \in {"live", "cancelled", "expired"}
  /\ link \in {"none", "open", "closed"}
  /\ outcome \in {"none", "ok", "error"}
  /\ {callerDeadline, payloadOk, silent, taken} \subseteq BOOLEAN

SmtpInit ==
  /\ callerDeadline \in BOOLEAN /\ payloadOk \in BOOLEAN
  /\ command = 1 /\ link = "none" /\ outcome = "none" /\ sendCtx = "live"
  /\ silent = FALSE /\ taken = FALSE

(* Faulty variant: only the deadline of the job counts. *)
DeadlineOfCaller == IF callerDeadline THEN "job" ELSE "none"

(* A context without a deadline gets defaultSMTPTimeout. *)
SendDeadline == IF callerDeadline THEN "job" ELSE "default"

(* Handle refuses a payload without recipient or subject before it dials. *)
InvalidPayload ==
  /\ At("dial") /\ ~payloadOk
  /\ command' = Len(Exchange) + 1 /\ outcome' = "error"
  /\ UNCHANGED <<callerDeadline, payloadOk, sendCtx, link, silent, taken>>

DialServer ==
  /\ At("dial") /\ payloadOk
  /\ \/ sendCtx = "live" /\ link' = "open" /\ command' = command + 1 /\ UNCHANGED outcome
     \/ command' = Len(Exchange) + 1 /\ outcome' = "error" /\ UNCHANGED link
  /\ UNCHANGED <<callerDeadline, payloadOk, sendCtx, silent, taken>>

Answers == link = "open" /\ ~silent /\ sendCtx # "expired"
InExchange == ~At("dial") /\ ~At("quit") /\ ~Returned

(* A command and its answer.  STARTTLS and AUTH are left out when the      *)
(* server or the configuration lacks them, the body may only be buffered.  *)
Command ==
  /\ InExchange /\ ~At("end")
  /\ Answers \/ At("starttls") \/ At("auth") \/ At("body")
  /\ command' = command + 1
  /\ UNCHANGED <<callerDeadline, payloadOk, sendCtx, link, silent, taken, outcome>>

(* A read or write ends: the server is heard, or the connection is closed, *)
(* or its deadline has passed.                                             *)
CallEnds == ~silent \/ link = "closed" \/ sendCtx = "expired"

(* The command is refused or broken off.  NewClient reads the greeting;    *)
(* without a client there is nothing to quit and the connection is closed. *)
CommandFails ==
  /\ InExchange /\ CallEnds
  /\ outcome' = "error"
  /\ command' = IF At("greeting") THEN Len(Exchange) + 1 ELSE QuitStep
  /\ link' = IF At("greeting") THEN "closed" ELSE link
  /\ UNCHANGED <<callerDeadline, payloadOk, sendCtx, silent, taken>>

(* The server takes the message.  The answer may be lost, and a context    *)
(* that has ended makes an error of a success.                             *)
EndOfData ==
  /\ At("end") /\ Answers
  /\ taken' = TRUE
  /\ outcome' \in IF sendCtx = "live" THEN {"ok", "error"} ELSE {"error"}
  /\ command' = QuitStep
  /\ UNCHANGED <<callerDeadline, payloadOk, sendCtx, link, silent>>

(* QUIT, and Close when it fails. *)
Quit ==
  /\ At("quit") /\ CallEnds
  /\ link' = "closed"
  /\ command' = command + 1
  /\ UNCHANGED <<callerDeadline, payloadOk, sendCtx, silent, taken, outcome>>

DeadlinePasses ==
  /\ SendDeadline # "none" /\ sendCtx # "expired" /\ ~Returned
  /\ sendCtx' = "expired"
  /\ UNCHANGED <<callerDeadline, payloadOk, command, link, silent, taken, outcome>>

CtxCancelled ==
  /\ sendCtx = "live" /\ ~Returned
  /\ sendCtx' = "cancelled"
  /\ UNCHANGED <<callerDeadline, payloadOk, command, link, silent, taken, outcome>>

(* The goroutine that waits for ctx.Done or for the end of the exchange. *)
WatcherCloses ==
  /\ sendCtx # "live" /\ link = "open" /\ ~Returned
  /\ link' = "closed"
  /\ UNCHANGED <<callerDeadline, payloadOk, command, sendCtx, silent, taken, outcome>>

ServerGoesSilent ==
  /\ link = "open" /\ ~silent
  /\ silent' = TRUE
  /\ UNCHANGED <<callerDeadline, payloadOk, command, sendCtx, link, taken, outcome>>

SmtpStep == InvalidPayload \/ DialServer \/ Command \/ CommandFails \/ EndOfData \/ Quit
SmtpSteps == SmtpStep \/ WatcherCloses \/ DeadlinePasses
SmtpNext == SmtpSteps \/ CtxCancelled \/ ServerGoesSilent
SmtpFairness == WF_smtpVars(SmtpSteps)
SmtpSpec == SmtpInit /\ [][SmtpNext]_smtpVars /\ SmtpFairness

(***************************************************************************)
(* Properties.                                                             *)
(***************************************************************************)
(* Every Send returns, also when the server accepts the connection and     *)
(* says nothing and the job has no deadline of its own; it leaves no       *)
(* connection open, whatever way it returns, and returns nil only if the   *)
(* server has accepted the message.  (The converse does not hold: an error *)
(* may hide an accepted message, and the retry of the job sends it again.) *)
SendReturns ==
  []<>(At("dial") \/ (Returned /\ link # "open" /\ (outcome = "ok" => taken)))
=============================================================================
