---------------------------- MODULE OneTimeCodes ----------------------------
(***************************************************************************)
(* One-time passwords of one phone: the table otps and the two keys of the *)
(* rate limiter in Redis.  Both are keyed by the phone, so phones do not   *)
(* meet.  A client makes one call after another; every await of a call is  *)
(* a step, and calls of different clients interleave at the awaits.        *)
(***************************************************************************)
EXTENDS Naturals, FiniteSets

CONSTANTS
  Clients,           \* callers of send, verify, register, change password
  MaxCodes,          \* bound on the codes created in a behaviour
  MaxAttempts,       \* wrong guesses a code survives (5 in the code)
  MaxPerHour,        \* config otpMaxPerHour
  MaxRedisFailures   \* bound on the calls that Redis fails

ASSUME CodesAssumption ==
  /\ IsFiniteSet(Clients)
  /\ MaxCodes \in Nat /\ MaxAttempts \in Nat \ {0}
  /\ MaxPerHour \in Nat \ {0} /\ MaxRedisFailures \in Nat

VARIABLES
  codes,      \* codes[i]: the i-th row of otps for the phone
  counter,    \* otp:ratelimit:<phone>, its count and whether it has a TTL
  cooldown,   \* whether otp:cooldown:<phone> exists
  call,       \* call[c]: the call in progress of client c
  failures,   \* calls that Redis failed so far
  accepted,   \* the codes that some verification took
  wrong,      \* wrong[i]: wrong guesses answered while code i was active, to MaxAttempts
  sent        \* messages sent since the counter was last absent

codesVars == <<codes, counter, cooldown, call, failures, accepted, wrong, sent>>

CodeIds == 1..MaxCodes
WrongGuess == 0                        \* a guess that no row has
Attempts == 0..MaxAttempts             \* attempts beyond the limit look alike
Absent == [count |-> 0, expires |-> FALSE]
NoCall == [pc |-> "idle", code |-> WrongGuess]
Created(i) == codes[i].status # "none"
Active(i) == codes[i].status = "active"

SendSteps == {"limit", "invalidate", "create", "sms", "undo", "incr", "expire", "setCooldown"}
CheckSteps == {"find", "count", "mark", "reset"}

CodeRows == [status: {"none", "active", "expired", "verified"}, attempts: Attempts]
CodeCalls == [pc: {"idle"} \cup SendSteps \cup CheckSteps, code: CodeIds \cup {WrongGuess}]

CodesTypeOK ==
  /\ codes \in [CodeIds -> CodeRows]
  /\ counter \in [count: Nat, expires: BOOLEAN]
  /\ cooldown \in BOOLEAN
  /\ call \in [Clients -> CodeCalls]
  /\ failures \in 0..MaxRedisFailures
  /\ accepted \subseteq CodeIds
  /\ wrong \in [CodeIds -> Attempts]
  /\ sent \in Nat

CodesInit ==
  /\ codes = [i \in CodeIds |-> [status |-> "none", attempts |-> 0]]
  /\ counter = Absent /\ cooldown = FALSE
  /\ call = [c \in Clients |-> NoCall]
  /\ failures = 0 /\ sent = 0
  /\ accepted = {} /\ wrong = [i \in CodeIds |-> 0]

Goto(c, pc) == call' = [call EXCEPT ![c].pc = pc]
\* The steps from here on no longer need the code.
Restart(c, pc) == call' = [call EXCEPT ![c] = [NoCall EXCEPT !.pc = pc]]
Finish(c) == call' = [call EXCEPT ![c] = NoCall]
At(c, pc) == call[c].pc = pc

----------------------------------------------------------------------------
(* SendOtpUseCase *)

\* assertSendAllowed: the cooldown first, the counter an await later.
BeginSend(c) ==
  /\ At(c, "idle") /\ ~cooldown
  /\ Goto(c, "limit")
  /\ UNCHANGED <<codes, counter, cooldown, failures, accepted, wrong, sent>>

CheckLimit(c) ==
  /\ At(c, "limit")
  /\ IF counter.count < MaxPerHour THEN Goto(c, "invalidate") ELSE Finish(c)
  /\ UNCHANGED <<codes, counter, cooldown, failures, accepted, wrong, sent>>

InvalidateActive(c) ==
  /\ At(c, "invalidate")
  /\ codes' = [i \in CodeIds |-> IF Active(i) THEN [codes[i] EXCEPT !.status = "expired"]
                                              ELSE codes[i]]
  /\ Goto(c, "create")
  /\ UNCHANGED <<counter, cooldown, failures, accepted, wrong, sent>>

\* Codes are random: two rows of the phone are taken to differ.
CreateCode(c) ==
  /\ At(c, "create")
  /\ \E i \in CodeIds :
       /\ ~Created(i)
       /\ \A j \in 1..(i - 1) : Created(j)
       /\ codes' = [codes EXCEPT ![i] = [status |-> "active", attempts |-> 0]]
       /\ call' = [call EXCEPT ![c] = [pc |-> "sms", code |-> i]]
  /\ UNCHANGED <<counter, cooldown, failures, accepted, wrong, sent>>

SmsSent(c) ==
  /\ At(c, "sms")
  /\ Restart(c, "incr")
  /\ sent' = sent + 1
  /\ UNCHANGED <<codes, counter, cooldown, failures, accepted, wrong>>

SmsRefused(c) ==
  /\ At(c, "sms")
  /\ Goto(c, "undo")
  /\ UNCHANGED <<codes, counter, cooldown, failures, accepted, wrong, sent>>

InvalidateByCode(c) ==
  /\ At(c, "undo")
  /\ codes' = [codes EXCEPT ![call[c].code].status =
                 IF @ = "verified" THEN "verified" ELSE "expired"]
  /\ Finish(c)
  /\ UNCHANGED <<counter, cooldown, failures, accepted, wrong, sent>>

----------------------------------------------------------------------------
(* OtpRateLimiter.recordSuccessfulSend and resetAfterVerification *)

\* Mutant of FirstInWindow.
FirstInWindowLate == counter.count = 1
FirstInWindow == counter.count = 0

Incr(c) ==
  /\ At(c, "incr")
  /\ counter' = [counter EXCEPT !.count = @ + 1]
  /\ Goto(c, IF FirstInWindow THEN "expire" ELSE "setCooldown")
  /\ UNCHANGED <<codes, cooldown, failures, accepted, wrong, sent>>

\* EXPIRE of a key that was deleted in the meantime does nothing.
Expire(c) ==
  /\ At(c, "expire")
  /\ counter' = [counter EXCEPT !.expires = counter.count > 0]
  /\ Goto(c, "setCooldown")
  /\ UNCHANGED <<codes, cooldown, failures, accepted, wrong, sent>>

SetCooldown(c) ==
  /\ At(c, "setCooldown")
  /\ cooldown' = TRUE
  /\ Finish(c)
  /\ UNCHANGED <<codes, counter, failures, accepted, wrong, sent>>

ResetAfterVerification(c) ==
  /\ At(c, "reset")
  /\ counter' = Absent /\ cooldown' = FALSE /\ sent' = 0
  /\ Finish(c)
  /\ UNCHANGED <<codes, failures, accepted, wrong>>

\* Redis answers a command with an error: the request ends there.
RedisFails(c) ==
  /\ failures < MaxRedisFailures
  /\ call[c].pc \in {"incr", "expire", "setCooldown", "reset"}
  /\ failures' = failures + 1
  /\ Finish(c)
  /\ UNCHANGED <<codes, counter, cooldown, accepted, wrong, sent>>

WindowEnds ==
  /\ counter.expires
  /\ counter' = Absent /\ sent' = 0
  /\ UNCHANGED <<codes, cooldown, call, failures, accepted, wrong>>

CooldownEnds ==
  /\ cooldown
  /\ cooldown' = FALSE
  /\ UNCHANGED <<codes, counter, call, failures, accepted, wrong, sent>>

----------------------------------------------------------------------------
(* OtpCodeService.verify, called by VerifyOtp, Register and ChangePassword; *)
(* only VerifyOtp resets the rate limiter.                                  *)

BeginVerify(c, guess) ==
  /\ At(c, "idle")
  /\ call' = [call EXCEPT ![c] = [pc |-> "find", code |-> guess]]
  /\ UNCHANGED <<codes, counter, cooldown, failures, accepted, wrong, sent>>

\* Mutant of Found.
FoundVerified(guess) == guess \in CodeIds /\ codes[guess].status \in {"active", "verified"}
Found(guess) == guess \in CodeIds /\ Active(guess)

FindActive(c) ==
  /\ At(c, "find")
  /\ \/ ~Found(call[c].code) /\ Restart(c, "count")
     \/ Found(call[c].code) /\ codes[call[c].code].attempts >= MaxAttempts /\ Finish(c)
     \/ Found(call[c].code) /\ codes[call[c].code].attempts < MaxAttempts /\ Goto(c, "mark")
  /\ UNCHANGED <<codes, counter, cooldown, failures, accepted, wrong, sent>>

OneMore(n) == IF n < MaxAttempts THEN n + 1 ELSE n

\* Every active row of the phone counts the wrong guess, whatever it was.
Counted == {i \in CodeIds : Active(i)}

IncrementAttempts(c) ==
  /\ At(c, "count")
  /\ codes' = [i \in CodeIds |-> IF i \in Counted
                                 THEN [codes[i] EXCEPT !.attempts = OneMore(@)] ELSE codes[i]]
  /\ wrong' = [i \in CodeIds |-> IF Active(i) THEN OneMore(wrong[i]) ELSE wrong[i]]
  /\ Finish(c)
  /\ UNCHANGED <<counter, cooldown, failures, accepted, sent>>

\* By id: whatever the row has become since it was read.
MarkVerified(c) ==
  /\ At(c, "mark")
  /\ codes' = [codes EXCEPT ![call[c].code].status = "verified"]
  /\ accepted' = accepted \cup {call[c].code}
  /\ Restart(c, "reset") \/ Finish(c)
  /\ UNCHANGED <<counter, cooldown, failures, wrong, sent>>

CodeExpires(i) ==
  /\ Active(i)
  /\ codes' = [codes EXCEPT ![i].status = "expired"]
  /\ UNCHANGED <<counter, cooldown, call, failures, accepted, wrong, sent>>

CallStep(c) ==
  \/ CheckLimit(c) \/ InvalidateActive(c) \/ CreateCode(c)
  \/ SmsSent(c) \/ SmsRefused(c) \/ InvalidateByCode(c)
  \/ Incr(c) \/ Expire(c) \/ SetCooldown(c) \/ ResetAfterVerification(c)
  \/ FindActive(c) \/ IncrementAttempts(c) \/ MarkVerified(c)

CodesNext ==
  \/ \E c \in Clients : BeginSend(c) \/ CallStep(c) \/ RedisFails(c)
  \/ \E c \in Clients, guess \in CodeIds \cup {WrongGuess} : BeginVerify(c, guess)
  \/ \E i \in CodeIds : CodeExpires(i)
  \/ WindowEnds
  \/ CooldownEnds

CodesSpec == CodesInit /\ [][CodesNext]_codesVars

----------------------------------------------------------------------------
(* Properties *)

Takes(c) == call[c].pc # "mark" /\ call'[c].pc = "mark"

\* Two verifications that overlap may both take one code; a verification that
\* reads the code after any other took it never does, although markVerified
\* writes by id and a code may expire or be invalidated between read and write.
NoReuse == [][\A c \in Clients : Takes(c) => call'[c].code \notin accepted]_codesVars

\* A code is never taken once MaxAttempts guesses were refused while it was
\* active: every refusal counts on the rows of the phone, whatever was guessed.
GuessBudget == [][\A c \in Clients : Takes(c) => wrong[call'[c].code] < MaxAttempts]_codesVars

\* Taking a code is guarded both ways, though it is read and marked in two steps.
CodesGuarded == NoReuse /\ GuessBudget

\* The limiter reads the counter before the message and counts after it.  What
\* this costs is one message for each other call under way, and one for each
\* command that Redis failed.
SendBudget == sent < MaxPerHour + Cardinality(Clients) + failures

\* The counter gets its TTL in a second command: only a failure of Redis leaves
\* a counter that never expires, which would lock the phone out for good.
CounterExpires ==
  counter.count > 0 /\ ~counter.expires =>
    failures > 0 \/ \E c \in Clients : At(c, "expire")

\* What limits the messages to a phone: the budget of an hour, and that it ends.
SendLimited == SendBudget /\ CounterExpires
=============================================================================
