----------------------------- MODULE Onboarding -----------------------------
(***************************************************************************)
(* Phase 1 of membership (server/src/modules/onboarding/application) and   *)
(* the one-time codes it uses (server/src/modules/auth/otp.ts).            *)
(*                                                                         *)
(* An applicant registers, proves the mobile number and then the address   *)
(* with a code each, which submits the application; staff, the rule for    *)
(* non-German speakers or the daily rule for German speakers decide it.    *)
(* A handler is a process: a transaction is one action, and what it read   *)
(* before is in its locals.  A transaction whose SMS fails rolls back and  *)
(* is no step (Crash, where the handler had read something before it).     *)
(***************************************************************************)
EXTENDS Integers, FiniteSets

CONSTANTS
    Members, Emails, Mobiles,
    Requests,   \* handlers that may run together
    MaxTries,   \* OTP_MAX_ATTEMPTS
    MaxCodes,   \* bound: codes ever issued
    MaxCrashes  \* bound: handlers cut off and job runs that fail

ASSUME OnboardingAssumption ==
    /\ "none" \notin Members \cup Emails \cup Mobiles
    /\ Emails \cap Mobiles = {}
    /\ MaxTries \in Nat \ {0}
    /\ MaxCodes \in Nat
    /\ MaxCrashes \in Nat

VARIABLES
    email, mobile, language,       \* of members; "none" before they register
    verified, confirmed,           \* mobile_verified_at, email_confirmed_at are set
    state, submitted, automatic,   \* membership_applications
    told,                          \* templates of the mails queued
    code, holder, purpose, sentTo, tries,  \* otp_challenges
    issued,                        \* how many codes there are
    pc, who, chal, addr, mail, lang,       \* locals of a handler
    due,                           \* rows a run of the job has left
    crashes,
    proof, texted, \* history: where the codes that confirmed and verified were sent
    outrun         \* history: contacts changed while the old one was still at work

contact == <<email, mobile, language>>
application == <<state, submitted, automatic, told>>
codes == <<code, holder, purpose, sentTo, tries, issued>>
locals == <<pc, who, chal, addr, mail, lang>>
history == <<proof, texted, outrun>>
vars == <<contact, verified, confirmed, application, codes, locals, due, crashes, history>>

Codes == 1..MaxCodes
Languages == {"german", "non_german"}
Verdicts == {"approved", "denied"}
Usable == {"open", "lapsed"}     \* consumed_at IS NULL; a lapsed one is past expires_at
Applicants == {m \in Members : email[m] # "none"}

Init ==
    /\ email = [m \in Members |-> "none"]
    /\ mobile = [m \in Members |-> "none"]
    /\ language = [m \in Members |-> "none"]
    /\ verified = [m \in Members |-> FALSE]
    /\ confirmed = [m \in Members |-> FALSE]
    /\ state = [m \in Members |-> "pending"]
    /\ submitted = [m \in Members |-> "no"]
    /\ automatic = [m \in Members |-> FALSE]
    /\ told = [m \in Members |-> {}]
    /\ code = [c \in Codes |-> "none"]
    /\ holder = [c \in Codes |-> "none"]
    /\ purpose = [c \in Codes |-> "none"]
    /\ sentTo = [c \in Codes |-> "none"]
    /\ tries = [c \in Codes |-> 0]
    /\ issued = 0
    /\ pc = [r \in Requests |-> "idle"]
    /\ who = [r \in Requests |-> "none"]
    /\ chal = [r \in Requests |-> 0]
    /\ addr = [r \in Requests |-> "none"]
    /\ mail = [r \in Requests |-> "none"]
    /\ lang = [r \in Requests |-> "none"]
    /\ due = {}
    /\ crashes = 0
    /\ proof = [m \in Members |-> "none"]
    /\ texted = [m \in Members |-> "none"]
    /\ outrun = {}

-----------------------------------------------------------------------------
(* Handlers and codes. *)

Goto(r, step) == pc' = [pc EXCEPT ![r] = step]

Done(r) ==
    /\ Goto(r, "idle")
    /\ who' = [who EXCEPT ![r] = "none"]
    /\ chal' = [chal EXCEPT ![r] = 0]
    /\ addr' = [addr EXCEPT ![r] = "none"]
    /\ mail' = [mail EXCEPT ![r] = "none"]
    /\ lang' = [lang EXCEPT ![r] = "none"]

\* Bound: a handler that will issue a code starts only while one is left for it.
Issuing == {"insert", "resume", "send", "mail", "resend"}
Spare == Cardinality({r \in Requests : pc[r] \in Issuing}) < MaxCodes - issued

\* issueChallenge.  The code goes to address a.
NewCode == issued + 1
Issue(m, use, a) ==
    /\ issued < MaxCodes
    /\ issued' = NewCode
    /\ holder' = [holder EXCEPT ![NewCode] = m]
    /\ purpose' = [purpose EXCEPT ![NewCode] = use]
    /\ sentTo' = [sentTo EXCEPT ![NewCode] = a]
    /\ UNCHANGED tries
Opened == [code EXCEPT ![NewCode] = "open"]

\* verifyChallenge holds its row FOR UPDATE.
Checking == {"checkMobile", "checkEmail"}
Locked(c) == \E r \in Requests : pc[r] \in Checking /\ chal[r] = c

EmailFree(m, e) == \A n \in Members \ {m} : email[n] # e
MobileFree(m, p) == \A n \in Members \ {m} : mobile[n] # p

\* A handler will mail a code to the old address, or has redeemed one from there.
EmailAtWork(m) == \E q \in Requests : pc[q] \in {"mail", "confirm"} /\ who[q] = m

\* The same of the old number; or it is verified, or another code sent there is out.
MobileAtWork(m, except) ==
    \/ verified[m]
    \/ \E q \in Requests : pc[q] = "mark" /\ who[q] = m
    \/ \E q \in Requests : pc[q] = "resend" /\ holder[chal[q]] = m
    \/ \E d \in Codes \ except :
           code[d] \in Usable /\ purpose[d] = "mobile" /\ holder[d] = m

Outrun(m, contactKind, late) ==
    /\ outrun' = IF late THEN outrun \cup {<<m, contactKind>>} ELSE outrun
    /\ UNCHANGED <<proof, texted>>

-----------------------------------------------------------------------------
(* register: two reads, then a transaction that the unique indexes guard. *)

\* Bound: every address being registered finds a member id.
Room(e) ==
    Cardinality({e} \cup {mail[r] : r \in {q \in Requests : pc[q] = "insert"}})
        <= Cardinality(Members \ Applicants)

StartRegister(r, e, p, l) ==
    /\ pc[r] = "idle" /\ Spare /\ Room(e)
    /\ \A m \in Members : email[m] # e /\ mobile[m] # p
    /\ Goto(r, "insert")
    /\ mail' = [mail EXCEPT ![r] = e]
    /\ addr' = [addr EXCEPT ![r] = p]
    /\ lang' = [lang EXCEPT ![r] = l]
    /\ UNCHANGED <<contact, verified, confirmed, application, codes, who, chal, due,
                   crashes, history>>

Insert(r) ==
    /\ pc[r] = "insert"
    /\ \A m \in Members : email[m] # mail[r] /\ mobile[m] # addr[r]
    /\ \E m \in Members \ Applicants :
        /\ email' = [email EXCEPT ![m] = mail[r]]
        /\ mobile' = [mobile EXCEPT ![m] = addr[r]]
        /\ language' = [language EXCEPT ![m] = lang[r]]
        /\ Issue(m, "mobile", addr[r])
    /\ code' = Opened
    /\ Done(r)
    /\ UNCHANGED <<verified, confirmed, application, due, crashes, history>>

InsertConflict(r) ==
    /\ pc[r] = "insert"
    /\ \E m \in Members : email[m] = mail[r] \/ mobile[m] = addr[r]
    /\ Done(r)
    /\ UNCHANGED <<contact, verified, confirmed, application, codes, due, crashes, history>>

\* The password is right: the application stalled before its code was entered.
StartResume(r, m, p, l) ==
    /\ pc[r] = "idle" /\ Spare
    /\ m \in Applicants /\ state[m] = "pending" /\ ~verified[m]
    /\ MobileFree(m, p)
    /\ Goto(r, "resume")
    /\ who' = [who EXCEPT ![r] = m]
    /\ addr' = [addr EXCEPT ![r] = p]
    /\ lang' = [lang EXCEPT ![r] = l]
    /\ UNCHANGED <<contact, verified, confirmed, application, codes, chal, mail, due,
                   crashes, history>>

\* Mutant: a new number has to be proved again.
ResumeUnverifying(r) ==
    /\ pc[r] = "resume" /\ MobileFree(who[r], addr[r])
    /\ mobile' = [mobile EXCEPT ![who[r]] = addr[r]]
    /\ verified' = [verified EXCEPT ![who[r]] = FALSE]
    /\ language' = [language EXCEPT ![who[r]] = lang[r]]
    /\ Issue(who[r], "mobile", addr[r])
    /\ code' = Opened
    /\ Outrun(who[r], "mobile", addr[r] # mobile[who[r]] /\ MobileAtWork(who[r], {}))
    /\ Done(r)
    /\ UNCHANGED <<email, confirmed, application, due, crashes>>

\* writeDetails and the new code; what was read is not read again.
Resume(r) ==
    /\ pc[r] = "resume" /\ MobileFree(who[r], addr[r])
    /\ mobile' = [mobile EXCEPT ![who[r]] = addr[r]]
    /\ language' = [language EXCEPT ![who[r]] = lang[r]]
    /\ Issue(who[r], "mobile", addr[r])
    /\ code' = Opened
    /\ Outrun(who[r], "mobile", addr[r] # mobile[who[r]] /\ MobileAtWork(who[r], {}))
    /\ Done(r)
    /\ UNCHANGED <<email, verified, confirmed, application, due, crashes>>

ResumeConflict(r) ==
    /\ pc[r] = "resume" /\ ~MobileFree(who[r], addr[r])
    /\ Done(r)
    /\ UNCHANGED <<contact, verified, confirmed, application, codes, due, crashes, history>>

-----------------------------------------------------------------------------
(* Before the number is verified: changeContact; and resendOtp. *)

\* Mutant: also after the number was verified.
ContactOpen(c) ==
    /\ code[c] \in Usable /\ purpose[c] = "mobile" /\ ~Locked(c)
    /\ state[holder[c]] = "pending"

ContactEditable(c) ==
    /\ code[c] \in Usable /\ purpose[c] = "mobile" /\ ~Locked(c)
    /\ ~verified[holder[c]] /\ state[holder[c]] = "pending"

ChangeContact(c, e, p) ==
    LET m == holder[c] IN
    /\ ContactEditable(c) /\ Spare
    /\ EmailFree(m, e) /\ MobileFree(m, p)
    /\ email' = [email EXCEPT ![m] = e]
    /\ mobile' = [mobile EXCEPT ![m] = p]
    /\ Issue(m, "mobile", p)
    /\ code' = [Opened EXCEPT ![c] = "spent"]
    /\ Outrun(m, "mobile", p # mobile[m] /\ MobileAtWork(m, {c}))
    /\ UNCHANGED <<language, verified, confirmed, application, locals, due, crashes>>

StartResend(r, c) ==
    /\ pc[r] = "idle" /\ Spare
    /\ code[c] \in Usable
    /\ Goto(r, "resend")
    /\ chal' = [chal EXCEPT ![r] = c]
    /\ addr' = [addr EXCEPT ![r] = mobile[holder[c]]]
    /\ UNCHANGED <<contact, verified, confirmed, application, codes, who, mail, lang, due,
                   crashes, history>>

\* A resent code has four digits.  The address's endpoint takes six, so a resent
\* code of that purpose is redeemed nowhere.
Resent(c) == IF purpose[c] = "mobile" THEN "mobile" ELSE "nothing"

Resend(r) ==
    /\ pc[r] = "resend"
    /\ Issue(holder[chal[r]], Resent(chal[r]), addr[r])
    /\ code' = Opened
    /\ Done(r)
    /\ UNCHANGED <<contact, verified, confirmed, application, due, crashes, history>>

-----------------------------------------------------------------------------
(* verifyChallenge: the row is locked, then the code is right or wrong.     *)
(* "Wrong" is also another device, or the endpoint of another purpose.      *)

PresentCode(r, c, step, m) ==
    /\ pc[r] = "idle"
    /\ code[c] = "open" /\ ~Locked(c)
    /\ Goto(r, step)
    /\ who' = [who EXCEPT ![r] = m]
    /\ chal' = [chal EXCEPT ![r] = c]
    /\ UNCHANGED <<contact, verified, confirmed, application, codes, addr, mail, lang, due,
                   crashes, history>>

\* Mutant: the ceiling is never reached.
Uncapped(c) == code[c]

AfterMiss(c) == IF tries[c] + 1 >= MaxTries THEN "spent" ELSE code[c]

WrongCode(r) ==
    LET c == chal[r] IN
    /\ pc[r] \in Checking
    /\ tries' = [tries EXCEPT ![c] = @ + 1]
    /\ code' = [code EXCEPT ![c] = AfterMiss(c)]
    /\ Done(r)
    /\ UNCHANGED <<contact, verified, confirmed, application, holder, purpose, sentTo,
                   issued, due, crashes, history>>

RightMobileCode(r) ==
    LET c == chal[r] IN
    /\ pc[r] = "checkMobile" /\ purpose[c] = "mobile"
    /\ code' = [code EXCEPT ![c] = "spent"]
    /\ who' = [who EXCEPT ![r] = holder[c]]
    /\ Goto(r, "mark")
    /\ UNCHANGED <<contact, verified, confirmed, application, holder, purpose, sentTo, tries,
                   issued, chal, addr, mail, lang, due, crashes, history>>

\* The session's member must be the one the code was for.
RightEmailCode(r) ==
    LET c == chal[r] IN
    /\ pc[r] = "checkEmail" /\ purpose[c] = "email"
    /\ code' = [code EXCEPT ![c] = "spent"]
    /\ IF holder[c] = who[r]
       THEN Goto(r, "confirm") /\ UNCHANGED <<who, chal, addr, mail, lang>>
       ELSE Done(r)
    /\ UNCHANGED <<contact, verified, confirmed, application, holder, purpose, sentTo, tries,
                   issued, due, crashes, history>>

VerifyMobile(r, c) == PresentCode(r, c, "checkMobile", "none")

MarkMobile(r) ==
    /\ pc[r] = "mark"
    /\ verified' = [verified EXCEPT ![who[r]] = TRUE]
    /\ texted' = [texted EXCEPT ![who[r]] = IF verified[who[r]] THEN @ ELSE sentTo[chal[r]]]
    /\ Done(r)
    /\ UNCHANGED <<contact, confirmed, application, codes, due, crashes, proof, outrun>>

-----------------------------------------------------------------------------
(* Decisions. *)

\* Mutant: WHERE member_id = $1 AND submitted_at IS NOT NULL.
DecidableAgain(m) == submitted[m] # "no"

Decidable(m) == state[m] = "pending" /\ submitted[m] # "no"

ApplyDecision(m, verdict, byRule) ==
    /\ state' = [state EXCEPT ![m] = verdict]
    /\ automatic' = [automatic EXCEPT ![m] = byRule]
    /\ told' = [told EXCEPT ![m] = @ \cup {verdict}]

Decide(m, verdict) ==
    /\ Decidable(m)
    /\ ApplyDecision(m, verdict, FALSE)
    /\ UNCHANGED <<contact, verified, confirmed, submitted, codes, locals, due, crashes, history>>

-----------------------------------------------------------------------------
(* The address.  A handler that needs a session has one: the number is verified. *)

VerifyEmail(r, c, m) == verified[m] /\ PresentCode(r, c, "checkEmail", m)

\* The second transaction of verifyEmail.
ConfirmEmail(r) ==
    LET m == who[r] IN
    /\ pc[r] = "confirm"
    /\ confirmed' = [confirmed EXCEPT ![m] = TRUE]
    /\ proof' = [proof EXCEPT ![m] = IF confirmed[m] THEN @ ELSE sentTo[chal[r]]]
    /\ IF submitted[m] # "no"
       THEN UNCHANGED application
       ELSE /\ submitted' = [submitted EXCEPT ![m] = "recent"]
            /\ IF language[m] = "non_german"
               THEN ApplyDecision(m, "denied", TRUE)
               ELSE /\ told' = [told EXCEPT ![m] = @ \cup {"thank-you"}]
                    /\ UNCHANGED <<state, automatic>>
    /\ Done(r)
    /\ UNCHANGED <<contact, verified, codes, due, crashes, texted, outrun>>

\* Mutant: the codes sent to the old address keep working.
OldCodesLeft(r, m, e) ==
    /\ pc[r] = "idle" /\ Spare
    /\ verified[m] /\ ~confirmed[m] /\ EmailFree(m, e)
    /\ email' = [email EXCEPT ![m] = e]
    /\ Goto(r, "send")
    /\ who' = [who EXCEPT ![r] = m]
    /\ Outrun(m, "email", e # email[m] /\ EmailAtWork(m))
    /\ UNCHANGED <<mobile, language, verified, confirmed, application, codes, chal, addr,
                   mail, lang, due, crashes>>

ChangeEmail(r, m, e) ==
    LET old == {c \in Codes : code[c] \in Usable /\ holder[c] = m /\ purpose[c] # "mobile"} IN
    /\ pc[r] = "idle" /\ Spare
    /\ verified[m] /\ ~confirmed[m] /\ EmailFree(m, e)
    /\ \A c \in old : ~Locked(c)
    /\ email' = [email EXCEPT ![m] = e]
    /\ code' = [c \in Codes |-> IF c \in old THEN "spent" ELSE code[c]]
    /\ Goto(r, "send")
    /\ who' = [who EXCEPT ![r] = m]
    /\ Outrun(m, "email", e # email[m] /\ EmailAtWork(m))
    /\ UNCHANGED <<mobile, language, verified, confirmed, application, holder, purpose,
                   sentTo, tries, issued, chal, addr, mail, lang, due, crashes>>

\* sendEmailCode: it reads the address, then issues and mails the code.
StartSend(r, m) ==
    /\ pc[r] = "idle" /\ Spare
    /\ verified[m] /\ ~confirmed[m]
    /\ Goto(r, "mail")
    /\ who' = [who EXCEPT ![r] = m]
    /\ addr' = [addr EXCEPT ![r] = email[m]]
    /\ UNCHANGED <<contact, verified, confirmed, application, codes, chal, mail, lang, due,
                   crashes, history>>

\* The same after changeEmail.
ReadAddress(r) ==
    /\ pc[r] = "send"
    /\ IF confirmed[who[r]]
       THEN Done(r)
       ELSE /\ addr' = [addr EXCEPT ![r] = email[who[r]]]
            /\ Goto(r, "mail")
            /\ UNCHANGED <<who, chal, mail, lang>>
    /\ UNCHANGED <<contact, verified, confirmed, application, codes, due, crashes, history>>

MailCode(r) ==
    /\ pc[r] = "mail"
    /\ Issue(who[r], "email", addr[r])
    /\ code' = Opened
    /\ Done(r)
    /\ UNCHANGED <<contact, verified, confirmed, application, due, crashes, history>>

-----------------------------------------------------------------------------
(* The job that approves what is still pending after a day. *)

\* Mutant: the comparison with now() - 24 hours is turned round.
DueEarly ==
    {m \in Members : state[m] = "pending" /\ submitted[m] = "recent" /\ language[m] = "german"}

Due == {m \in Members : state[m] = "pending" /\ submitted[m] = "day" /\ language[m] = "german"}

StartAutoApprove ==
    /\ due = {} /\ Due # {}
    /\ due' = Due
    /\ UNCHANGED <<contact, verified, confirmed, application, codes, locals, crashes, history>>

AutoApprove ==
    /\ \E m \in due :
        /\ due' = due \ {m}
        /\ IF Decidable(m)
           THEN ApplyDecision(m, "approved", TRUE)
           ELSE UNCHANGED <<state, automatic, told>>
    /\ UNCHANGED <<contact, verified, confirmed, submitted, codes, locals, crashes, history>>

JobFails ==
    /\ due # {} /\ crashes < MaxCrashes
    /\ due' = {}
    /\ crashes' = crashes + 1
    /\ UNCHANGED <<contact, verified, confirmed, application, codes, locals, history>>

-----------------------------------------------------------------------------
(* Time and failures. *)

Lapse(c) ==
    /\ code[c] = "open"
    /\ code' = [code EXCEPT ![c] = "lapsed"]
    /\ UNCHANGED <<contact, verified, confirmed, application, holder, purpose, sentTo, tries,
                   issued, locals, due, crashes, history>>

\* otp.cleanup.  A deleted code answers like a spent one.
Cleanup ==
    LET old == {c \in Codes : code[c] = "lapsed" /\ ~Locked(c)} IN
    /\ old # {}
    /\ code' = [c \in Codes |-> IF c \in old THEN "spent" ELSE code[c]]
    /\ UNCHANGED <<contact, verified, confirmed, application, holder, purpose, sentTo, tries,
                   issued, locals, due, crashes, history>>

\* A day after it was submitted: no handler lives that long.
TimePasses(m) ==
    /\ submitted[m] = "recent"
    /\ \A r \in Requests : pc[r] = "idle"
    /\ submitted' = [submitted EXCEPT ![m] = "day"]
    /\ UNCHANGED <<contact, verified, confirmed, state, automatic, told, codes, locals, due,
                   crashes, history>>

\* The deadline, an SMS or a mail that fails, a lost connection, the end of the process.
Crash(r) ==
    /\ pc[r] # "idle" /\ crashes < MaxCrashes
    /\ crashes' = crashes + 1
    /\ Done(r)
    /\ UNCHANGED <<contact, verified, confirmed, application, codes, due, history>>

-----------------------------------------------------------------------------
Continue(r) ==
    \/ Insert(r) \/ InsertConflict(r) \/ Resume(r) \/ ResumeConflict(r) \/ Resend(r)
    \/ WrongCode(r) \/ RightMobileCode(r) \/ RightEmailCode(r)
    \/ MarkMobile(r) \/ ConfirmEmail(r) \/ ReadAddress(r) \/ MailCode(r)

Start(r) ==
    \/ \E e \in Emails, p \in Mobiles, l \in Languages : StartRegister(r, e, p, l)
    \/ \E m \in Members, p \in Mobiles, l \in Languages : StartResume(r, m, p, l)
    \/ \E c \in Codes : StartResend(r, c) \/ VerifyMobile(r, c)
    \/ \E c \in Codes, m \in Members : VerifyEmail(r, c, m)
    \/ \E m \in Members : StartSend(r, m)
    \/ \E m \in Members, e \in Emails : ChangeEmail(r, m, e)

Review ==
    \/ \E m \in Members, v \in Verdicts : Decide(m, v)
    \/ StartAutoApprove \/ AutoApprove \/ JobFails

Outside ==
    \/ \E c \in Codes, e \in Emails, p \in Mobiles : ChangeContact(c, e, p)
    \/ \E c \in Codes : Lapse(c)
    \/ Cleanup
    \/ \E m \in Members : TimePasses(m)

Next ==
    \/ \E r \in Requests : Start(r) \/ Continue(r) \/ Crash(r)
    \/ Review \/ Outside

Spec == Init /\ [][Next]_vars

\* Handlers go on, the job runs every quarter of an hour, days pass.
Fairness ==
    /\ \A r \in Requests : WF_vars(Continue(r))
    /\ WF_vars(StartAutoApprove) /\ WF_vars(AutoApprove)
    /\ \A m \in Members : WF_vars(TimePasses(m))

FairSpec == Spec /\ Fairness

-----------------------------------------------------------------------------
(* Properties. *)

Steps == Issuing \cup Checking \cup {"idle", "mark", "confirm"}

\* What the columns and the locals may hold; a code with its tries used up is spent.
TypeOK ==
    /\ email \in [Members -> Emails \cup {"none"}]
    /\ mobile \in [Members -> Mobiles \cup {"none"}]
    /\ language \in [Members -> Languages \cup {"none"}]
    /\ verified \in [Members -> BOOLEAN] /\ confirmed \in [Members -> BOOLEAN]
    /\ state \in [Members -> Verdicts \cup {"pending"}]
    /\ submitted \in [Members -> {"no", "recent", "day"}]
    /\ automatic \in [Members -> BOOLEAN]
    /\ told \in [Members -> SUBSET (Verdicts \cup {"thank-you"})]
    /\ code \in [Codes -> Usable \cup {"none", "spent"}]
    /\ holder \in [Codes -> Members \cup {"none"}]
    /\ purpose \in [Codes -> {"none", "mobile", "email", "nothing"}]
    /\ sentTo \in [Codes -> Emails \cup Mobiles \cup {"none"}]
    /\ tries \in [Codes -> 0..MaxTries]
    /\ issued \in 0..MaxCodes
    /\ pc \in [Requests -> Steps]
    /\ who \in [Requests -> Members \cup {"none"}]
    /\ chal \in [Requests -> 0..MaxCodes]
    /\ addr \in [Requests -> Emails \cup Mobiles \cup {"none"}]
    /\ mail \in [Requests -> Emails \cup {"none"}]
    /\ lang \in [Requests -> Languages \cup {"none"}]
    /\ due \subseteq Members
    /\ crashes \in 0..MaxCrashes
    /\ proof \in [Members -> Emails \cup Mobiles \cup {"none"}]
    /\ texted \in [Members -> Emails \cup Mobiles \cup {"none"}]
    /\ outrun \subseteq Members \X {"email", "mobile"}

\* One address and one number, one member, when registrations, resumed ones and
\* corrections race for them (members_email_key, members_mobile_unique).
OneHolder == \A m \in Applicants : EmailFree(m, email[m]) /\ MobileFree(m, mobile[m])

\* A code is redeemed once, and not after its last try (verifyChallenge), even
\* when it is presented twice at once.
CodeSpentOnce ==
    /\ \A c \in Codes : tries[c] = MaxTries => code[c] = "spent"
    /\ \A r, q \in Requests :
        /\ pc[r] \in {"mark", "confirm"}
        /\ q # r /\ chal[q] = chal[r]
        => pc[q] \notin {"mark", "confirm"} \cup Checking

\* The address is confirmed and the application submitted together (verifyEmail),
\* and never before the number was verified: nobody waits for a queue he is not in.
CompleteTogether ==
    \A m \in Members :
        /\ confirmed[m] <=> submitted[m] # "no"
        /\ state[m] # "pending" => confirmed[m]
        /\ confirmed[m] => verified[m]

\* An address is only confirmed by a code that was mailed: never by one that came
\* by SMS (resendOtp resends codes of every purpose to the phone).
ConfirmedByMail == \A m \in Members : confirmed[m] => proof[m] \in Emails

\* "Codes already sent to the old address stop working" (changeEmail), and the old
\* code of a corrected number is spent (changeContact): the code behind a confirmed
\* address, or a verified number, went to the contact the member now has.  Not if it
\* was changed while a handler held the old one; nor a number changed when another
\* code was out or, by a resumed registration, when it was already verified.
ProvenUnlessOutrun ==
    \A m \in Members :
        /\ confirmed[m] /\ <<m, "email">> \notin outrun => proof[m] = email[m]
        /\ verified[m] /\ <<m, "mobile">> \notin outrun => texted[m] = mobile[m]

\* An address or a number is held by one member, who redeemed a code once to prove
\* it; an address by a mailed code; and, unless outrun, a code sent to that contact.
ContactsProven == OneHolder /\ CodeSpentOnce /\ ConfirmedByMail /\ ProvenUnlessOutrun

\* "a confirmed address is changed through the member's profile, not onboarding"
\* (changeEmail, changeContact).
ConfirmedAddressFixed ==
    [][\A m \in Members : confirmed[m] => email'[m] = email[m]]_vars

\* The job approves German speakers a day after they applied (autoApproveDue), though
\* it does not look again at the rows it read.
AutoApprovalRule ==
    [][\A m \in Members :
        automatic'[m] /\ ~automatic[m] /\ state'[m] = "approved"
            => submitted[m] = "day" /\ language[m] = "german"]_vars

\* Staff, a second click, the rule for non-German speakers and the job decide an
\* application once, and its mail says what was decided (applyDecision).
Stage ==
    [m \in Members |->
        IF email[m] = "none" THEN "none"
        ELSE IF state[m] # "pending" THEN state[m]
        ELSE IF submitted[m] # "no" THEN "waiting" ELSE "open"]

Promise == INSTANCE MembershipDecision WITH stage <- Stage, mailed <- told

DecidesOnce == Promise!Spec

\* An application is decided once, when complete, and by the job only when the rule
\* says so, however stale what the job read has become.
DecidedByTheRules == DecidesOnce /\ AutoApprovalRule

\* A submitted German application is decided (the thank-you mail promises 48 hours).
EventuallyDecided ==
    \A m \in Members :
        submitted[m] # "no" /\ language[m] = "german"
            ~> state[m] # "pending" \/ language[m] # "german"

\* In no run, and refuted by ChangeEmail between RightEmailCode and ConfirmEmail:
\* "A code mailed to the mistyped address must not confirm the new one."
OldCodesStop ==
    \A m \in Members : confirmed[m] /\ proof[m] \in Emails => proof[m] = email[m]

\* In no run, and refuted by a second code of a number that is then changed, and by
\* a Resume that read before the number was verified: the verified number is the one
\* that was texted.
OldNumbersStop == \A m \in Members : verified[m] => texted[m] = mobile[m]
=============================================================================
