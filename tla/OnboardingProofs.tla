-------------------------- MODULE OnboardingProofs --------------------------
(***************************************************************************)
(* Proofs about Onboarding, for any number of members, addresses, numbers, *)
(* handlers, codes and tries.                                              *)
(***************************************************************************)
EXTENDS Onboarding, TLAPS

\* Codes are numbered from 1; a code that may still be used has a try left.
CodesKnown == \A c \in Codes :
    /\ c <= issued <=> code[c] # "none"
    /\ code[c] = "none" => tries[c] = 0 /\ purpose[c] = "none"
    /\ code[c] # "none" => holder[c] \in Applicants /\ purpose[c] # "none"
    /\ purpose[c] = "email" => sentTo[c] \in Emails
    /\ code[c] \in Usable => tries[c] < MaxTries
    /\ tries[c] = MaxTries => code[c] = "spent"

\* What a handler may rely on at each step.
KnownAt(r) ==
    /\ pc[r] \in {"insert", "resume"} => addr[r] \in Mobiles /\ lang[r] \in Languages
    /\ pc[r] = "insert" => mail[r] \in Emails
    /\ pc[r] = "resend" => addr[r] \in Mobiles
    /\ pc[r] = "mail" => addr[r] \in Emails
    /\ pc[r] \in {"resume", "mark"} => who[r] \in Applicants
    /\ pc[r] \in {"send", "mail", "checkEmail", "confirm"} => who[r] \in Members /\ verified[who[r]]
    /\ pc[r] \in Checking \cup {"mark", "confirm", "resend"} =>
          chal[r] \in Codes /\ code[chal[r]] # "none"
    /\ pc[r] \in Checking => code[chal[r]] \in Usable
    /\ pc[r] \in {"mark", "confirm"} => code[chal[r]] = "spent"
    /\ pc[r] = "confirm" => purpose[chal[r]] = "email"
Known == \A r \in Requests : KnownAt(r)

\* A code is in one handler's hands: it locks the row, or it has spent the code.
Spending == Checking \cup {"mark", "confirm"}
OneSpends == \A r, q \in Requests :
    pc[r] \in Spending /\ pc[q] \in Spending /\ chal[r] = chal[q] => r = q

\* An application is made by somebody who registered.
Registered == \A m \in Members :
    /\ m \in Applicants => mobile[m] \in Mobiles /\ language[m] \in Languages
    /\ m \notin Applicants =>
          /\ mobile[m] = "none" /\ ~verified[m] /\ ~confirmed[m]
          /\ state[m] = "pending" /\ submitted[m] = "no"

\* Nobody resumes an application that is a day old, so the job may trust its rows.
Settled ==
    /\ \A r \in Requests : pc[r] = "resume" => submitted[who[r]] # "day"
    /\ \A m \in due : submitted[m] = "day" /\ language[m] = "german"

\* Where the codes of a member went that are still out, that a handler is about to
\* send or has redeemed, or that proved what he has: to the address he has ...
EmailKept(m) ==
    /\ \A c \in Codes :
          code[c] \in Usable /\ purpose[c] = "email" /\ holder[c] = m => sentTo[c] = email[m]
    /\ \A r \in Requests :
          /\ pc[r] = "mail" /\ who[r] = m => addr[r] = email[m]
          /\ pc[r] = "confirm" /\ who[r] = m => sentTo[chal[r]] = email[m]
    /\ confirmed[m] => proof[m] = email[m]

\* ... and to the number he has.
MobileKept(m) ==
    /\ \A c \in Codes :
          code[c] \in Usable /\ purpose[c] = "mobile" /\ holder[c] = m => sentTo[c] = mobile[m]
    /\ \A r \in Requests :
          /\ pc[r] = "resend" /\ holder[chal[r]] = m => addr[r] = mobile[m]
          /\ pc[r] = "mark" /\ who[r] = m => sentTo[chal[r]] = mobile[m]
    /\ verified[m] => texted[m] = mobile[m]

\* A code for an address is mailed to nobody whose number is not verified.
AddressCodes == \A c \in Codes : purpose[c] = "email" => verified[holder[c]]
EmailsKept == \A m \in Members : <<m, "email">> \notin outrun => EmailKept(m)
MobilesKept == \A m \in Members : <<m, "mobile">> \notin outrun => MobileKept(m)
Kept == AddressCodes /\ EmailsKept /\ MobilesKept

People == Registered /\ CompleteTogether /\ ConfirmedByMail
IInv ==
    /\ TypeOK /\ CodesKnown /\ Known /\ OneSpends
    /\ People /\ OneHolder /\ Settled /\ Kept

\* A handler that ends with nothing written.
GivesUp(r) == InsertConflict(r) \/ ResumeConflict(r) \/ Crash(r)

\* A registration and the job's next row, with the member named.
Inserts(r, m) ==
    /\ pc[r] = "insert"
    /\ \A n \in Members : email[n] # mail[r] /\ mobile[n] # addr[r]
    /\ m \notin Applicants
    /\ email' = [email EXCEPT ![m] = mail[r]]
    /\ mobile' = [mobile EXCEPT ![m] = addr[r]]
    /\ language' = [language EXCEPT ![m] = lang[r]]
    /\ Issue(m, "mobile", addr[r])
    /\ code' = Opened
    /\ Done(r)
    /\ UNCHANGED <<verified, confirmed, application, due, crashes, history>>

Approves(m) ==
    /\ due' = due \ {m}
    /\ IF Decidable(m)
       THEN ApplyDecision(m, "approved", TRUE)
       ELSE UNCHANGED <<state, automatic, told>>
    /\ UNCHANGED <<contact, verified, confirmed, submitted, codes, locals, crashes, history>>

USE DEF Codes, Languages, Verdicts, Usable, Issuing, Checking, Steps, Goto, NewCode, Opened

-----------------------------------------------------------------------------
\* Every step is one of these.
LEMMA EveryStep ==
    ASSUME Next
    PROVE
        \/ \E r \in Requests, e \in Emails, p \in Mobiles, l \in Languages : StartRegister(r, e, p, l)
        \/ \E r \in Requests, m \in Members : Inserts(r, m)
        \/ \E r \in Requests : GivesUp(r)
        \/ \E r \in Requests, m \in Members, p \in Mobiles, l \in Languages : StartResume(r, m, p, l)
        \/ \E r \in Requests : Resume(r)
        \/ \E r \in Requests, c \in Codes : StartResend(r, c)
        \/ \E r \in Requests : Resend(r)
        \/ \E r \in Requests, c \in Codes : VerifyMobile(r, c)
        \/ \E r \in Requests, c \in Codes, m \in Members : VerifyEmail(r, c, m)
        \/ \E r \in Requests : WrongCode(r)
        \/ \E r \in Requests : RightMobileCode(r)
        \/ \E r \in Requests : RightEmailCode(r)
        \/ \E r \in Requests : MarkMobile(r)
        \/ \E r \in Requests : ConfirmEmail(r)
        \/ \E r \in Requests : ReadAddress(r)
        \/ \E r \in Requests : MailCode(r)
        \/ \E r \in Requests, m \in Members : StartSend(r, m)
        \/ \E r \in Requests, m \in Members, e \in Emails : ChangeEmail(r, m, e)
        \/ \E m \in Members, v \in Verdicts : Decide(m, v)
        \/ StartAutoApprove
        \/ \E m \in due : Approves(m)
        \/ JobFails
        \/ \E c \in Codes, e \in Emails, p \in Mobiles : ChangeContact(c, e, p)
        \/ \E c \in Codes : Lapse(c)
        \/ Cleanup
        \/ \E m \in Members : TimePasses(m)
BY Zenon DEF Next, Start, Continue, Review, Outside, Insert, Inserts, AutoApprove, Approves, GivesUp

\* The columns of an application, and those a decision writes.
AppTyped ==
    /\ state \in [Members -> Verdicts \cup {"pending"}]
    /\ submitted \in [Members -> {"no", "recent", "day"}]
    /\ automatic \in [Members -> BOOLEAN]
    /\ told \in [Members -> SUBSET (Verdicts \cup {"thank-you"})]

\* The locals of a handler that ends.
LocalsTyped ==
    /\ pc \in [Requests -> Steps]
    /\ who \in [Requests -> Members \cup {"none"}]
    /\ chal \in [Requests -> 0..MaxCodes]
    /\ addr \in [Requests -> Emails \cup Mobiles \cup {"none"}]
    /\ mail \in [Requests -> Emails \cup {"none"}]
    /\ lang \in [Requests -> Languages \cup {"none"}]

LEMMA DoneTyped ==
    ASSUME TypeOK, NEW r \in Requests, Done(r)
    PROVE  LocalsTyped'
BY OnboardingAssumption DEF TypeOK, Done, LocalsTyped

LEMMA DecisionTyped ==
    ASSUME TypeOK, NEW m, NEW v \in Verdicts, NEW b \in BOOLEAN, ApplyDecision(m, v, b)
    PROVE  /\ state' \in [Members -> Verdicts \cup {"pending"}]
           /\ automatic' \in [Members -> BOOLEAN]
           /\ told' \in [Members -> SUBSET (Verdicts \cup {"thank-you"})]
BY DEF TypeOK, ApplyDecision

LEMMA OutrunTyped ==
    ASSUME TypeOK, NEW m \in Members, NEW k \in {"email", "mobile"}, NEW late, Outrun(m, k, late)
    PROVE  outrun' \subseteq Members \X {"email", "mobile"} /\ UNCHANGED <<proof, texted>>
BY DEF TypeOK, Outrun

\* Every column and local keeps its type; tries stay below the ceiling.
LEMMA TypesPreserved == TypeOK /\ CodesKnown /\ Known /\ [Next]_vars => TypeOK'
<1> SUFFICES ASSUME TypeOK, CodesKnown, Known, [Next]_vars PROVE TypeOK'
  OBVIOUS
<1> USE OnboardingAssumption DEF contact, application, codes, locals, history
<1>1. CASE UNCHANGED vars
  BY <1>1 DEF vars, TypeOK
<1>2. ASSUME NEW r \in Requests, NEW e \in Emails, NEW p \in Mobiles, NEW l \in Languages, StartRegister(r, e, p, l) PROVE TypeOK'
  BY <1>2 DEF TypeOK, StartRegister
<1>3. ASSUME NEW r \in Requests, NEW m \in Members, Inserts(r, m) PROVE TypeOK'
  BY <1>3 DEF TypeOK, Inserts, Issue, Done, Known, KnownAt
<1>4. ASSUME NEW r \in Requests, GivesUp(r) PROVE TypeOK'
  <2>1. /\ Done(r) /\ crashes' \in 0..MaxCrashes
        /\ UNCHANGED <<contact, verified, confirmed, application, codes, due, history>>
    BY <1>4 DEF TypeOK, GivesUp, InsertConflict, ResumeConflict, Crash
  <2> QED
    BY <2>1 DEF TypeOK, Done
<1>5. ASSUME NEW r \in Requests, NEW m \in Members, NEW p \in Mobiles, NEW l \in Languages, StartResume(r, m, p, l) PROVE TypeOK'
  BY <1>5 DEF TypeOK, StartResume
<1>6. ASSUME NEW r \in Requests, Resume(r) PROVE TypeOK'
  <2>1. addr[r] \in Mobiles /\ lang[r] \in Languages /\ who[r] \in Members
    BY <1>6 DEF Resume, Known, KnownAt, Applicants
  <2>2. outrun' \subseteq Members \X {"email", "mobile"} /\ UNCHANGED <<proof, texted>>
    BY <1>6, <2>1, OutrunTyped DEF Resume
  <2> QED
    BY <1>6, <2>1, <2>2 DEF TypeOK, Resume, Issue, Done
<1>7. ASSUME NEW r \in Requests, NEW c \in Codes, StartResend(r, c) PROVE TypeOK'
  BY <1>7 DEF TypeOK, StartResend, CodesKnown, Applicants
<1>8. ASSUME NEW r \in Requests, Resend(r) PROVE TypeOK'
  BY <1>8 DEF TypeOK, Resend, Issue, Done, Resent, Known, KnownAt
<1>9. ASSUME NEW r \in Requests, NEW c \in Codes, VerifyMobile(r, c) PROVE TypeOK'
  BY <1>9 DEF TypeOK, VerifyMobile, PresentCode
<1>10. ASSUME NEW r \in Requests, NEW c \in Codes, NEW m \in Members, VerifyEmail(r, c, m) PROVE TypeOK'
  BY <1>10 DEF TypeOK, VerifyEmail, PresentCode
<1>11. ASSUME NEW r \in Requests, WrongCode(r) PROVE TypeOK'
  BY <1>11 DEF TypeOK, WrongCode, Done, AfterMiss, Known, KnownAt, CodesKnown
<1>12. ASSUME NEW r \in Requests, RightMobileCode(r) PROVE TypeOK'
  BY <1>12 DEF TypeOK, RightMobileCode, Known, KnownAt
<1>13. ASSUME NEW r \in Requests, RightEmailCode(r) PROVE TypeOK'
  <2>1. CASE holder[chal[r]] = who[r]
    <3>1. /\ Goto(r, "confirm") /\ code' = [code EXCEPT ![chal[r]] = "spent"]
          /\ UNCHANGED <<who, chal, addr, mail, lang>>
          /\ UNCHANGED <<contact, verified, confirmed, application, holder, purpose, sentTo,
                         tries, issued, due, crashes, history>>
      BY <1>13, <2>1 DEF RightEmailCode
    <3> QED
      BY <3>1 DEF TypeOK
  <2>2. CASE holder[chal[r]] # who[r]
    <3>1. /\ Done(r) /\ code' = [code EXCEPT ![chal[r]] = "spent"]
          /\ UNCHANGED <<contact, verified, confirmed, application, holder, purpose, sentTo,
                         tries, issued, due, crashes, history>>
      BY <1>13, <2>2 DEF RightEmailCode
    <3> QED
      BY <3>1, DoneTyped DEF TypeOK, LocalsTyped
  <2> QED
    BY <2>1, <2>2
<1>14. ASSUME NEW r \in Requests, MarkMobile(r) PROVE TypeOK'
  <2>1. verified' \in [Members -> BOOLEAN]
    BY <1>14 DEF TypeOK, MarkMobile
  <2>2. texted' \in [Members -> Emails \cup Mobiles \cup {"none"}]
    <3>1. sentTo[chal[r]] \in Emails \cup Mobiles \cup {"none"}
      BY <1>14 DEF TypeOK, MarkMobile, Known, KnownAt
    <3> QED
      BY <1>14, <3>1 DEF TypeOK, MarkMobile
  <2> QED
    BY <1>14, <2>1, <2>2 DEF TypeOK, MarkMobile, Done
<1>15. ASSUME NEW r \in Requests, ConfirmEmail(r) PROVE TypeOK'
  <2>1. chal[r] \in Codes
    BY <1>15 DEF ConfirmEmail, Known, KnownAt
  <2>2. proof' \in [Members -> Emails \cup Mobiles \cup {"none"}]
    BY <1>15, <2>1 DEF TypeOK, ConfirmEmail
  <2>3. confirmed' \in [Members -> BOOLEAN]
    BY <1>15 DEF TypeOK, ConfirmEmail
  <2>4. AppTyped'
    <3>1. CASE submitted[who[r]] # "no"
      <4>1. UNCHANGED application
        BY <1>15, <3>1 DEF ConfirmEmail
      <4> QED
        BY <4>1 DEF TypeOK, AppTyped
    <3>2. CASE submitted[who[r]] = "no" /\ language[who[r]] = "non_german"
      <4>1. /\ submitted' = [submitted EXCEPT ![who[r]] = "recent"]
            /\ ApplyDecision(who[r], "denied", TRUE)
        BY <1>15, <3>2 DEF ConfirmEmail
      <4> QED
        BY <4>1, DecisionTyped DEF TypeOK, AppTyped
    <3>3. CASE submitted[who[r]] = "no" /\ language[who[r]] # "non_german"
      <4>1. /\ submitted' = [submitted EXCEPT ![who[r]] = "recent"]
            /\ told' = [told EXCEPT ![who[r]] = @ \cup {"thank-you"}]
            /\ UNCHANGED <<state, automatic>>
        BY <1>15, <3>3 DEF ConfirmEmail
      <4> QED
        BY <4>1 DEF TypeOK, AppTyped
    <3> QED
      BY <3>1, <3>2, <3>3
  <2>7. Done(r) /\ UNCHANGED <<contact, verified, codes, due, crashes, texted, outrun>>
    BY <1>15 DEF ConfirmEmail
  <2> QED
    BY <2>2, <2>3, <2>4, <2>7 DEF TypeOK, AppTyped, Done
<1>16. ASSUME NEW r \in Requests, ReadAddress(r) PROVE TypeOK'
  <2>1. CASE confirmed[who[r]]
    <3>1. Done(r) /\ UNCHANGED <<contact, verified, confirmed, application, codes, due, crashes, history>>
      BY <1>16, <2>1 DEF ReadAddress
    <3> QED
      BY <3>1 DEF TypeOK, Done
  <2>2. CASE ~confirmed[who[r]]
    <3>1. email[who[r]] \in Emails \cup {"none"}
      BY <1>16 DEF TypeOK, ReadAddress, Known, KnownAt
    <3>2. /\ addr' = [addr EXCEPT ![r] = email[who[r]]] /\ Goto(r, "mail")
          /\ UNCHANGED <<who, chal, mail, lang>>
          /\ UNCHANGED <<contact, verified, confirmed, application, codes, due, crashes, history>>
      BY <1>16, <2>2 DEF ReadAddress
    <3> QED
      BY <3>1, <3>2 DEF TypeOK
  <2> QED
    BY <2>1, <2>2
<1>17. ASSUME NEW r \in Requests, MailCode(r) PROVE TypeOK'
  BY <1>17 DEF TypeOK, MailCode, Issue, Done
<1>18. ASSUME NEW r \in Requests, NEW m \in Members, StartSend(r, m) PROVE TypeOK'
  BY <1>18 DEF TypeOK, StartSend
<1>19. ASSUME NEW r \in Requests, NEW m \in Members, NEW e \in Emails, ChangeEmail(r, m, e) PROVE TypeOK'
  <2>1. outrun' \subseteq Members \X {"email", "mobile"} /\ UNCHANGED <<proof, texted>>
    BY <1>19, OutrunTyped DEF ChangeEmail
  <2> QED
    BY <1>19, <2>1 DEF TypeOK, ChangeEmail
<1>20. ASSUME NEW m \in Members, NEW v \in Verdicts, Decide(m, v) PROVE TypeOK'
  BY <1>20 DEF TypeOK, Decide, ApplyDecision
<1>21. CASE StartAutoApprove
  BY <1>21 DEF TypeOK, StartAutoApprove, Due
<1>22. ASSUME NEW m \in due, Approves(m) PROVE TypeOK'
  <2>1. CASE Decidable(m)
    <3>1. ApplyDecision(m, "approved", TRUE)
      BY <1>22, <2>1 DEF Approves
    <3>2. /\ due' = due \ {m}
          /\ UNCHANGED <<contact, verified, confirmed, submitted, codes, locals, crashes, history>>
      BY <1>22 DEF Approves
    <3> QED
      BY <3>1, <3>2, DecisionTyped DEF TypeOK
  <2>2. CASE ~Decidable(m)
    BY <1>22, <2>2 DEF TypeOK, Approves
  <2> QED
    BY <2>1, <2>2
<1>23. CASE JobFails
  BY <1>23 DEF TypeOK, JobFails
<1>24. ASSUME NEW c \in Codes, NEW e \in Emails, NEW p \in Mobiles, ChangeContact(c, e, p) PROVE TypeOK'
  <2>1. holder[c] \in Members
    BY <1>24 DEF TypeOK, ChangeContact, ContactEditable, CodesKnown, Applicants
  <2>2. /\ email' \in [Members -> Emails \cup {"none"}]
        /\ mobile' \in [Members -> Mobiles \cup {"none"}]
        /\ code' \in [Codes -> Usable \cup {"none", "spent"}]
    BY <1>24 DEF TypeOK, ChangeContact
  <2>3. /\ Issue(holder[c], "mobile", p)
        /\ UNCHANGED <<language, verified, confirmed, application, locals, due, crashes>>
    BY <1>24 DEF ChangeContact
  <2>4. outrun' \subseteq Members \X {"email", "mobile"} /\ UNCHANGED <<proof, texted>>
    BY <1>24, <2>1, OutrunTyped DEF ChangeContact
  <2> QED
    BY <2>1, <2>2, <2>3, <2>4 DEF TypeOK, Issue
<1>25. ASSUME NEW c \in Codes, Lapse(c) PROVE TypeOK'
  BY <1>25 DEF TypeOK, Lapse
<1>26. CASE Cleanup
  BY <1>26 DEF TypeOK, Cleanup
<1>27. ASSUME NEW m \in Members, TimePasses(m) PROVE TypeOK'
  BY <1>27 DEF TypeOK, TimePasses
<1> QED
  BY <1>1, <1>2, <1>3, <1>4, <1>5, <1>6, <1>7, <1>8, <1>9, <1>10, <1>11, <1>12, <1>13, <1>14, <1>15, <1>16, <1>17, <1>18, <1>19, <1>20, <1>21, <1>22, <1>23, <1>24, <1>25, <1>26, <1>27, EveryStep

-----------------------------------------------------------------------------
(* Codes. *)

\* A new code, with what else happens to the ones there were.
LEMMA IssueKnown ==
    ASSUME TypeOK, TypeOK', CodesKnown, NEW m, NEW use \in {"mobile", "email", "nothing"}, NEW a,
           Issue(m, use, a), m \in Applicants', Applicants \subseteq Applicants',
           use = "email" => a \in Emails, code'[NewCode] = "open",
           \A c \in Codes \ {NewCode} :
               code'[c] = code[c] \/ (code'[c] = "spent" /\ code[c] # "none")
    PROVE  CodesKnown'
<1> USE OnboardingAssumption
<1>1. /\ issued \in Nat /\ issued < MaxCodes /\ issued' = issued + 1
      /\ holder' = [holder EXCEPT ![issued + 1] = m]
      /\ purpose' = [purpose EXCEPT ![issued + 1] = use]
      /\ sentTo' = [sentTo EXCEPT ![issued + 1] = a]
      /\ tries' = tries
  BY DEF Issue, TypeOK
<1>2. /\ tries \in [Codes -> 0..MaxTries] /\ holder \in [Codes -> Members \cup {"none"}]
      /\ purpose \in [Codes -> {"none", "mobile", "email", "nothing"}]
      /\ sentTo \in [Codes -> Emails \cup Mobiles \cup {"none"}]
  BY DEF TypeOK
<1> SUFFICES ASSUME NEW c \in Codes
             PROVE  /\ c <= issued' <=> code'[c] # "none"
                    /\ code'[c] = "none" => tries'[c] = 0 /\ purpose'[c] = "none"
                    /\ code'[c] # "none" => holder'[c] \in Applicants' /\ purpose'[c] # "none"
                    /\ purpose'[c] = "email" => sentTo'[c] \in Emails
                    /\ code'[c] \in Usable => tries'[c] < MaxTries
                    /\ tries'[c] = MaxTries => code'[c] = "spent"
  BY DEF CodesKnown
<1>3. /\ c <= issued <=> code[c] # "none"
      /\ code[c] = "none" => tries[c] = 0 /\ purpose[c] = "none"
      /\ code[c] # "none" => holder[c] \in Applicants /\ purpose[c] # "none"
      /\ purpose[c] = "email" => sentTo[c] \in Emails
      /\ code[c] \in Usable => tries[c] < MaxTries
      /\ tries[c] = MaxTries => code[c] = "spent"
  BY DEF CodesKnown
<1>4. CASE c = issued + 1
  BY <1>1, <1>2, <1>3, <1>4
<1>5. CASE c # issued + 1
  BY <1>1, <1>2, <1>3, <1>5
<1> QED
  BY <1>4, <1>5

\* Codes are issued in order, to somebody, with a try left.
LEMMA CodesPreserved == TypeOK /\ TypeOK' /\ CodesKnown /\ Known /\ Registered /\ [Next]_vars => CodesKnown'
<1> SUFFICES ASSUME TypeOK, TypeOK', CodesKnown, Known, Registered, [Next]_vars PROVE CodesKnown'
  OBVIOUS
<1> USE OnboardingAssumption DEF contact, application, codes, locals, history
<1>1. CASE UNCHANGED vars
  BY <1>1 DEF vars, TypeOK, CodesKnown, Applicants
<1>2. ASSUME NEW r \in Requests, NEW e \in Emails, NEW p \in Mobiles, NEW l \in Languages, StartRegister(r, e, p, l) PROVE CodesKnown'
  BY <1>2 DEF TypeOK, CodesKnown, Applicants, StartRegister
<1>3. ASSUME NEW r \in Requests, NEW m \in Members, Inserts(r, m) PROVE CodesKnown'
  <2>1. Issue(m, "mobile", addr[r]) /\ code' = Opened /\ m \in Applicants' /\ Applicants \subseteq Applicants'
    BY <1>3 DEF Inserts, Known, KnownAt, CodesKnown, Registered, Applicants, TypeOK
  <2>2. code'[NewCode] = "open" /\ \A c \in Codes \ {NewCode} : code'[c] = code[c]
    BY <2>1 DEF Issue, TypeOK
  <2> QED
    BY <2>1, <2>2, IssueKnown
<1>4. ASSUME NEW r \in Requests, GivesUp(r) PROVE CodesKnown'
  BY <1>4 DEF TypeOK, CodesKnown, Applicants, GivesUp, InsertConflict, ResumeConflict, Crash, Done
<1>5. ASSUME NEW r \in Requests, NEW m \in Members, NEW p \in Mobiles, NEW l \in Languages, StartResume(r, m, p, l) PROVE CodesKnown'
  BY <1>5 DEF TypeOK, CodesKnown, Applicants, StartResume
<1>6. ASSUME NEW r \in Requests, Resume(r) PROVE CodesKnown'
  <2>1. Issue(who[r], "mobile", addr[r]) /\ code' = Opened /\ who[r] \in Applicants' /\ Applicants \subseteq Applicants'
    BY <1>6 DEF Resume, Known, KnownAt, CodesKnown, Registered, Applicants, TypeOK
  <2>2. code'[NewCode] = "open" /\ \A c \in Codes \ {NewCode} : code'[c] = code[c]
    BY <2>1 DEF Issue, TypeOK
  <2> QED
    BY <2>1, <2>2, IssueKnown
<1>7. ASSUME NEW r \in Requests, NEW c \in Codes, StartResend(r, c) PROVE CodesKnown'
  BY <1>7 DEF TypeOK, CodesKnown, Applicants, StartResend
<1>8. ASSUME NEW r \in Requests, Resend(r) PROVE CodesKnown'
  <2>1. Issue(holder[chal[r]], Resent(chal[r]), addr[r]) /\ code' = Opened /\ holder[chal[r]] \in Applicants' /\ Applicants \subseteq Applicants'
    BY <1>8 DEF Resend, Known, KnownAt, CodesKnown, Registered, Applicants, TypeOK
  <2>2. code'[NewCode] = "open" /\ \A c \in Codes \ {NewCode} : code'[c] = code[c]
    BY <2>1 DEF Issue, TypeOK
  <2>3. Resent(chal[r]) \in {"mobile", "nothing"}
    BY DEF Resent
  <2> QED
    BY <2>1, <2>2, IssueKnown, <2>3
<1>9. ASSUME NEW r \in Requests, NEW c \in Codes, VerifyMobile(r, c) PROVE CodesKnown'
  BY <1>9 DEF TypeOK, CodesKnown, Applicants, VerifyMobile, PresentCode
<1>10. ASSUME NEW r \in Requests, NEW c \in Codes, NEW m \in Members, VerifyEmail(r, c, m) PROVE CodesKnown'
  BY <1>10 DEF TypeOK, CodesKnown, Applicants, VerifyEmail, PresentCode
<1>11. ASSUME NEW r \in Requests, WrongCode(r) PROVE CodesKnown'
  BY <1>11 DEF TypeOK, CodesKnown, Applicants, WrongCode, Done, AfterMiss, Known, KnownAt
<1>12. ASSUME NEW r \in Requests, RightMobileCode(r) PROVE CodesKnown'
  BY <1>12 DEF TypeOK, CodesKnown, Applicants, RightMobileCode, Known, KnownAt
<1>13. ASSUME NEW r \in Requests, RightEmailCode(r) PROVE CodesKnown'
  BY <1>13 DEF TypeOK, CodesKnown, Applicants, RightEmailCode, Done, Known, KnownAt
<1>14. ASSUME NEW r \in Requests, MarkMobile(r) PROVE CodesKnown'
  BY <1>14 DEF TypeOK, CodesKnown, Applicants, MarkMobile, Done
<1>15. ASSUME NEW r \in Requests, ConfirmEmail(r) PROVE CodesKnown'
  BY <1>15 DEF TypeOK, CodesKnown, Applicants, ConfirmEmail, ApplyDecision, Done
<1>16. ASSUME NEW r \in Requests, ReadAddress(r) PROVE CodesKnown'
  BY <1>16 DEF TypeOK, CodesKnown, Applicants, ReadAddress, Done
<1>17. ASSUME NEW r \in Requests, MailCode(r) PROVE CodesKnown'
  <2>1. Issue(who[r], "email", addr[r]) /\ code' = Opened /\ who[r] \in Applicants' /\ Applicants \subseteq Applicants'
    BY <1>17 DEF MailCode, Known, KnownAt, CodesKnown, Registered, Applicants, TypeOK
  <2>2. code'[NewCode] = "open" /\ \A c \in Codes \ {NewCode} : code'[c] = code[c]
    BY <2>1 DEF Issue, TypeOK
  <2>3. addr[r] \in Emails
    BY <1>17 DEF MailCode, Known, KnownAt
  <2> QED
    BY <2>1, <2>2, IssueKnown, <2>3
<1>18. ASSUME NEW r \in Requests, NEW m \in Members, StartSend(r, m) PROVE CodesKnown'
  BY <1>18 DEF TypeOK, CodesKnown, Applicants, StartSend
<1>19. ASSUME NEW r \in Requests, NEW m \in Members, NEW e \in Emails, ChangeEmail(r, m, e) PROVE CodesKnown'
  BY <1>19 DEF TypeOK, CodesKnown, Applicants, ChangeEmail
<1>20. ASSUME NEW m \in Members, NEW v \in Verdicts, Decide(m, v) PROVE CodesKnown'
  BY <1>20 DEF TypeOK, CodesKnown, Applicants, Decide, ApplyDecision
<1>21. CASE StartAutoApprove
  BY <1>21 DEF TypeOK, CodesKnown, Applicants, StartAutoApprove
<1>22. ASSUME NEW m \in due, Approves(m) PROVE CodesKnown'
  BY <1>22 DEF TypeOK, CodesKnown, Applicants, Approves, ApplyDecision
<1>23. CASE JobFails
  BY <1>23 DEF TypeOK, CodesKnown, Applicants, JobFails
<1>24. ASSUME NEW c \in Codes, NEW e \in Emails, NEW p \in Mobiles, ChangeContact(c, e, p) PROVE CodesKnown'
  <2>1. /\ Issue(holder[c], "mobile", p) /\ code' = [Opened EXCEPT ![c] = "spent"]
        /\ holder[c] \in Applicants /\ code[c] # "none" /\ Applicants \subseteq Applicants'
    BY <1>24 DEF ChangeContact, ContactEditable, CodesKnown, Applicants, TypeOK
  <2>2. c # NewCode
    BY <2>1 DEF CodesKnown, TypeOK
  <2>3. /\ code'[NewCode] = "open"
        /\ \A d \in Codes \ {NewCode} :
              code'[d] = code[d] \/ (code'[d] = "spent" /\ code[d] # "none")
    BY <2>1, <2>2 DEF Issue, TypeOK
  <2> QED
    BY <2>1, <2>3, IssueKnown
<1>25. ASSUME NEW c \in Codes, Lapse(c) PROVE CodesKnown'
  BY <1>25 DEF TypeOK, CodesKnown, Applicants, Lapse
<1>26. CASE Cleanup
  BY <1>26 DEF TypeOK, CodesKnown, Applicants, Cleanup
<1>27. ASSUME NEW m \in Members, TimePasses(m) PROVE CodesKnown'
  BY <1>27 DEF TypeOK, CodesKnown, Applicants, TimePasses
<1> QED
  BY <1>1, <1>2, <1>3, <1>4, <1>5, <1>6, <1>7, <1>8, <1>9, <1>10, <1>11, <1>12, <1>13, <1>14, <1>15, <1>16, <1>17, <1>18, <1>19, <1>20, <1>21, <1>22, <1>23, <1>24, <1>25, <1>26, <1>27, EveryStep

\* A handler finds what it relies on: nobody takes a code it holds, or its member.
LEMMA KnownPreserved == TypeOK /\ CodesKnown /\ Known /\ OneSpends /\ Registered /\ [Next]_vars => Known'
<1> SUFFICES ASSUME TypeOK, CodesKnown, Known, OneSpends, Registered, [Next]_vars PROVE Known'
  OBVIOUS
<1> USE OnboardingAssumption DEF contact, application, codes, locals, history
<1>1. CASE UNCHANGED vars
  BY <1>1 DEF vars, TypeOK, CodesKnown, Known, KnownAt, Applicants, Locked
<1>2. ASSUME NEW r \in Requests, NEW e \in Emails, NEW p \in Mobiles, NEW l \in Languages, StartRegister(r, e, p, l) PROVE Known'
  BY <1>2 DEF TypeOK, CodesKnown, Known, KnownAt, Applicants, Locked, StartRegister
<1>3. ASSUME NEW r \in Requests, NEW m \in Members, Inserts(r, m) PROVE Known'
  BY <1>3 DEF TypeOK, CodesKnown, Known, KnownAt, Applicants, Locked, Inserts, Issue, Done
<1>4. ASSUME NEW r \in Requests, GivesUp(r) PROVE Known'
  BY <1>4 DEF TypeOK, CodesKnown, Known, KnownAt, Applicants, Locked, GivesUp, InsertConflict, ResumeConflict, Crash, Done
<1>5. ASSUME NEW r \in Requests, NEW m \in Members, NEW p \in Mobiles, NEW l \in Languages, StartResume(r, m, p, l) PROVE Known'
  BY <1>5 DEF TypeOK, CodesKnown, Known, KnownAt, Applicants, Locked, StartResume
<1>6. ASSUME NEW r \in Requests, Resume(r) PROVE Known'
  BY <1>6 DEF TypeOK, CodesKnown, Known, KnownAt, Applicants, Locked, Resume, Issue, Done
<1>7. ASSUME NEW r \in Requests, NEW c \in Codes, StartResend(r, c) PROVE Known'
  <2>1. c \in Codes /\ code[c] # "none" /\ mobile[holder[c]] \in Mobiles
    BY <1>7 DEF StartResend, CodesKnown, Registered, Applicants
  <2>2. /\ pc' = [pc EXCEPT ![r] = "resend"] /\ chal' = [chal EXCEPT ![r] = c]
        /\ addr' = [addr EXCEPT ![r] = mobile[holder[c]]]
        /\ UNCHANGED <<who, mail, lang, code, purpose, email, verified>>
    BY <1>7 DEF StartResend
  <2> SUFFICES ASSUME NEW q \in Requests PROVE KnownAt(q)'
    BY DEF Known
  <2>3. KnownAt(q)
    BY DEF Known
  <2>4. CASE q = r
    BY <2>1, <2>2, <2>4 DEF KnownAt, TypeOK
  <2>5. CASE q # r
    BY <2>2, <2>3, <2>5 DEF KnownAt, Applicants, TypeOK
  <2> QED
    BY <2>4, <2>5
<1>8. ASSUME NEW r \in Requests, Resend(r) PROVE Known'
  BY <1>8 DEF TypeOK, CodesKnown, Known, KnownAt, Applicants, Locked, Resend, Issue, Done
<1>9. ASSUME NEW r \in Requests, NEW c \in Codes, VerifyMobile(r, c) PROVE Known'
  BY <1>9 DEF TypeOK, CodesKnown, Known, KnownAt, Applicants, Locked, VerifyMobile, PresentCode
<1>10. ASSUME NEW r \in Requests, NEW c \in Codes, NEW m \in Members, VerifyEmail(r, c, m) PROVE Known'
  BY <1>10 DEF TypeOK, CodesKnown, Known, KnownAt, Applicants, Locked, VerifyEmail, PresentCode
<1>11. ASSUME NEW r \in Requests, WrongCode(r) PROVE Known'
  <2>1. /\ pc[r] \in Checking /\ chal[r] \in Codes
        /\ code' = [code EXCEPT ![chal[r]] = AfterMiss(chal[r])]
        /\ AfterMiss(chal[r]) \in {"spent", code[chal[r]]} /\ code[chal[r]] # "none"
    BY <1>11 DEF WrongCode, Known, KnownAt, AfterMiss
  <2>2. Done(r) /\ UNCHANGED <<contact, verified, confirmed, purpose>>
    BY <1>11 DEF WrongCode
  <2> SUFFICES ASSUME NEW q \in Requests PROVE KnownAt(q)'
    BY DEF Known
  <2>3. CASE q = r
    BY <2>2, <2>3 DEF KnownAt, Done, TypeOK
  <2>4. CASE q # r
    <3>1. pc[q] \in Checking \cup {"mark", "confirm"} => chal[q] # chal[r]
      BY <2>1, <2>4 DEF OneSpends, Spending
    <3>2. /\ pc'[q] = pc[q] /\ chal'[q] = chal[q] /\ who'[q] = who[q] /\ addr'[q] = addr[q]
          /\ mail'[q] = mail[q] /\ lang'[q] = lang[q]
      BY <2>2, <2>4 DEF Done, TypeOK
    <3>3. /\ code'[chal[q]] = code[chal[q]] \/ chal[q] = chal[r]
          /\ chal[q] = chal[r] => code'[chal[q]] # "none"
      BY <2>1 DEF TypeOK
    <3>4. KnownAt(q)
      BY DEF Known
    <3> QED
      BY <2>2, <3>1, <3>2, <3>3, <3>4 DEF KnownAt, Applicants
  <2> QED
    BY <2>3, <2>4
<1>12. ASSUME NEW r \in Requests, RightMobileCode(r) PROVE Known'
  <2>1. /\ pc[r] \in Checking /\ chal[r] \in Codes /\ code[chal[r]] # "none"
        /\ code' = [code EXCEPT ![chal[r]] = "spent"]
        /\ UNCHANGED <<contact, verified, confirmed, purpose>>
    BY <1>12 DEF RightMobileCode, Known, KnownAt
  <2> SUFFICES ASSUME NEW q \in Requests PROVE KnownAt(q)'
    BY DEF Known
  <2>2. KnownAt(q) /\ KnownAt(r)
    BY DEF Known
  <2>3. CASE q = r
    BY <1>12, <2>1, <2>2, <2>3 DEF RightMobileCode, KnownAt, CodesKnown, Applicants, TypeOK
  <2>4. CASE q # r
    <3>1. pc[q] \in Checking \cup {"mark", "confirm"} => chal[q] # chal[r]
      BY <2>1, <2>4 DEF OneSpends, Spending
    <3>2. /\ pc'[q] = pc[q] /\ chal'[q] = chal[q] /\ who'[q] = who[q] /\ addr'[q] = addr[q]
          /\ mail'[q] = mail[q] /\ lang'[q] = lang[q]
      BY <1>12, <2>4 DEF RightMobileCode, Done, TypeOK
    <3>3. /\ code'[chal[q]] = code[chal[q]] \/ chal[q] = chal[r]
          /\ chal[q] = chal[r] => code'[chal[q]] # "none"
      BY <2>1 DEF TypeOK
    <3> QED
      BY <2>1, <2>2, <3>1, <3>2, <3>3 DEF KnownAt, Applicants
  <2> QED
    BY <2>3, <2>4
<1>13. ASSUME NEW r \in Requests, RightEmailCode(r) PROVE Known'
  <2>1. /\ pc[r] \in Checking /\ chal[r] \in Codes /\ code[chal[r]] # "none"
        /\ code' = [code EXCEPT ![chal[r]] = "spent"]
        /\ UNCHANGED <<contact, verified, confirmed, purpose>>
    BY <1>13 DEF RightEmailCode, Known, KnownAt
  <2> SUFFICES ASSUME NEW q \in Requests PROVE KnownAt(q)'
    BY DEF Known
  <2>2. KnownAt(q) /\ KnownAt(r)
    BY DEF Known
  <2>3. CASE q = r
    <3>1. CASE holder[chal[r]] = who[r]
      <4>1. Goto(r, "confirm") /\ UNCHANGED <<who, chal, addr, mail, lang>>
        BY <1>13, <3>1 DEF RightEmailCode
      <4>2. /\ pc[r] = "checkEmail" /\ purpose[chal[r]] = "email"
        BY <1>13 DEF RightEmailCode
      <4> QED
        BY <2>1, <2>2, <2>3, <4>1, <4>2 DEF KnownAt, TypeOK
    <3>2. CASE holder[chal[r]] # who[r]
      <4>1. Done(r)
        BY <1>13, <3>2 DEF RightEmailCode
      <4> QED
        BY <2>3, <4>1 DEF KnownAt, Done, TypeOK
    <3> QED
      BY <3>1, <3>2
  <2>4. CASE q # r
    <3>1. pc[q] \in Checking \cup {"mark", "confirm"} => chal[q] # chal[r]
      BY <2>1, <2>4 DEF OneSpends, Spending
    <3>2. /\ pc'[q] = pc[q] /\ chal'[q] = chal[q] /\ who'[q] = who[q] /\ addr'[q] = addr[q]
          /\ mail'[q] = mail[q] /\ lang'[q] = lang[q]
      BY <1>13, <2>4 DEF RightEmailCode, Done, TypeOK
    <3>3. /\ code'[chal[q]] = code[chal[q]] \/ chal[q] = chal[r]
          /\ chal[q] = chal[r] => code'[chal[q]] # "none"
      BY <2>1 DEF TypeOK
    <3> QED
      BY <2>1, <2>2, <3>1, <3>2, <3>3 DEF KnownAt, Applicants
  <2> QED
    BY <2>3, <2>4
<1>14. ASSUME NEW r \in Requests, MarkMobile(r) PROVE Known'
  BY <1>14 DEF TypeOK, CodesKnown, Known, KnownAt, Applicants, Locked, MarkMobile, Done
<1>15. ASSUME NEW r \in Requests, ConfirmEmail(r) PROVE Known'
  BY <1>15 DEF TypeOK, CodesKnown, Known, KnownAt, Applicants, Locked, ConfirmEmail, ApplyDecision, Done
<1>16. ASSUME NEW r \in Requests, ReadAddress(r) PROVE Known'
  <2>1. CASE confirmed[who[r]]
    <3>1. Done(r) /\ UNCHANGED <<contact, verified, confirmed, application, codes, due, crashes, history>>
      BY <1>16, <2>1 DEF ReadAddress
    <3> QED
      BY <3>1 DEF TypeOK, Done, Known, KnownAt, Applicants
  <2>2. CASE ~confirmed[who[r]]
    <3>1. pc[r] = "send" /\ email[who[r]] \in Emails /\ who[r] \in Members /\ verified[who[r]]
      BY <1>16 DEF ReadAddress, Known, KnownAt, Registered, Applicants, TypeOK
    <3>2. /\ addr' = [addr EXCEPT ![r] = email[who[r]]] /\ Goto(r, "mail")
          /\ UNCHANGED <<who, chal, mail, lang>>
          /\ UNCHANGED <<contact, verified, confirmed, application, codes, due, crashes, history>>
      BY <1>16, <2>2 DEF ReadAddress
    <3> QED
      BY <3>1, <3>2 DEF TypeOK, Known, KnownAt, Applicants
  <2> QED
    BY <2>1, <2>2
<1>17. ASSUME NEW r \in Requests, MailCode(r) PROVE Known'
  BY <1>17 DEF TypeOK, CodesKnown, Known, KnownAt, Applicants, Locked, MailCode, Issue, Done
<1>18. ASSUME NEW r \in Requests, NEW m \in Members, StartSend(r, m) PROVE Known'
  <2>1. verified[m] /\ email[m] \in Emails
    BY <1>18 DEF StartSend, Registered, Applicants, TypeOK
  <2>2. /\ pc' = [pc EXCEPT ![r] = "mail"] /\ who' = [who EXCEPT ![r] = m]
        /\ addr' = [addr EXCEPT ![r] = email[m]]
        /\ UNCHANGED <<chal, mail, lang, code, purpose, email, verified>>
    BY <1>18 DEF StartSend
  <2> SUFFICES ASSUME NEW q \in Requests PROVE KnownAt(q)'
    BY DEF Known
  <2>3. KnownAt(q)
    BY DEF Known
  <2>4. CASE q = r
    BY <2>1, <2>2, <2>4 DEF KnownAt, TypeOK
  <2>5. CASE q # r
    BY <2>2, <2>3, <2>5 DEF KnownAt, Applicants, TypeOK
  <2> QED
    BY <2>4, <2>5
<1>19. ASSUME NEW r \in Requests, NEW m \in Members, NEW e \in Emails, ChangeEmail(r, m, e) PROVE Known'
  BY <1>19 DEF TypeOK, CodesKnown, Known, KnownAt, Applicants, Locked, ChangeEmail
<1>20. ASSUME NEW m \in Members, NEW v \in Verdicts, Decide(m, v) PROVE Known'
  BY <1>20 DEF TypeOK, CodesKnown, Known, KnownAt, Applicants, Locked, Decide, ApplyDecision
<1>21. CASE StartAutoApprove
  BY <1>21 DEF TypeOK, CodesKnown, Known, KnownAt, Applicants, Locked, StartAutoApprove
<1>22. ASSUME NEW m \in due, Approves(m) PROVE Known'
  BY <1>22 DEF TypeOK, CodesKnown, Known, KnownAt, Applicants, Locked, Approves, ApplyDecision
<1>23. CASE JobFails
  BY <1>23 DEF TypeOK, CodesKnown, Known, KnownAt, Applicants, Locked, JobFails
<1>24. ASSUME NEW c \in Codes, NEW e \in Emails, NEW p \in Mobiles, ChangeContact(c, e, p) PROVE Known'
  <2>1. /\ code[c] # "none" /\ ~Locked(c)
        /\ UNCHANGED <<verified, locals, language>>
        /\ email' = [email EXCEPT ![holder[c]] = e]
        /\ Issue(holder[c], "mobile", p) /\ code' = [Opened EXCEPT ![c] = "spent"]
    BY <1>24 DEF ChangeContact, ContactEditable
  <2>2. Applicants \subseteq Applicants'
    BY <2>1 DEF Applicants, TypeOK
  <2>3. NewCode \in Codes /\ code[NewCode] = "none" /\ purpose' = [purpose EXCEPT ![NewCode] = "mobile"]
    BY <2>1 DEF Issue, CodesKnown, TypeOK
  <2>4. \A d \in Codes : code[d] # "none" =>
            /\ purpose'[d] = purpose[d] /\ code'[d] # "none"
            /\ code[d] = "spent" => code'[d] = "spent"
            /\ d # c => code'[d] = code[d]
    <3> SUFFICES ASSUME NEW d \in Codes, code[d] # "none"
                 PROVE  /\ purpose'[d] = purpose[d] /\ code'[d] # "none"
                        /\ code[d] = "spent" => code'[d] = "spent"
                        /\ d # c => code'[d] = code[d]
      OBVIOUS
    <3>1. d # NewCode
      BY <2>3
    <3>2. purpose'[d] = purpose[d]
      BY <2>3, <3>1 DEF TypeOK
    <3>3. code'[d] = IF d = c THEN "spent" ELSE code[d]
      BY <2>1, <3>1 DEF TypeOK
    <3> QED
      BY <3>2, <3>3
  <2> SUFFICES ASSUME NEW q \in Requests PROVE KnownAt(q)'
    BY DEF Known
  <2>5. KnownAt(q) /\ (pc[q] \in Checking => chal[q] # c)
    BY <2>1 DEF Known, Locked
  <2> QED
    BY <2>1, <2>2, <2>4, <2>5 DEF KnownAt
<1>25. ASSUME NEW c \in Codes, Lapse(c) PROVE Known'
  BY <1>25 DEF TypeOK, CodesKnown, Known, KnownAt, Applicants, Locked, Lapse
<1>26. CASE Cleanup
  BY <1>26 DEF TypeOK, CodesKnown, Known, KnownAt, Applicants, Locked, Cleanup
<1>27. ASSUME NEW m \in Members, TimePasses(m) PROVE Known'
  BY <1>27 DEF TypeOK, CodesKnown, Known, KnownAt, Applicants, Locked, TimePasses
<1> QED
  BY <1>1, <1>2, <1>3, <1>4, <1>5, <1>6, <1>7, <1>8, <1>9, <1>10, <1>11, <1>12, <1>13, <1>14, <1>15, <1>16, <1>17, <1>18, <1>19, <1>20, <1>21, <1>22, <1>23, <1>24, <1>25, <1>26, <1>27, EveryStep

\* A code in one handler's hands is not given to another.
LEMMA SpendsPreserved == TypeOK /\ CodesKnown /\ Known /\ OneSpends /\ [Next]_vars => OneSpends'
<1> SUFFICES ASSUME TypeOK, CodesKnown, Known, OneSpends, [Next]_vars PROVE OneSpends'
  OBVIOUS
<1> USE OnboardingAssumption DEF contact, application, codes, locals, history
<1>1. CASE UNCHANGED vars
  BY <1>1 DEF vars, TypeOK, Known, KnownAt, OneSpends, Spending, Locked
<1>2. ASSUME NEW r \in Requests, NEW e \in Emails, NEW p \in Mobiles, NEW l \in Languages, StartRegister(r, e, p, l) PROVE OneSpends'
  BY <1>2 DEF TypeOK, Known, KnownAt, OneSpends, Spending, Locked, StartRegister
<1>3. ASSUME NEW r \in Requests, NEW m \in Members, Inserts(r, m) PROVE OneSpends'
  BY <1>3 DEF TypeOK, Known, KnownAt, OneSpends, Spending, Locked, Inserts, Issue, Done
<1>4. ASSUME NEW r \in Requests, GivesUp(r) PROVE OneSpends'
  <2>1. Done(r) /\ UNCHANGED <<contact, application, code, due>>
    BY <1>4 DEF GivesUp, InsertConflict, ResumeConflict, Crash
  <2> QED
    BY <2>1 DEF TypeOK, Done, OneSpends, Spending
<1>5. ASSUME NEW r \in Requests, NEW m \in Members, NEW p \in Mobiles, NEW l \in Languages, StartResume(r, m, p, l) PROVE OneSpends'
  BY <1>5 DEF TypeOK, Known, KnownAt, OneSpends, Spending, Locked, StartResume
<1>6. ASSUME NEW r \in Requests, Resume(r) PROVE OneSpends'
  BY <1>6 DEF TypeOK, Known, KnownAt, OneSpends, Spending, Locked, Resume, Issue, Done
<1>7. ASSUME NEW r \in Requests, NEW c \in Codes, StartResend(r, c) PROVE OneSpends'
  BY <1>7 DEF TypeOK, Known, KnownAt, OneSpends, Spending, Locked, StartResend
<1>8. ASSUME NEW r \in Requests, Resend(r) PROVE OneSpends'
  BY <1>8 DEF TypeOK, Known, KnownAt, OneSpends, Spending, Locked, Resend, Issue, Done
<1>9. ASSUME NEW r \in Requests, NEW c \in Codes, VerifyMobile(r, c) PROVE OneSpends'
  BY <1>9 DEF TypeOK, Known, KnownAt, OneSpends, Spending, Locked, VerifyMobile, PresentCode
<1>10. ASSUME NEW r \in Requests, NEW c \in Codes, NEW m \in Members, VerifyEmail(r, c, m) PROVE OneSpends'
  BY <1>10 DEF TypeOK, Known, KnownAt, OneSpends, Spending, Locked, VerifyEmail, PresentCode
<1>11. ASSUME NEW r \in Requests, WrongCode(r) PROVE OneSpends'
  BY <1>11 DEF TypeOK, Known, KnownAt, OneSpends, Spending, Locked, WrongCode, Done
<1>12. ASSUME NEW r \in Requests, RightMobileCode(r) PROVE OneSpends'
  BY <1>12 DEF TypeOK, Known, KnownAt, OneSpends, Spending, Locked, RightMobileCode
<1>13. ASSUME NEW r \in Requests, RightEmailCode(r) PROVE OneSpends'
  <2>1. CASE holder[chal[r]] = who[r]
    <3>1. /\ pc[r] = "checkEmail" /\ Goto(r, "confirm") /\ UNCHANGED chal
          /\ UNCHANGED <<contact, application, due>>
      BY <1>13, <2>1 DEF RightEmailCode
    <3> QED
      BY <3>1 DEF TypeOK, OneSpends, Spending
  <2>2. CASE ~(holder[chal[r]] = who[r])
    <3>1. Done(r) /\ UNCHANGED <<contact, application, due>>
      BY <1>13, <2>2 DEF RightEmailCode
    <3> QED
      BY <3>1 DEF TypeOK, Done, OneSpends, Spending
  <2> QED
    BY <2>1, <2>2
<1>14. ASSUME NEW r \in Requests, MarkMobile(r) PROVE OneSpends'
  BY <1>14 DEF TypeOK, Known, KnownAt, OneSpends, Spending, Locked, MarkMobile, Done
<1>15. ASSUME NEW r \in Requests, ConfirmEmail(r) PROVE OneSpends'
  BY <1>15 DEF TypeOK, Known, KnownAt, OneSpends, Spending, Locked, ConfirmEmail, ApplyDecision, Done
<1>16. ASSUME NEW r \in Requests, ReadAddress(r) PROVE OneSpends'
  <2>1. CASE ~confirmed[who[r]]
    <3>1. /\ Goto(r, "mail") /\ UNCHANGED chal
          /\ UNCHANGED <<contact, application, due>>
      BY <1>16, <2>1 DEF ReadAddress
    <3> QED
      BY <3>1 DEF TypeOK, OneSpends, Spending
  <2>2. CASE ~(~confirmed[who[r]])
    <3>1. Done(r) /\ UNCHANGED <<contact, application, due>>
      BY <1>16, <2>2 DEF ReadAddress
    <3> QED
      BY <3>1 DEF TypeOK, Done, OneSpends, Spending
  <2> QED
    BY <2>1, <2>2
<1>17. ASSUME NEW r \in Requests, MailCode(r) PROVE OneSpends'
  BY <1>17 DEF TypeOK, Known, KnownAt, OneSpends, Spending, Locked, MailCode, Issue, Done
<1>18. ASSUME NEW r \in Requests, NEW m \in Members, StartSend(r, m) PROVE OneSpends'
  BY <1>18 DEF TypeOK, Known, KnownAt, OneSpends, Spending, Locked, StartSend
<1>19. ASSUME NEW r \in Requests, NEW m \in Members, NEW e \in Emails, ChangeEmail(r, m, e) PROVE OneSpends'
  BY <1>19 DEF TypeOK, Known, KnownAt, OneSpends, Spending, Locked, ChangeEmail
<1>20. ASSUME NEW m \in Members, NEW v \in Verdicts, Decide(m, v) PROVE OneSpends'
  BY <1>20 DEF TypeOK, Known, KnownAt, OneSpends, Spending, Locked, Decide, ApplyDecision
<1>21. CASE StartAutoApprove
  BY <1>21 DEF TypeOK, Known, KnownAt, OneSpends, Spending, Locked, StartAutoApprove
<1>22. ASSUME NEW m \in due, Approves(m) PROVE OneSpends'
  BY <1>22 DEF TypeOK, Known, KnownAt, OneSpends, Spending, Locked, Approves, ApplyDecision
<1>23. CASE JobFails
  BY <1>23 DEF TypeOK, Known, KnownAt, OneSpends, Spending, Locked, JobFails
<1>24. ASSUME NEW c \in Codes, NEW e \in Emails, NEW p \in Mobiles, ChangeContact(c, e, p) PROVE OneSpends'
  BY <1>24 DEF TypeOK, Known, KnownAt, OneSpends, Spending, Locked, ChangeContact, Issue
<1>25. ASSUME NEW c \in Codes, Lapse(c) PROVE OneSpends'
  BY <1>25 DEF TypeOK, Known, KnownAt, OneSpends, Spending, Locked, Lapse
<1>26. CASE Cleanup
  BY <1>26 DEF TypeOK, Known, KnownAt, OneSpends, Spending, Locked, Cleanup
<1>27. ASSUME NEW m \in Members, TimePasses(m) PROVE OneSpends'
  BY <1>27 DEF TypeOK, Known, KnownAt, OneSpends, Spending, Locked, TimePasses
<1> QED
  BY <1>1, <1>2, <1>3, <1>4, <1>5, <1>6, <1>7, <1>8, <1>9, <1>10, <1>11, <1>12, <1>13, <1>14, <1>15, <1>16, <1>17, <1>18, <1>19, <1>20, <1>21, <1>22, <1>23, <1>24, <1>25, <1>26, <1>27, EveryStep

-----------------------------------------------------------------------------
(* Members and applications. *)

\* Only somebody who registered is verified, confirmed or decided.
LEMMA RegisteredPreserved == TypeOK /\ CodesKnown /\ Known /\ Registered /\ [Next]_vars => Registered'
<1> SUFFICES ASSUME TypeOK, CodesKnown, Known, Registered, [Next]_vars PROVE Registered'
  OBVIOUS
<1> USE OnboardingAssumption DEF contact, application, codes, locals, history
<1>1. CASE UNCHANGED vars
  BY <1>1 DEF vars, TypeOK, Known, KnownAt, Registered, Applicants
<1>2. ASSUME NEW r \in Requests, NEW e \in Emails, NEW p \in Mobiles, NEW l \in Languages, StartRegister(r, e, p, l) PROVE Registered'
  BY <1>2 DEF TypeOK, Known, KnownAt, Registered, Applicants, StartRegister
<1>3. ASSUME NEW r \in Requests, NEW m \in Members, Inserts(r, m) PROVE Registered'
  BY <1>3 DEF TypeOK, Known, KnownAt, Registered, Applicants, Inserts, Issue, Done
<1>4. ASSUME NEW r \in Requests, GivesUp(r) PROVE Registered'
  BY <1>4 DEF TypeOK, Known, KnownAt, Registered, Applicants, GivesUp, InsertConflict, ResumeConflict, Crash, Done
<1>5. ASSUME NEW r \in Requests, NEW m \in Members, NEW p \in Mobiles, NEW l \in Languages, StartResume(r, m, p, l) PROVE Registered'
  BY <1>5 DEF TypeOK, Known, KnownAt, Registered, Applicants, StartResume
<1>6. ASSUME NEW r \in Requests, Resume(r) PROVE Registered'
  BY <1>6 DEF TypeOK, Known, KnownAt, Registered, Applicants, Resume, Issue, Done
<1>7. ASSUME NEW r \in Requests, NEW c \in Codes, StartResend(r, c) PROVE Registered'
  BY <1>7 DEF TypeOK, Known, KnownAt, Registered, Applicants, StartResend
<1>8. ASSUME NEW r \in Requests, Resend(r) PROVE Registered'
  BY <1>8 DEF TypeOK, Known, KnownAt, Registered, Applicants, Resend, Issue, Done
<1>9. ASSUME NEW r \in Requests, NEW c \in Codes, VerifyMobile(r, c) PROVE Registered'
  BY <1>9 DEF TypeOK, Known, KnownAt, Registered, Applicants, VerifyMobile, PresentCode
<1>10. ASSUME NEW r \in Requests, NEW c \in Codes, NEW m \in Members, VerifyEmail(r, c, m) PROVE Registered'
  BY <1>10 DEF TypeOK, Known, KnownAt, Registered, Applicants, VerifyEmail, PresentCode
<1>11. ASSUME NEW r \in Requests, WrongCode(r) PROVE Registered'
  BY <1>11 DEF TypeOK, Known, KnownAt, Registered, Applicants, WrongCode, Done
<1>12. ASSUME NEW r \in Requests, RightMobileCode(r) PROVE Registered'
  BY <1>12 DEF TypeOK, Known, KnownAt, Registered, Applicants, RightMobileCode
<1>13. ASSUME NEW r \in Requests, RightEmailCode(r) PROVE Registered'
  BY <1>13 DEF TypeOK, Known, KnownAt, Registered, Applicants, RightEmailCode, Done
<1>14. ASSUME NEW r \in Requests, MarkMobile(r) PROVE Registered'
  BY <1>14 DEF TypeOK, Known, KnownAt, Registered, Applicants, MarkMobile, Done
<1>15. ASSUME NEW r \in Requests, ConfirmEmail(r) PROVE Registered'
  BY <1>15 DEF TypeOK, Known, KnownAt, Registered, Applicants, ConfirmEmail, ApplyDecision, Done
<1>16. ASSUME NEW r \in Requests, ReadAddress(r) PROVE Registered'
  BY <1>16 DEF TypeOK, Known, KnownAt, Registered, Applicants, ReadAddress, Done
<1>17. ASSUME NEW r \in Requests, MailCode(r) PROVE Registered'
  BY <1>17 DEF TypeOK, Known, KnownAt, Registered, Applicants, MailCode, Issue, Done
<1>18. ASSUME NEW r \in Requests, NEW m \in Members, StartSend(r, m) PROVE Registered'
  BY <1>18 DEF TypeOK, Known, KnownAt, Registered, Applicants, StartSend
<1>19. ASSUME NEW r \in Requests, NEW m \in Members, NEW e \in Emails, ChangeEmail(r, m, e) PROVE Registered'
  BY <1>19 DEF TypeOK, Known, KnownAt, Registered, Applicants, ChangeEmail
<1>20. ASSUME NEW m \in Members, NEW v \in Verdicts, Decide(m, v) PROVE Registered'
  BY <1>20 DEF TypeOK, Known, KnownAt, Registered, Applicants, Decide, ApplyDecision, Decidable
<1>21. CASE StartAutoApprove
  BY <1>21 DEF TypeOK, Known, KnownAt, Registered, Applicants, StartAutoApprove
<1>22. ASSUME NEW m \in due, Approves(m) PROVE Registered'
  BY <1>22 DEF TypeOK, Known, KnownAt, Registered, Applicants, Approves, ApplyDecision, Decidable
<1>23. CASE JobFails
  BY <1>23 DEF TypeOK, Known, KnownAt, Registered, Applicants, JobFails
<1>24. ASSUME NEW c \in Codes, NEW e \in Emails, NEW p \in Mobiles, ChangeContact(c, e, p) PROVE Registered'
  BY <1>24 DEF TypeOK, Known, KnownAt, Registered, Applicants, ChangeContact, Issue, ContactEditable, CodesKnown
<1>25. ASSUME NEW c \in Codes, Lapse(c) PROVE Registered'
  BY <1>25 DEF TypeOK, Known, KnownAt, Registered, Applicants, Lapse
<1>26. CASE Cleanup
  BY <1>26 DEF TypeOK, Known, KnownAt, Registered, Applicants, Cleanup
<1>27. ASSUME NEW m \in Members, TimePasses(m) PROVE Registered'
  BY <1>27 DEF TypeOK, Known, KnownAt, Registered, Applicants, TimePasses
<1> QED
  BY <1>1, <1>2, <1>3, <1>4, <1>5, <1>6, <1>7, <1>8, <1>9, <1>10, <1>11, <1>12, <1>13, <1>14, <1>15, <1>16, <1>17, <1>18, <1>19, <1>20, <1>21, <1>22, <1>23, <1>24, <1>25, <1>26, <1>27, EveryStep

\* The address and the application are written together.
LEMMA CompletePreserved == TypeOK /\ Known /\ Registered /\ CompleteTogether /\ [Next]_vars => CompleteTogether'
<1> SUFFICES ASSUME TypeOK, Known, Registered, CompleteTogether, [Next]_vars PROVE CompleteTogether'
  OBVIOUS
<1> USE OnboardingAssumption DEF contact, application, codes, locals, history
<1>1. CASE UNCHANGED vars
  BY <1>1 DEF vars, TypeOK, Known, KnownAt, Registered, CompleteTogether, Applicants
<1>2. ASSUME NEW r \in Requests, NEW e \in Emails, NEW p \in Mobiles, NEW l \in Languages, StartRegister(r, e, p, l) PROVE CompleteTogether'
  BY <1>2 DEF TypeOK, Known, KnownAt, Registered, CompleteTogether, Applicants, StartRegister
<1>3. ASSUME NEW r \in Requests, NEW m \in Members, Inserts(r, m) PROVE CompleteTogether'
  BY <1>3 DEF TypeOK, Known, KnownAt, Registered, CompleteTogether, Applicants, Inserts, Issue, Done
<1>4. ASSUME NEW r \in Requests, GivesUp(r) PROVE CompleteTogether'
  BY <1>4 DEF TypeOK, Known, KnownAt, Registered, CompleteTogether, Applicants, GivesUp, InsertConflict, ResumeConflict, Crash, Done
<1>5. ASSUME NEW r \in Requests, NEW m \in Members, NEW p \in Mobiles, NEW l \in Languages, StartResume(r, m, p, l) PROVE CompleteTogether'
  BY <1>5 DEF TypeOK, Known, KnownAt, Registered, CompleteTogether, Applicants, StartResume
<1>6. ASSUME NEW r \in Requests, Resume(r) PROVE CompleteTogether'
  BY <1>6 DEF TypeOK, Known, KnownAt, Registered, CompleteTogether, Applicants, Resume, Issue, Done
<1>7. ASSUME NEW r \in Requests, NEW c \in Codes, StartResend(r, c) PROVE CompleteTogether'
  BY <1>7 DEF TypeOK, Known, KnownAt, Registered, CompleteTogether, Applicants, StartResend
<1>8. ASSUME NEW r \in Requests, Resend(r) PROVE CompleteTogether'
  BY <1>8 DEF TypeOK, Known, KnownAt, Registered, CompleteTogether, Applicants, Resend, Issue, Done
<1>9. ASSUME NEW r \in Requests, NEW c \in Codes, VerifyMobile(r, c) PROVE CompleteTogether'
  BY <1>9 DEF TypeOK, Known, KnownAt, Registered, CompleteTogether, Applicants, VerifyMobile, PresentCode
<1>10. ASSUME NEW r \in Requests, NEW c \in Codes, NEW m \in Members, VerifyEmail(r, c, m) PROVE CompleteTogether'
  BY <1>10 DEF TypeOK, Known, KnownAt, Registered, CompleteTogether, Applicants, VerifyEmail, PresentCode
<1>11. ASSUME NEW r \in Requests, WrongCode(r) PROVE CompleteTogether'
  BY <1>11 DEF TypeOK, Known, KnownAt, Registered, CompleteTogether, Applicants, WrongCode, Done
<1>12. ASSUME NEW r \in Requests, RightMobileCode(r) PROVE CompleteTogether'
  BY <1>12 DEF TypeOK, Known, KnownAt, Registered, CompleteTogether, Applicants, RightMobileCode
<1>13. ASSUME NEW r \in Requests, RightEmailCode(r) PROVE CompleteTogether'
  BY <1>13 DEF TypeOK, Known, KnownAt, Registered, CompleteTogether, Applicants, RightEmailCode, Done
<1>14. ASSUME NEW r \in Requests, MarkMobile(r) PROVE CompleteTogether'
  BY <1>14 DEF TypeOK, Known, KnownAt, Registered, CompleteTogether, Applicants, MarkMobile, Done
<1>15. ASSUME NEW r \in Requests, ConfirmEmail(r) PROVE CompleteTogether'
  BY <1>15 DEF TypeOK, Known, KnownAt, Registered, CompleteTogether, Applicants, ConfirmEmail, ApplyDecision, Done
<1>16. ASSUME NEW r \in Requests, ReadAddress(r) PROVE CompleteTogether'
  BY <1>16 DEF TypeOK, Known, KnownAt, Registered, CompleteTogether, Applicants, ReadAddress, Done
<1>17. ASSUME NEW r \in Requests, MailCode(r) PROVE CompleteTogether'
  BY <1>17 DEF TypeOK, Known, KnownAt, Registered, CompleteTogether, Applicants, MailCode, Issue, Done
<1>18. ASSUME NEW r \in Requests, NEW m \in Members, StartSend(r, m) PROVE CompleteTogether'
  BY <1>18 DEF TypeOK, Known, KnownAt, Registered, CompleteTogether, Applicants, StartSend
<1>19. ASSUME NEW r \in Requests, NEW m \in Members, NEW e \in Emails, ChangeEmail(r, m, e) PROVE CompleteTogether'
  BY <1>19 DEF TypeOK, Known, KnownAt, Registered, CompleteTogether, Applicants, ChangeEmail
<1>20. ASSUME NEW m \in Members, NEW v \in Verdicts, Decide(m, v) PROVE CompleteTogether'
  BY <1>20 DEF TypeOK, Known, KnownAt, Registered, CompleteTogether, Applicants, Decide, ApplyDecision, Decidable
<1>21. CASE StartAutoApprove
  BY <1>21 DEF TypeOK, Known, KnownAt, Registered, CompleteTogether, Applicants, StartAutoApprove
<1>22. ASSUME NEW m \in due, Approves(m) PROVE CompleteTogether'
  BY <1>22 DEF TypeOK, Known, KnownAt, Registered, CompleteTogether, Applicants, Approves, ApplyDecision, Decidable
<1>23. CASE JobFails
  BY <1>23 DEF TypeOK, Known, KnownAt, Registered, CompleteTogether, Applicants, JobFails
<1>24. ASSUME NEW c \in Codes, NEW e \in Emails, NEW p \in Mobiles, ChangeContact(c, e, p) PROVE CompleteTogether'
  BY <1>24 DEF TypeOK, Known, KnownAt, Registered, CompleteTogether, Applicants, ChangeContact, Issue
<1>25. ASSUME NEW c \in Codes, Lapse(c) PROVE CompleteTogether'
  BY <1>25 DEF TypeOK, Known, KnownAt, Registered, CompleteTogether, Applicants, Lapse
<1>26. CASE Cleanup
  BY <1>26 DEF TypeOK, Known, KnownAt, Registered, CompleteTogether, Applicants, Cleanup
<1>27. ASSUME NEW m \in Members, TimePasses(m) PROVE CompleteTogether'
  BY <1>27 DEF TypeOK, Known, KnownAt, Registered, CompleteTogether, Applicants, TimePasses
<1> QED
  BY <1>1, <1>2, <1>3, <1>4, <1>5, <1>6, <1>7, <1>8, <1>9, <1>10, <1>11, <1>12, <1>13, <1>14, <1>15, <1>16, <1>17, <1>18, <1>19, <1>20, <1>21, <1>22, <1>23, <1>24, <1>25, <1>26, <1>27, EveryStep

\* The code that confirms is one for the address, and those were mailed.
LEMMA ByMailPreserved == TypeOK /\ CodesKnown /\ Known /\ ConfirmedByMail /\ [Next]_vars => ConfirmedByMail'
<1> SUFFICES ASSUME TypeOK, CodesKnown, Known, ConfirmedByMail, [Next]_vars PROVE ConfirmedByMail'
  OBVIOUS
<1> USE OnboardingAssumption DEF contact, application, codes, locals, history
<1>1. CASE UNCHANGED vars
  BY <1>1 DEF vars, TypeOK, CodesKnown, Known, KnownAt, ConfirmedByMail
<1>2. ASSUME NEW r \in Requests, NEW e \in Emails, NEW p \in Mobiles, NEW l \in Languages, StartRegister(r, e, p, l) PROVE ConfirmedByMail'
  BY <1>2 DEF TypeOK, CodesKnown, Known, KnownAt, ConfirmedByMail, StartRegister
<1>3. ASSUME NEW r \in Requests, NEW m \in Members, Inserts(r, m) PROVE ConfirmedByMail'
  BY <1>3 DEF TypeOK, CodesKnown, Known, KnownAt, ConfirmedByMail, Inserts, Issue, Done
<1>4. ASSUME NEW r \in Requests, GivesUp(r) PROVE ConfirmedByMail'
  BY <1>4 DEF TypeOK, CodesKnown, Known, KnownAt, ConfirmedByMail, GivesUp, InsertConflict, ResumeConflict, Crash, Done
<1>5. ASSUME NEW r \in Requests, NEW m \in Members, NEW p \in Mobiles, NEW l \in Languages, StartResume(r, m, p, l) PROVE ConfirmedByMail'
  BY <1>5 DEF TypeOK, CodesKnown, Known, KnownAt, ConfirmedByMail, StartResume
<1>6. ASSUME NEW r \in Requests, Resume(r) PROVE ConfirmedByMail'
  BY <1>6 DEF TypeOK, CodesKnown, Known, KnownAt, ConfirmedByMail, Resume, Issue, Done, Outrun
<1>7. ASSUME NEW r \in Requests, NEW c \in Codes, StartResend(r, c) PROVE ConfirmedByMail'
  BY <1>7 DEF TypeOK, CodesKnown, Known, KnownAt, ConfirmedByMail, StartResend
<1>8. ASSUME NEW r \in Requests, Resend(r) PROVE ConfirmedByMail'
  BY <1>8 DEF TypeOK, CodesKnown, Known, KnownAt, ConfirmedByMail, Resend, Issue, Done
<1>9. ASSUME NEW r \in Requests, NEW c \in Codes, VerifyMobile(r, c) PROVE ConfirmedByMail'
  BY <1>9 DEF TypeOK, CodesKnown, Known, KnownAt, ConfirmedByMail, VerifyMobile, PresentCode
<1>10. ASSUME NEW r \in Requests, NEW c \in Codes, NEW m \in Members, VerifyEmail(r, c, m) PROVE ConfirmedByMail'
  BY <1>10 DEF TypeOK, CodesKnown, Known, KnownAt, ConfirmedByMail, VerifyEmail, PresentCode
<1>11. ASSUME NEW r \in Requests, WrongCode(r) PROVE ConfirmedByMail'
  BY <1>11 DEF TypeOK, CodesKnown, Known, KnownAt, ConfirmedByMail, WrongCode, Done
<1>12. ASSUME NEW r \in Requests, RightMobileCode(r) PROVE ConfirmedByMail'
  BY <1>12 DEF TypeOK, CodesKnown, Known, KnownAt, ConfirmedByMail, RightMobileCode
<1>13. ASSUME NEW r \in Requests, RightEmailCode(r) PROVE ConfirmedByMail'
  BY <1>13 DEF TypeOK, CodesKnown, Known, KnownAt, ConfirmedByMail, RightEmailCode, Done
<1>14. ASSUME NEW r \in Requests, MarkMobile(r) PROVE ConfirmedByMail'
  BY <1>14 DEF TypeOK, CodesKnown, Known, KnownAt, ConfirmedByMail, MarkMobile, Done
<1>15. ASSUME NEW r \in Requests, ConfirmEmail(r) PROVE ConfirmedByMail'
  BY <1>15 DEF TypeOK, CodesKnown, Known, KnownAt, ConfirmedByMail, ConfirmEmail, ApplyDecision, Done
<1>16. ASSUME NEW r \in Requests, ReadAddress(r) PROVE ConfirmedByMail'
  BY <1>16 DEF TypeOK, CodesKnown, Known, KnownAt, ConfirmedByMail, ReadAddress, Done
<1>17. ASSUME NEW r \in Requests, MailCode(r) PROVE ConfirmedByMail'
  BY <1>17 DEF TypeOK, CodesKnown, Known, KnownAt, ConfirmedByMail, MailCode, Issue, Done
<1>18. ASSUME NEW r \in Requests, NEW m \in Members, StartSend(r, m) PROVE ConfirmedByMail'
  BY <1>18 DEF TypeOK, CodesKnown, Known, KnownAt, ConfirmedByMail, StartSend
<1>19. ASSUME NEW r \in Requests, NEW m \in Members, NEW e \in Emails, ChangeEmail(r, m, e) PROVE ConfirmedByMail'
  BY <1>19 DEF TypeOK, CodesKnown, Known, KnownAt, ConfirmedByMail, ChangeEmail, Outrun
<1>20. ASSUME NEW m \in Members, NEW v \in Verdicts, Decide(m, v) PROVE ConfirmedByMail'
  BY <1>20 DEF TypeOK, CodesKnown, Known, KnownAt, ConfirmedByMail, Decide, ApplyDecision
<1>21. CASE StartAutoApprove
  BY <1>21 DEF TypeOK, CodesKnown, Known, KnownAt, ConfirmedByMail, StartAutoApprove
<1>22. ASSUME NEW m \in due, Approves(m) PROVE ConfirmedByMail'
  BY <1>22 DEF TypeOK, CodesKnown, Known, KnownAt, ConfirmedByMail, Approves, ApplyDecision
<1>23. CASE JobFails
  BY <1>23 DEF TypeOK, CodesKnown, Known, KnownAt, ConfirmedByMail, JobFails
<1>24. ASSUME NEW c \in Codes, NEW e \in Emails, NEW p \in Mobiles, ChangeContact(c, e, p) PROVE ConfirmedByMail'
  BY <1>24 DEF TypeOK, CodesKnown, Known, KnownAt, ConfirmedByMail, ChangeContact, Issue, Outrun
<1>25. ASSUME NEW c \in Codes, Lapse(c) PROVE ConfirmedByMail'
  BY <1>25 DEF TypeOK, CodesKnown, Known, KnownAt, ConfirmedByMail, Lapse
<1>26. CASE Cleanup
  BY <1>26 DEF TypeOK, CodesKnown, Known, KnownAt, ConfirmedByMail, Cleanup
<1>27. ASSUME NEW m \in Members, TimePasses(m) PROVE ConfirmedByMail'
  BY <1>27 DEF TypeOK, CodesKnown, Known, KnownAt, ConfirmedByMail, TimePasses
<1> QED
  BY <1>1, <1>2, <1>3, <1>4, <1>5, <1>6, <1>7, <1>8, <1>9, <1>10, <1>11, <1>12, <1>13, <1>14, <1>15, <1>16, <1>17, <1>18, <1>19, <1>20, <1>21, <1>22, <1>23, <1>24, <1>25, <1>26, <1>27, EveryStep

\* A new address or number is nobody's: the unique indexes.
LEMMA HolderPreserved == TypeOK /\ CodesKnown /\ Known /\ Registered /\ OneHolder /\ [Next]_vars => OneHolder'
<1> SUFFICES ASSUME TypeOK, CodesKnown, Known, Registered, OneHolder, [Next]_vars PROVE OneHolder'
  OBVIOUS
<1> USE OnboardingAssumption DEF contact, application, codes, locals, history
<1>1. CASE UNCHANGED vars
  BY <1>1 DEF vars, TypeOK, Known, KnownAt, Registered, OneHolder, EmailFree, MobileFree, Applicants
<1>2. ASSUME NEW r \in Requests, NEW e \in Emails, NEW p \in Mobiles, NEW l \in Languages, StartRegister(r, e, p, l) PROVE OneHolder'
  BY <1>2 DEF TypeOK, Known, KnownAt, Registered, OneHolder, EmailFree, MobileFree, Applicants, StartRegister
<1>3. ASSUME NEW r \in Requests, NEW m \in Members, Inserts(r, m) PROVE OneHolder'
  BY <1>3 DEF TypeOK, Known, KnownAt, Registered, OneHolder, EmailFree, MobileFree, Applicants, Inserts, Issue, Done
<1>4. ASSUME NEW r \in Requests, GivesUp(r) PROVE OneHolder'
  BY <1>4 DEF TypeOK, Known, KnownAt, Registered, OneHolder, EmailFree, MobileFree, Applicants, GivesUp, InsertConflict, ResumeConflict, Crash, Done
<1>5. ASSUME NEW r \in Requests, NEW m \in Members, NEW p \in Mobiles, NEW l \in Languages, StartResume(r, m, p, l) PROVE OneHolder'
  BY <1>5 DEF TypeOK, Known, KnownAt, Registered, OneHolder, EmailFree, MobileFree, Applicants, StartResume
<1>6. ASSUME NEW r \in Requests, Resume(r) PROVE OneHolder'
  BY <1>6 DEF TypeOK, Known, KnownAt, Registered, OneHolder, EmailFree, MobileFree, Applicants, Resume, Issue, Done
<1>7. ASSUME NEW r \in Requests, NEW c \in Codes, StartResend(r, c) PROVE OneHolder'
  BY <1>7 DEF TypeOK, Known, KnownAt, Registered, OneHolder, EmailFree, MobileFree, Applicants, StartResend
<1>8. ASSUME NEW r \in Requests, Resend(r) PROVE OneHolder'
  BY <1>8 DEF TypeOK, Known, KnownAt, Registered, OneHolder, EmailFree, MobileFree, Applicants, Resend, Issue, Done
<1>9. ASSUME NEW r \in Requests, NEW c \in Codes, VerifyMobile(r, c) PROVE OneHolder'
  BY <1>9 DEF TypeOK, Known, KnownAt, Registered, OneHolder, EmailFree, MobileFree, Applicants, VerifyMobile, PresentCode
<1>10. ASSUME NEW r \in Requests, NEW c \in Codes, NEW m \in Members, VerifyEmail(r, c, m) PROVE OneHolder'
  BY <1>10 DEF TypeOK, Known, KnownAt, Registered, OneHolder, EmailFree, MobileFree, Applicants, VerifyEmail, PresentCode
<1>11. ASSUME NEW r \in Requests, WrongCode(r) PROVE OneHolder'
  BY <1>11 DEF TypeOK, Known, KnownAt, Registered, OneHolder, EmailFree, MobileFree, Applicants, WrongCode, Done
<1>12. ASSUME NEW r \in Requests, RightMobileCode(r) PROVE OneHolder'
  BY <1>12 DEF TypeOK, Known, KnownAt, Registered, OneHolder, EmailFree, MobileFree, Applicants, RightMobileCode
<1>13. ASSUME NEW r \in Requests, RightEmailCode(r) PROVE OneHolder'
  BY <1>13 DEF TypeOK, Known, KnownAt, Registered, OneHolder, EmailFree, MobileFree, Applicants, RightEmailCode, Done
<1>14. ASSUME NEW r \in Requests, MarkMobile(r) PROVE OneHolder'
  BY <1>14 DEF TypeOK, Known, KnownAt, Registered, OneHolder, EmailFree, MobileFree, Applicants, MarkMobile, Done
<1>15. ASSUME NEW r \in Requests, ConfirmEmail(r) PROVE OneHolder'
  BY <1>15 DEF TypeOK, Known, KnownAt, Registered, OneHolder, EmailFree, MobileFree, Applicants, ConfirmEmail, ApplyDecision, Done
<1>16. ASSUME NEW r \in Requests, ReadAddress(r) PROVE OneHolder'
  BY <1>16 DEF TypeOK, Known, KnownAt, Registered, OneHolder, EmailFree, MobileFree, Applicants, ReadAddress, Done
<1>17. ASSUME NEW r \in Requests, MailCode(r) PROVE OneHolder'
  BY <1>17 DEF TypeOK, Known, KnownAt, Registered, OneHolder, EmailFree, MobileFree, Applicants, MailCode, Issue, Done
<1>18. ASSUME NEW r \in Requests, NEW m \in Members, StartSend(r, m) PROVE OneHolder'
  BY <1>18 DEF TypeOK, Known, KnownAt, Registered, OneHolder, EmailFree, MobileFree, Applicants, StartSend
<1>19. ASSUME NEW r \in Requests, NEW m \in Members, NEW e \in Emails, ChangeEmail(r, m, e) PROVE OneHolder'
  BY <1>19 DEF TypeOK, Known, KnownAt, Registered, OneHolder, EmailFree, MobileFree, Applicants, ChangeEmail
<1>20. ASSUME NEW m \in Members, NEW v \in Verdicts, Decide(m, v) PROVE OneHolder'
  BY <1>20 DEF TypeOK, Known, KnownAt, Registered, OneHolder, EmailFree, MobileFree, Applicants, Decide, ApplyDecision
<1>21. CASE StartAutoApprove
  BY <1>21 DEF TypeOK, Known, KnownAt, Registered, OneHolder, EmailFree, MobileFree, Applicants, StartAutoApprove
<1>22. ASSUME NEW m \in due, Approves(m) PROVE OneHolder'
  BY <1>22 DEF TypeOK, Known, KnownAt, Registered, OneHolder, EmailFree, MobileFree, Applicants, Approves, ApplyDecision
<1>23. CASE JobFails
  BY <1>23 DEF TypeOK, Known, KnownAt, Registered, OneHolder, EmailFree, MobileFree, Applicants, JobFails
<1>24. ASSUME NEW c \in Codes, NEW e \in Emails, NEW p \in Mobiles, ChangeContact(c, e, p) PROVE OneHolder'
  BY <1>24 DEF TypeOK, Known, KnownAt, Registered, OneHolder, EmailFree, MobileFree, Applicants, ChangeContact, Issue, ContactEditable, CodesKnown
<1>25. ASSUME NEW c \in Codes, Lapse(c) PROVE OneHolder'
  BY <1>25 DEF TypeOK, Known, KnownAt, Registered, OneHolder, EmailFree, MobileFree, Applicants, Lapse
<1>26. CASE Cleanup
  BY <1>26 DEF TypeOK, Known, KnownAt, Registered, OneHolder, EmailFree, MobileFree, Applicants, Cleanup
<1>27. ASSUME NEW m \in Members, TimePasses(m) PROVE OneHolder'
  BY <1>27 DEF TypeOK, Known, KnownAt, Registered, OneHolder, EmailFree, MobileFree, Applicants, TimePasses
<1> QED
  BY <1>1, <1>2, <1>3, <1>4, <1>5, <1>6, <1>7, <1>8, <1>9, <1>10, <1>11, <1>12, <1>13, <1>14, <1>15, <1>16, <1>17, <1>18, <1>19, <1>20, <1>21, <1>22, <1>23, <1>24, <1>25, <1>26, <1>27, EveryStep

\* What the job read stays true until it comes to it.
LEMMA SettledPreserved == TypeOK /\ CodesKnown /\ Known /\ CompleteTogether /\ Registered /\ Settled /\ [Next]_vars => Settled'
<1> SUFFICES ASSUME TypeOK, CodesKnown, Known, CompleteTogether, Registered, Settled, [Next]_vars PROVE Settled'
  OBVIOUS
<1> USE OnboardingAssumption DEF contact, application, codes, locals, history
<1>1. CASE UNCHANGED vars
  BY <1>1 DEF vars, TypeOK, Known, KnownAt, Registered, Settled, CompleteTogether, Applicants
<1>2. ASSUME NEW r \in Requests, NEW e \in Emails, NEW p \in Mobiles, NEW l \in Languages, StartRegister(r, e, p, l) PROVE Settled'
  BY <1>2 DEF TypeOK, Known, KnownAt, Registered, Settled, CompleteTogether, Applicants, StartRegister
<1>3. ASSUME NEW r \in Requests, NEW m \in Members, Inserts(r, m) PROVE Settled'
  BY <1>3 DEF TypeOK, Known, KnownAt, Registered, Settled, CompleteTogether, Applicants, Inserts, Issue, Done
<1>4. ASSUME NEW r \in Requests, GivesUp(r) PROVE Settled'
  <2>1. Done(r) /\ UNCHANGED <<contact, application, code, due>>
    BY <1>4 DEF GivesUp, InsertConflict, ResumeConflict, Crash
  <2> QED
    BY <2>1 DEF TypeOK, Done, Settled
<1>5. ASSUME NEW r \in Requests, NEW m \in Members, NEW p \in Mobiles, NEW l \in Languages, StartResume(r, m, p, l) PROVE Settled'
  BY <1>5 DEF TypeOK, Known, KnownAt, Registered, Settled, CompleteTogether, Applicants, StartResume
<1>6. ASSUME NEW r \in Requests, Resume(r) PROVE Settled'
  BY <1>6 DEF TypeOK, Known, KnownAt, Registered, Settled, CompleteTogether, Applicants, Resume, Issue, Done
<1>7. ASSUME NEW r \in Requests, NEW c \in Codes, StartResend(r, c) PROVE Settled'
  BY <1>7 DEF TypeOK, Known, KnownAt, Registered, Settled, CompleteTogether, Applicants, StartResend
<1>8. ASSUME NEW r \in Requests, Resend(r) PROVE Settled'
  BY <1>8 DEF TypeOK, Known, KnownAt, Registered, Settled, CompleteTogether, Applicants, Resend, Issue, Done
<1>9. ASSUME NEW r \in Requests, NEW c \in Codes, VerifyMobile(r, c) PROVE Settled'
  BY <1>9 DEF TypeOK, Known, KnownAt, Registered, Settled, CompleteTogether, Applicants, VerifyMobile, PresentCode
<1>10. ASSUME NEW r \in Requests, NEW c \in Codes, NEW m \in Members, VerifyEmail(r, c, m) PROVE Settled'
  BY <1>10 DEF TypeOK, Known, KnownAt, Registered, Settled, CompleteTogether, Applicants, VerifyEmail, PresentCode
<1>11. ASSUME NEW r \in Requests, WrongCode(r) PROVE Settled'
  BY <1>11 DEF TypeOK, Known, KnownAt, Registered, Settled, CompleteTogether, Applicants, WrongCode, Done
<1>12. ASSUME NEW r \in Requests, RightMobileCode(r) PROVE Settled'
  BY <1>12 DEF TypeOK, Known, KnownAt, Registered, Settled, CompleteTogether, Applicants, RightMobileCode
<1>13. ASSUME NEW r \in Requests, RightEmailCode(r) PROVE Settled'
  BY <1>13 DEF TypeOK, Known, KnownAt, Registered, Settled, CompleteTogether, Applicants, RightEmailCode, Done
<1>14. ASSUME NEW r \in Requests, MarkMobile(r) PROVE Settled'
  BY <1>14 DEF TypeOK, Known, KnownAt, Registered, Settled, CompleteTogether, Applicants, MarkMobile, Done
<1>15. ASSUME NEW r \in Requests, ConfirmEmail(r) PROVE Settled'
  BY <1>15 DEF TypeOK, Known, KnownAt, Registered, Settled, CompleteTogether, Applicants, ConfirmEmail, ApplyDecision, Done
<1>16. ASSUME NEW r \in Requests, ReadAddress(r) PROVE Settled'
  <2>1. CASE ~confirmed[who[r]]
    <3>1. /\ Goto(r, "mail") /\ UNCHANGED who
          /\ UNCHANGED <<contact, application, due>>
      BY <1>16, <2>1 DEF ReadAddress
    <3> QED
      BY <3>1 DEF TypeOK, Settled
  <2>2. CASE ~(~confirmed[who[r]])
    <3>1. Done(r) /\ UNCHANGED <<contact, application, due>>
      BY <1>16, <2>2 DEF ReadAddress
    <3> QED
      BY <3>1 DEF TypeOK, Done, Settled
  <2> QED
    BY <2>1, <2>2
<1>17. ASSUME NEW r \in Requests, MailCode(r) PROVE Settled'
  BY <1>17 DEF TypeOK, Known, KnownAt, Registered, Settled, CompleteTogether, Applicants, MailCode, Issue, Done
<1>18. ASSUME NEW r \in Requests, NEW m \in Members, StartSend(r, m) PROVE Settled'
  BY <1>18 DEF TypeOK, Known, KnownAt, Registered, Settled, CompleteTogether, Applicants, StartSend
<1>19. ASSUME NEW r \in Requests, NEW m \in Members, NEW e \in Emails, ChangeEmail(r, m, e) PROVE Settled'
  BY <1>19 DEF TypeOK, Known, KnownAt, Registered, Settled, CompleteTogether, Applicants, ChangeEmail
<1>20. ASSUME NEW m \in Members, NEW v \in Verdicts, Decide(m, v) PROVE Settled'
  BY <1>20 DEF TypeOK, Known, KnownAt, Registered, Settled, CompleteTogether, Applicants, Decide, ApplyDecision
<1>21. CASE StartAutoApprove
  BY <1>21 DEF TypeOK, Known, KnownAt, Registered, Settled, CompleteTogether, Applicants, StartAutoApprove, Due
<1>22. ASSUME NEW m \in due, Approves(m) PROVE Settled'
  BY <1>22 DEF TypeOK, Known, KnownAt, Registered, Settled, CompleteTogether, Applicants, Approves, ApplyDecision, Decidable
<1>23. CASE JobFails
  BY <1>23 DEF TypeOK, Known, KnownAt, Registered, Settled, CompleteTogether, Applicants, JobFails
<1>24. ASSUME NEW c \in Codes, NEW e \in Emails, NEW p \in Mobiles, ChangeContact(c, e, p) PROVE Settled'
  BY <1>24 DEF TypeOK, Known, KnownAt, Registered, Settled, CompleteTogether, Applicants, ChangeContact, Issue
<1>25. ASSUME NEW c \in Codes, Lapse(c) PROVE Settled'
  BY <1>25 DEF TypeOK, Known, KnownAt, Registered, Settled, CompleteTogether, Applicants, Lapse
<1>26. CASE Cleanup
  BY <1>26 DEF TypeOK, Known, KnownAt, Registered, Settled, CompleteTogether, Applicants, Cleanup
<1>27. ASSUME NEW m \in Members, TimePasses(m) PROVE Settled'
  BY <1>27 DEF TypeOK, Known, KnownAt, Registered, Settled, CompleteTogether, Applicants, TimePasses
<1> QED
  BY <1>1, <1>2, <1>3, <1>4, <1>5, <1>6, <1>7, <1>8, <1>9, <1>10, <1>11, <1>12, <1>13, <1>14, <1>15, <1>16, <1>17, <1>18, <1>19, <1>20, <1>21, <1>22, <1>23, <1>24, <1>25, <1>26, <1>27, EveryStep

\* A code for the address is issued to somebody who had to be verified.
LEMMA AddressCodesPreserved ==
    TypeOK /\ CodesKnown /\ Known /\ Registered /\ AddressCodes /\ [Next]_vars => AddressCodes'
<1> SUFFICES ASSUME TypeOK, CodesKnown, Known, Registered, AddressCodes, [Next]_vars PROVE AddressCodes'
  OBVIOUS
<1> USE OnboardingAssumption DEF contact, application, codes, locals, history
<1>1. CASE UNCHANGED vars
  BY <1>1 DEF vars, TypeOK, CodesKnown, Known, KnownAt, AddressCodes, Registered, Applicants
<1>2. ASSUME NEW r \in Requests, NEW e \in Emails, NEW p \in Mobiles, NEW l \in Languages, StartRegister(r, e, p, l) PROVE AddressCodes'
  BY <1>2 DEF TypeOK, CodesKnown, Known, KnownAt, AddressCodes, Registered, Applicants, StartRegister
<1>3. ASSUME NEW r \in Requests, NEW m \in Members, Inserts(r, m) PROVE AddressCodes'
  BY <1>3 DEF TypeOK, CodesKnown, Known, KnownAt, AddressCodes, Registered, Applicants, Inserts, Issue, Done
<1>4. ASSUME NEW r \in Requests, GivesUp(r) PROVE AddressCodes'
  BY <1>4 DEF TypeOK, CodesKnown, Known, KnownAt, AddressCodes, Registered, Applicants, GivesUp, InsertConflict, ResumeConflict, Crash, Done
<1>5. ASSUME NEW r \in Requests, NEW m \in Members, NEW p \in Mobiles, NEW l \in Languages, StartResume(r, m, p, l) PROVE AddressCodes'
  BY <1>5 DEF TypeOK, CodesKnown, Known, KnownAt, AddressCodes, Registered, Applicants, StartResume
<1>6. ASSUME NEW r \in Requests, Resume(r) PROVE AddressCodes'
  BY <1>6 DEF TypeOK, CodesKnown, Known, KnownAt, AddressCodes, Registered, Applicants, Resume, Issue, Done
<1>7. ASSUME NEW r \in Requests, NEW c \in Codes, StartResend(r, c) PROVE AddressCodes'
  BY <1>7 DEF TypeOK, CodesKnown, Known, KnownAt, AddressCodes, Registered, Applicants, StartResend
<1>8. ASSUME NEW r \in Requests, Resend(r) PROVE AddressCodes'
  BY <1>8 DEF TypeOK, CodesKnown, Known, KnownAt, AddressCodes, Registered, Applicants, Resend, Issue, Done, Resent
<1>9. ASSUME NEW r \in Requests, NEW c \in Codes, VerifyMobile(r, c) PROVE AddressCodes'
  BY <1>9 DEF TypeOK, CodesKnown, Known, KnownAt, AddressCodes, Registered, Applicants, VerifyMobile, PresentCode
<1>10. ASSUME NEW r \in Requests, NEW c \in Codes, NEW m \in Members, VerifyEmail(r, c, m) PROVE AddressCodes'
  BY <1>10 DEF TypeOK, CodesKnown, Known, KnownAt, AddressCodes, Registered, Applicants, VerifyEmail, PresentCode
<1>11. ASSUME NEW r \in Requests, WrongCode(r) PROVE AddressCodes'
  BY <1>11 DEF TypeOK, CodesKnown, Known, KnownAt, AddressCodes, Registered, Applicants, WrongCode, AfterMiss, Done
<1>12. ASSUME NEW r \in Requests, RightMobileCode(r) PROVE AddressCodes'
  BY <1>12 DEF TypeOK, CodesKnown, Known, KnownAt, AddressCodes, Registered, Applicants, RightMobileCode
<1>13. ASSUME NEW r \in Requests, RightEmailCode(r) PROVE AddressCodes'
  BY <1>13 DEF TypeOK, CodesKnown, Known, KnownAt, AddressCodes, Registered, Applicants, RightEmailCode, Done
<1>14. ASSUME NEW r \in Requests, MarkMobile(r) PROVE AddressCodes'
  BY <1>14 DEF TypeOK, CodesKnown, Known, KnownAt, AddressCodes, Registered, Applicants, MarkMobile, Done
<1>15. ASSUME NEW r \in Requests, ConfirmEmail(r) PROVE AddressCodes'
  BY <1>15 DEF TypeOK, CodesKnown, Known, KnownAt, AddressCodes, Registered, Applicants, ConfirmEmail, ApplyDecision, Done
<1>16. ASSUME NEW r \in Requests, ReadAddress(r) PROVE AddressCodes'
  BY <1>16 DEF TypeOK, CodesKnown, Known, KnownAt, AddressCodes, Registered, Applicants, ReadAddress, Done
<1>17. ASSUME NEW r \in Requests, MailCode(r) PROVE AddressCodes'
  BY <1>17 DEF TypeOK, CodesKnown, Known, KnownAt, AddressCodes, Registered, Applicants, MailCode, Issue, Done
<1>18. ASSUME NEW r \in Requests, NEW m \in Members, StartSend(r, m) PROVE AddressCodes'
  BY <1>18 DEF TypeOK, CodesKnown, Known, KnownAt, AddressCodes, Registered, Applicants, StartSend
<1>19. ASSUME NEW r \in Requests, NEW m \in Members, NEW e \in Emails, ChangeEmail(r, m, e) PROVE AddressCodes'
  BY <1>19 DEF TypeOK, CodesKnown, Known, KnownAt, AddressCodes, Registered, Applicants, ChangeEmail
<1>20. ASSUME NEW m \in Members, NEW v \in Verdicts, Decide(m, v) PROVE AddressCodes'
  BY <1>20 DEF TypeOK, CodesKnown, Known, KnownAt, AddressCodes, Registered, Applicants, Decide, ApplyDecision
<1>21. CASE StartAutoApprove
  BY <1>21 DEF TypeOK, CodesKnown, Known, KnownAt, AddressCodes, Registered, Applicants, StartAutoApprove
<1>22. ASSUME NEW m \in due, Approves(m) PROVE AddressCodes'
  BY <1>22 DEF TypeOK, CodesKnown, Known, KnownAt, AddressCodes, Registered, Applicants, Approves, ApplyDecision
<1>23. CASE JobFails
  BY <1>23 DEF TypeOK, CodesKnown, Known, KnownAt, AddressCodes, Registered, Applicants, JobFails
<1>24. ASSUME NEW c \in Codes, NEW e \in Emails, NEW p \in Mobiles, ChangeContact(c, e, p) PROVE AddressCodes'
  BY <1>24 DEF TypeOK, CodesKnown, Known, KnownAt, AddressCodes, Registered, Applicants, ChangeContact, ContactEditable, Issue
<1>25. ASSUME NEW c \in Codes, Lapse(c) PROVE AddressCodes'
  BY <1>25 DEF TypeOK, CodesKnown, Known, KnownAt, AddressCodes, Registered, Applicants, Lapse
<1>26. CASE Cleanup
  BY <1>26 DEF TypeOK, CodesKnown, Known, KnownAt, AddressCodes, Registered, Applicants, Cleanup
<1>27. ASSUME NEW m \in Members, TimePasses(m) PROVE AddressCodes'
  BY <1>27 DEF TypeOK, CodesKnown, Known, KnownAt, AddressCodes, Registered, Applicants, TimePasses
<1> QED
  BY <1>1, <1>2, <1>3, <1>4, <1>5, <1>6, <1>7, <1>8, <1>9, <1>10, <1>11, <1>12, <1>13, <1>14, <1>15, <1>16, <1>17, <1>18, <1>19, <1>20, <1>21, <1>22, <1>23, <1>24, <1>25, <1>26, <1>27, EveryStep

\* What proves an address was sent there, unless a handler held the one before.
LEMMA EmailsPreserved ==
    TypeOK /\ CodesKnown /\ Known /\ Registered /\ CompleteTogether /\ AddressCodes /\ EmailsKept /\ [Next]_vars => EmailsKept'
<1> SUFFICES ASSUME TypeOK, CodesKnown, Known, Registered, CompleteTogether, AddressCodes, EmailsKept, [Next]_vars PROVE EmailsKept'
  OBVIOUS
<1> USE OnboardingAssumption DEF contact, application, codes, locals, history
<1>1. CASE UNCHANGED vars
  BY <1>1 DEF vars, TypeOK, CodesKnown, Known, KnownAt, EmailsKept, EmailKept
<1>2. ASSUME NEW r \in Requests, NEW e \in Emails, NEW p \in Mobiles, NEW l \in Languages, StartRegister(r, e, p, l) PROVE EmailsKept'
  BY <1>2 DEF TypeOK, CodesKnown, Known, KnownAt, EmailsKept, EmailKept, StartRegister
<1>3. ASSUME NEW r \in Requests, NEW m \in Members, Inserts(r, m) PROVE EmailsKept'
  <2>1. /\ m \notin Applicants /\ email' = [email EXCEPT ![m] = mail[r]]
        /\ Issue(m, "mobile", addr[r]) /\ code' = Opened /\ Done(r)
        /\ UNCHANGED <<confirmed, history>>
    BY <1>3 DEF Inserts
  <2>2. /\ \A c \in Codes : code'[c] \in Usable /\ purpose'[c] = "email" =>
              /\ code[c] \in Usable /\ purpose[c] = "email"
              /\ holder'[c] = holder[c] /\ holder[c] # m /\ sentTo'[c] = sentTo[c]
        /\ \A q \in Requests : pc'[q] \in {"mail", "confirm"} =>
              /\ pc'[q] = pc[q] /\ who'[q] = who[q] /\ who[q] # m /\ addr'[q] = addr[q]
              /\ pc[q] = "confirm" => sentTo'[chal'[q]] = sentTo[chal[q]]
        /\ ~confirmed[m]
    BY <2>1 DEF TypeOK, CodesKnown, Known, KnownAt, Registered, Issue, Done
  <2>3. \A n \in Members : n # m => email'[n] = email[n]
    BY <2>1 DEF TypeOK
  <2> SUFFICES ASSUME NEW n \in Members, <<n, "email">> \notin outrun' PROVE EmailKept(n)'
    BY DEF EmailsKept
  <2>8. CASE n = m
    BY <2>1, <2>2, <2>3, <2>8 DEF EmailKept
  <2>9. CASE n # m
    <3>1. EmailKept(n)
      BY <2>1 DEF EmailsKept
    <3> QED
      BY <2>1, <2>2, <2>3, <2>9, <3>1 DEF EmailKept
  <2> QED
    BY <2>8, <2>9
<1>4. ASSUME NEW r \in Requests, GivesUp(r) PROVE EmailsKept'
  <2>1. Done(r) /\ UNCHANGED <<contact, verified, confirmed, codes, history>>
    BY <1>4 DEF GivesUp, InsertConflict, ResumeConflict, Crash
  <2> QED
    BY <2>1 DEF TypeOK, EmailsKept, EmailKept, Done
<1>5. ASSUME NEW r \in Requests, NEW m \in Members, NEW p \in Mobiles, NEW l \in Languages, StartResume(r, m, p, l) PROVE EmailsKept'
  BY <1>5 DEF TypeOK, CodesKnown, Known, KnownAt, EmailsKept, EmailKept, StartResume
<1>6. ASSUME NEW r \in Requests, Resume(r) PROVE EmailsKept'
  BY <1>6 DEF TypeOK, CodesKnown, Known, KnownAt, EmailsKept, EmailKept, Resume, Issue, Done, Outrun
<1>7. ASSUME NEW r \in Requests, NEW c \in Codes, StartResend(r, c) PROVE EmailsKept'
  BY <1>7 DEF TypeOK, CodesKnown, Known, KnownAt, EmailsKept, EmailKept, StartResend
<1>8. ASSUME NEW r \in Requests, Resend(r) PROVE EmailsKept'
  BY <1>8 DEF TypeOK, CodesKnown, Known, KnownAt, EmailsKept, EmailKept, Resend, Issue, Done, Resent
<1>9. ASSUME NEW r \in Requests, NEW c \in Codes, VerifyMobile(r, c) PROVE EmailsKept'
  BY <1>9 DEF TypeOK, CodesKnown, Known, KnownAt, EmailsKept, EmailKept, VerifyMobile, PresentCode
<1>10. ASSUME NEW r \in Requests, NEW c \in Codes, NEW m \in Members, VerifyEmail(r, c, m) PROVE EmailsKept'
  BY <1>10 DEF TypeOK, CodesKnown, Known, KnownAt, EmailsKept, EmailKept, VerifyEmail, PresentCode
<1>11. ASSUME NEW r \in Requests, WrongCode(r) PROVE EmailsKept'
  BY <1>11 DEF TypeOK, CodesKnown, Known, KnownAt, EmailsKept, EmailKept, WrongCode, AfterMiss, Done
<1>12. ASSUME NEW r \in Requests, RightMobileCode(r) PROVE EmailsKept'
  BY <1>12 DEF TypeOK, CodesKnown, Known, KnownAt, EmailsKept, EmailKept, RightMobileCode
<1>13. ASSUME NEW r \in Requests, RightEmailCode(r) PROVE EmailsKept'
  BY <1>13 DEF TypeOK, CodesKnown, Known, KnownAt, EmailsKept, EmailKept, RightEmailCode, Done
<1>14. ASSUME NEW r \in Requests, MarkMobile(r) PROVE EmailsKept'
  BY <1>14 DEF TypeOK, CodesKnown, Known, KnownAt, EmailsKept, EmailKept, MarkMobile, Done
<1>15. ASSUME NEW r \in Requests, ConfirmEmail(r) PROVE EmailsKept'
  BY <1>15 DEF TypeOK, CodesKnown, Known, KnownAt, EmailsKept, EmailKept, ConfirmEmail, ApplyDecision, Done
<1>16. ASSUME NEW r \in Requests, ReadAddress(r) PROVE EmailsKept'
  <2>1. CASE confirmed[who[r]]
    <3>1. Done(r) /\ UNCHANGED <<contact, confirmed, codes, history>>
      BY <1>16, <2>1 DEF ReadAddress
    <3> QED
      BY <3>1 DEF TypeOK, EmailsKept, EmailKept, Done
  <2>2. CASE ~confirmed[who[r]]
    <3>1. /\ addr' = [addr EXCEPT ![r] = email[who[r]]] /\ Goto(r, "mail")
          /\ UNCHANGED <<who, chal, contact, confirmed, codes, history>>
      BY <1>16, <2>2 DEF ReadAddress
    <3> QED
      BY <3>1 DEF TypeOK, EmailsKept, EmailKept
  <2> QED
    BY <2>1, <2>2
<1>17. ASSUME NEW r \in Requests, MailCode(r) PROVE EmailsKept'
  BY <1>17 DEF TypeOK, CodesKnown, Known, KnownAt, EmailsKept, EmailKept, MailCode, Issue, Done
<1>18. ASSUME NEW r \in Requests, NEW m \in Members, StartSend(r, m) PROVE EmailsKept'
  BY <1>18 DEF TypeOK, CodesKnown, Known, KnownAt, EmailsKept, EmailKept, StartSend
<1>19. ASSUME NEW r \in Requests, NEW m \in Members, NEW e \in Emails, ChangeEmail(r, m, e) PROVE EmailsKept'
  BY <1>19 DEF TypeOK, CodesKnown, Known, KnownAt, EmailsKept, EmailKept, ChangeEmail, Outrun, EmailAtWork
<1>20. ASSUME NEW m \in Members, NEW v \in Verdicts, Decide(m, v) PROVE EmailsKept'
  BY <1>20 DEF TypeOK, CodesKnown, Known, KnownAt, EmailsKept, EmailKept, Decide, ApplyDecision
<1>21. CASE StartAutoApprove
  BY <1>21 DEF TypeOK, CodesKnown, Known, KnownAt, EmailsKept, EmailKept, StartAutoApprove
<1>22. ASSUME NEW m \in due, Approves(m) PROVE EmailsKept'
  BY <1>22 DEF TypeOK, CodesKnown, Known, KnownAt, EmailsKept, EmailKept, Approves, ApplyDecision
<1>23. CASE JobFails
  BY <1>23 DEF TypeOK, CodesKnown, Known, KnownAt, EmailsKept, EmailKept, JobFails
<1>24. ASSUME NEW c \in Codes, NEW e \in Emails, NEW p \in Mobiles, ChangeContact(c, e, p) PROVE EmailsKept'
  <2>1. /\ ~verified[holder[c]] /\ email' = [email EXCEPT ![holder[c]] = e]
        /\ Issue(holder[c], "mobile", p) /\ code' = [Opened EXCEPT ![c] = "spent"]
        /\ UNCHANGED <<confirmed, locals, proof>>
    BY <1>24 DEF ChangeContact, ContactEditable, Outrun
  <2>2. outrun \subseteq outrun'
    BY <1>24 DEF ChangeContact, Outrun
  <2>3. /\ \A d \in Codes : code'[d] \in Usable /\ purpose'[d] = "email" =>
              /\ code[d] \in Usable /\ purpose[d] = "email" /\ holder'[d] = holder[d]
              /\ holder[d] # holder[c] /\ sentTo'[d] = sentTo[d]
        /\ \A q \in Requests : pc[q] \in {"mail", "confirm"} =>
              /\ who[q] # holder[c]
              /\ pc[q] = "confirm" => sentTo'[chal[q]] = sentTo[chal[q]]
        /\ ~confirmed[holder[c]]
    BY <2>1, <1>24 DEF TypeOK, CodesKnown, Known, KnownAt, AddressCodes, CompleteTogether, Applicants, Issue, ContactEditable, ChangeContact
  <2>4. \A n \in Members : n # holder[c] => email'[n] = email[n]
    BY <2>1 DEF TypeOK
  <2> SUFFICES ASSUME NEW n \in Members, <<n, "email">> \notin outrun' PROVE EmailKept(n)'
    BY DEF EmailsKept
  <2>8. CASE n = holder[c]
    BY <2>1, <2>3, <2>4, <2>8 DEF EmailKept
  <2>9. CASE n # holder[c]
    <3>1. EmailKept(n)
      BY <2>2 DEF EmailsKept
    <3> QED
      BY <2>1, <2>3, <2>4, <2>9, <3>1 DEF EmailKept
  <2> QED
    BY <2>8, <2>9
<1>25. ASSUME NEW c \in Codes, Lapse(c) PROVE EmailsKept'
  BY <1>25 DEF TypeOK, CodesKnown, Known, KnownAt, EmailsKept, EmailKept, Lapse
<1>26. CASE Cleanup
  BY <1>26 DEF TypeOK, CodesKnown, Known, KnownAt, EmailsKept, EmailKept, Cleanup
<1>27. ASSUME NEW m \in Members, TimePasses(m) PROVE EmailsKept'
  BY <1>27 DEF TypeOK, CodesKnown, Known, KnownAt, EmailsKept, EmailKept, TimePasses
<1> QED
  BY <1>1, <1>2, <1>3, <1>4, <1>5, <1>6, <1>7, <1>8, <1>9, <1>10, <1>11, <1>12, <1>13, <1>14, <1>15, <1>16, <1>17, <1>18, <1>19, <1>20, <1>21, <1>22, <1>23, <1>24, <1>25, <1>26, <1>27, EveryStep

\* What proves a number was sent there, unless something of the one before was out.
LEMMA MobilesPreserved ==
    TypeOK /\ CodesKnown /\ Known /\ Registered /\ MobilesKept /\ [Next]_vars => MobilesKept'
<1> SUFFICES ASSUME TypeOK, CodesKnown, Known, Registered, MobilesKept, [Next]_vars PROVE MobilesKept'
  OBVIOUS
<1> USE OnboardingAssumption DEF contact, application, codes, locals, history
<1>1. CASE UNCHANGED vars
  BY <1>1 DEF vars, TypeOK, CodesKnown, Known, KnownAt, MobilesKept, MobileKept
<1>2. ASSUME NEW r \in Requests, NEW e \in Emails, NEW p \in Mobiles, NEW l \in Languages, StartRegister(r, e, p, l) PROVE MobilesKept'
  BY <1>2 DEF TypeOK, CodesKnown, Known, KnownAt, MobilesKept, MobileKept, StartRegister
<1>3. ASSUME NEW r \in Requests, NEW m \in Members, Inserts(r, m) PROVE MobilesKept'
  <2>1. /\ m \notin Applicants /\ mobile' = [mobile EXCEPT ![m] = addr[r]]
        /\ Issue(m, "mobile", addr[r]) /\ code' = Opened /\ Done(r)
        /\ UNCHANGED <<verified, history>>
    BY <1>3 DEF Inserts
  <2>2. /\ \A c \in Codes : code'[c] \in Usable /\ purpose'[c] = "mobile" =>
              \/ holder'[c] = m /\ sentTo'[c] = addr[r]
              \/ /\ code[c] \in Usable /\ purpose[c] = "mobile"
                 /\ holder'[c] = holder[c] /\ holder[c] # m /\ sentTo'[c] = sentTo[c]
        /\ \A q \in Requests : pc'[q] \in {"resend", "mark"} =>
              /\ pc'[q] = pc[q] /\ who'[q] = who[q] /\ chal'[q] = chal[q] /\ addr'[q] = addr[q]
              /\ holder'[chal[q]] = holder[chal[q]] /\ sentTo'[chal[q]] = sentTo[chal[q]]
              /\ pc[q] = "resend" => holder[chal[q]] # m
              /\ pc[q] = "mark" => who[q] # m
        /\ ~verified[m]
    BY <2>1 DEF TypeOK, CodesKnown, Known, KnownAt, Registered, Issue, Done
  <2>3. mobile'[m] = addr[r] /\ \A n \in Members \ {m} : mobile'[n] = mobile[n]
    BY <2>1 DEF TypeOK
  <2> SUFFICES ASSUME NEW n \in Members, <<n, "mobile">> \notin outrun' PROVE MobileKept(n)'
    BY DEF MobilesKept
  <2>8. CASE n = m
    BY <2>1, <2>2, <2>3, <2>8 DEF MobileKept
  <2>9. CASE n # m
    <3>1. MobileKept(n)
      BY <2>1 DEF MobilesKept
    <3> QED
      BY <2>1, <2>2, <2>3, <2>9, <3>1 DEF MobileKept
  <2> QED
    BY <2>8, <2>9
<1>4. ASSUME NEW r \in Requests, GivesUp(r) PROVE MobilesKept'
  <2>1. Done(r) /\ UNCHANGED <<contact, verified, confirmed, codes, history>>
    BY <1>4 DEF GivesUp, InsertConflict, ResumeConflict, Crash
  <2> QED
    BY <2>1 DEF TypeOK, MobilesKept, MobileKept, Done
<1>5. ASSUME NEW r \in Requests, NEW m \in Members, NEW p \in Mobiles, NEW l \in Languages, StartResume(r, m, p, l) PROVE MobilesKept'
  BY <1>5 DEF TypeOK, CodesKnown, Known, KnownAt, MobilesKept, MobileKept, StartResume
<1>6. ASSUME NEW r \in Requests, Resume(r) PROVE MobilesKept'
  BY <1>6 DEF TypeOK, CodesKnown, Known, KnownAt, MobilesKept, MobileKept, Resume, Issue, Done, Outrun, MobileAtWork
<1>7. ASSUME NEW r \in Requests, NEW c \in Codes, StartResend(r, c) PROVE MobilesKept'
  BY <1>7 DEF TypeOK, CodesKnown, Known, KnownAt, MobilesKept, MobileKept, StartResend
<1>8. ASSUME NEW r \in Requests, Resend(r) PROVE MobilesKept'
  BY <1>8 DEF TypeOK, CodesKnown, Known, KnownAt, MobilesKept, MobileKept, Resend, Issue, Done, Resent
<1>9. ASSUME NEW r \in Requests, NEW c \in Codes, VerifyMobile(r, c) PROVE MobilesKept'
  BY <1>9 DEF TypeOK, CodesKnown, Known, KnownAt, MobilesKept, MobileKept, VerifyMobile, PresentCode
<1>10. ASSUME NEW r \in Requests, NEW c \in Codes, NEW m \in Members, VerifyEmail(r, c, m) PROVE MobilesKept'
  BY <1>10 DEF TypeOK, CodesKnown, Known, KnownAt, MobilesKept, MobileKept, VerifyEmail, PresentCode
<1>11. ASSUME NEW r \in Requests, WrongCode(r) PROVE MobilesKept'
  BY <1>11 DEF TypeOK, CodesKnown, Known, KnownAt, MobilesKept, MobileKept, WrongCode, AfterMiss, Done
<1>12. ASSUME NEW r \in Requests, RightMobileCode(r) PROVE MobilesKept'
  BY <1>12 DEF TypeOK, CodesKnown, Known, KnownAt, MobilesKept, MobileKept, RightMobileCode
<1>13. ASSUME NEW r \in Requests, RightEmailCode(r) PROVE MobilesKept'
  <2>1. /\ code' = [code EXCEPT ![chal[r]] = "spent"]
        /\ UNCHANGED <<contact, verified, holder, purpose, sentTo, history>>
        /\ Done(r) \/ (Goto(r, "confirm") /\ UNCHANGED <<who, chal, addr>>)
    BY <1>13 DEF RightEmailCode
  <2> QED
    BY <2>1 DEF TypeOK, MobilesKept, MobileKept, Done
<1>14. ASSUME NEW r \in Requests, MarkMobile(r) PROVE MobilesKept'
  BY <1>14 DEF TypeOK, CodesKnown, Known, KnownAt, MobilesKept, MobileKept, MarkMobile, Done
<1>15. ASSUME NEW r \in Requests, ConfirmEmail(r) PROVE MobilesKept'
  BY <1>15 DEF TypeOK, CodesKnown, Known, KnownAt, MobilesKept, MobileKept, ConfirmEmail, ApplyDecision, Done
<1>16. ASSUME NEW r \in Requests, ReadAddress(r) PROVE MobilesKept'
  BY <1>16 DEF TypeOK, CodesKnown, Known, KnownAt, MobilesKept, MobileKept, ReadAddress, Done
<1>17. ASSUME NEW r \in Requests, MailCode(r) PROVE MobilesKept'
  BY <1>17 DEF TypeOK, CodesKnown, Known, KnownAt, MobilesKept, MobileKept, MailCode, Issue, Done
<1>18. ASSUME NEW r \in Requests, NEW m \in Members, StartSend(r, m) PROVE MobilesKept'
  BY <1>18 DEF TypeOK, CodesKnown, Known, KnownAt, MobilesKept, MobileKept, StartSend
<1>19. ASSUME NEW r \in Requests, NEW m \in Members, NEW e \in Emails, ChangeEmail(r, m, e) PROVE MobilesKept'
  BY <1>19 DEF TypeOK, CodesKnown, Known, KnownAt, MobilesKept, MobileKept, ChangeEmail, Outrun
<1>20. ASSUME NEW m \in Members, NEW v \in Verdicts, Decide(m, v) PROVE MobilesKept'
  BY <1>20 DEF TypeOK, CodesKnown, Known, KnownAt, MobilesKept, MobileKept, Decide, ApplyDecision
<1>21. CASE StartAutoApprove
  BY <1>21 DEF TypeOK, CodesKnown, Known, KnownAt, MobilesKept, MobileKept, StartAutoApprove
<1>22. ASSUME NEW m \in due, Approves(m) PROVE MobilesKept'
  BY <1>22 DEF TypeOK, CodesKnown, Known, KnownAt, MobilesKept, MobileKept, Approves, ApplyDecision
<1>23. CASE JobFails
  BY <1>23 DEF TypeOK, CodesKnown, Known, KnownAt, MobilesKept, MobileKept, JobFails
<1>24. ASSUME NEW c \in Codes, NEW e \in Emails, NEW p \in Mobiles, ChangeContact(c, e, p) PROVE MobilesKept'
  BY <1>24 DEF TypeOK, CodesKnown, Known, KnownAt, MobilesKept, MobileKept, ChangeContact, ContactEditable, Issue, Outrun, MobileAtWork
<1>25. ASSUME NEW c \in Codes, Lapse(c) PROVE MobilesKept'
  BY <1>25 DEF TypeOK, CodesKnown, Known, KnownAt, MobilesKept, MobileKept, Lapse
<1>26. CASE Cleanup
  BY <1>26 DEF TypeOK, CodesKnown, Known, KnownAt, MobilesKept, MobileKept, Cleanup
<1>27. ASSUME NEW m \in Members, TimePasses(m) PROVE MobilesKept'
  BY <1>27 DEF TypeOK, CodesKnown, Known, KnownAt, MobilesKept, MobileKept, TimePasses
<1> QED
  BY <1>1, <1>2, <1>3, <1>4, <1>5, <1>6, <1>7, <1>8, <1>9, <1>10, <1>11, <1>12, <1>13, <1>14, <1>15, <1>16, <1>17, <1>18, <1>19, <1>20, <1>21, <1>22, <1>23, <1>24, <1>25, <1>26, <1>27, EveryStep

LEMMA InitIInv == Init => IInv
<1> SUFFICES ASSUME Init PROVE IInv
  OBVIOUS
<1> USE OnboardingAssumption DEF Init
<1>1. TypeOK
  BY DEF TypeOK
<1>2. CodesKnown /\ Known /\ OneSpends
  BY DEF CodesKnown, Known, KnownAt, OneSpends, Spending
<1>3. Registered /\ CompleteTogether /\ ConfirmedByMail /\ OneHolder /\ Settled
  BY DEF Registered, CompleteTogether, ConfirmedByMail, OneHolder, Settled, Applicants
<1>4. Kept
  BY DEF Kept, AddressCodes, EmailsKept, EmailKept, MobilesKept, MobileKept
<1> QED
  BY <1>1, <1>2, <1>3, <1>4 DEF IInv, People

LEMMA Invariance == Spec => []IInv
<1>1. IInv /\ [Next]_vars => IInv'
  <2> SUFFICES ASSUME IInv, [Next]_vars PROVE IInv'
    OBVIOUS
  <2>1. TypeOK'
    BY TypesPreserved DEF IInv
  <2>2. CodesKnown'
    BY <2>1, CodesPreserved DEF IInv, People
  <2>3. Known' /\ OneSpends'
    BY KnownPreserved, SpendsPreserved DEF IInv, People
  <2>4. People'
    BY RegisteredPreserved, CompletePreserved, ByMailPreserved DEF IInv, People
  <2>5. OneHolder' /\ Settled'
    BY HolderPreserved, SettledPreserved DEF IInv, People
  <2>6. Kept'
    BY AddressCodesPreserved, EmailsPreserved, MobilesPreserved DEF IInv, People, Kept
  <2> QED
    BY <2>1, <2>2, <2>3, <2>4, <2>5, <2>6 DEF IInv
<1> QED
  BY InitIInv, <1>1, PTL DEF Spec

-----------------------------------------------------------------------------
(* The theorems. *)

\* Every column of members, applications and codes, and every handler's local,
\* keeps its type; a code has at most MaxTries tries against it.
THEOREM TypeCorrect == Spec => []TypeOK
BY Invariance, PTL DEF IInv

\* An address and a number are one member's, whatever registrations, resumed
\* ones and corrections race (register, changeContact, changeEmail).
THEOREM OneHolderTheorem == Spec => []OneHolder
BY Invariance, PTL DEF IInv

\* A code is redeemed once and not after its last try (verifyChallenge).
THEOREM CodeSpentOnceTheorem == Spec => []CodeSpentOnce
<1>1. IInv => CodeSpentOnce
  <2> SUFFICES ASSUME IInv PROVE CodeSpentOnce
    OBVIOUS
  <2>1. \A c \in Codes : tries[c] = MaxTries => code[c] = "spent"
    BY DEF IInv, CodesKnown
  <2>2. ASSUME NEW r \in Requests, NEW q \in Requests, pc[r] \in {"mark", "confirm"},
               q # r, chal[q] = chal[r]
        PROVE  pc[q] \notin {"mark", "confirm"} \cup Checking
    BY <2>2 DEF IInv, OneSpends, Spending
  <2> QED
    BY <2>1, <2>2 DEF CodeSpentOnce
<1> QED
  BY Invariance, <1>1, PTL

\* An application that is submitted has its address confirmed and its number
\* verified, and one that is decided was submitted (verifyEmail, applyDecision).
THEOREM CompleteTogetherTheorem == Spec => []CompleteTogether
BY Invariance, PTL DEF IInv, People

\* The code that confirmed an address was mailed (verifyEmail, resendOtp).
THEOREM ConfirmedByMailTheorem == Spec => []ConfirmedByMail
BY Invariance, PTL DEF IInv, People

\* What is written over an address is not confirmed.
LEMMA AddressKept == TypeOK /\ Known /\ Registered /\ CompleteTogether /\ [Next]_vars => (\A n \in Members : confirmed[n] => email'[n] = email[n])
<1> SUFFICES ASSUME TypeOK, Known, Registered, CompleteTogether, [Next]_vars PROVE (\A n \in Members : confirmed[n] => email'[n] = email[n])
  OBVIOUS
<1> USE OnboardingAssumption DEF contact, application, codes, locals, history
<1>1. CASE UNCHANGED vars
  BY <1>1 DEF vars, TypeOK, Registered, CompleteTogether, Applicants
<1>2. ASSUME NEW r \in Requests, NEW e \in Emails, NEW p \in Mobiles, NEW l \in Languages, StartRegister(r, e, p, l) PROVE (\A n \in Members : confirmed[n] => email'[n] = email[n])
  BY <1>2 DEF TypeOK, Registered, CompleteTogether, Applicants, StartRegister
<1>3. ASSUME NEW r \in Requests, NEW m \in Members, Inserts(r, m) PROVE (\A n \in Members : confirmed[n] => email'[n] = email[n])
  BY <1>3 DEF TypeOK, Registered, CompleteTogether, Applicants, Inserts, Issue, Done
<1>4. ASSUME NEW r \in Requests, GivesUp(r) PROVE (\A n \in Members : confirmed[n] => email'[n] = email[n])
  BY <1>4 DEF TypeOK, Registered, CompleteTogether, Applicants, GivesUp, InsertConflict, ResumeConflict, Crash, Done
<1>5. ASSUME NEW r \in Requests, NEW m \in Members, NEW p \in Mobiles, NEW l \in Languages, StartResume(r, m, p, l) PROVE (\A n \in Members : confirmed[n] => email'[n] = email[n])
  BY <1>5 DEF TypeOK, Registered, CompleteTogether, Applicants, StartResume
<1>6. ASSUME NEW r \in Requests, Resume(r) PROVE (\A n \in Members : confirmed[n] => email'[n] = email[n])
  BY <1>6 DEF TypeOK, Registered, CompleteTogether, Applicants, Resume, Issue, Done
<1>7. ASSUME NEW r \in Requests, NEW c \in Codes, StartResend(r, c) PROVE (\A n \in Members : confirmed[n] => email'[n] = email[n])
  BY <1>7 DEF TypeOK, Registered, CompleteTogether, Applicants, StartResend
<1>8. ASSUME NEW r \in Requests, Resend(r) PROVE (\A n \in Members : confirmed[n] => email'[n] = email[n])
  BY <1>8 DEF TypeOK, Registered, CompleteTogether, Applicants, Resend, Issue, Done
<1>9. ASSUME NEW r \in Requests, NEW c \in Codes, VerifyMobile(r, c) PROVE (\A n \in Members : confirmed[n] => email'[n] = email[n])
  BY <1>9 DEF TypeOK, Registered, CompleteTogether, Applicants, VerifyMobile, PresentCode
<1>10. ASSUME NEW r \in Requests, NEW c \in Codes, NEW m \in Members, VerifyEmail(r, c, m) PROVE (\A n \in Members : confirmed[n] => email'[n] = email[n])
  BY <1>10 DEF TypeOK, Registered, CompleteTogether, Applicants, VerifyEmail, PresentCode
<1>11. ASSUME NEW r \in Requests, WrongCode(r) PROVE (\A n \in Members : confirmed[n] => email'[n] = email[n])
  BY <1>11 DEF TypeOK, Registered, CompleteTogether, Applicants, WrongCode, Done
<1>12. ASSUME NEW r \in Requests, RightMobileCode(r) PROVE (\A n \in Members : confirmed[n] => email'[n] = email[n])
  BY <1>12 DEF TypeOK, Registered, CompleteTogether, Applicants, RightMobileCode
<1>13. ASSUME NEW r \in Requests, RightEmailCode(r) PROVE (\A n \in Members : confirmed[n] => email'[n] = email[n])
  BY <1>13 DEF TypeOK, Registered, CompleteTogether, Applicants, RightEmailCode, Done
<1>14. ASSUME NEW r \in Requests, MarkMobile(r) PROVE (\A n \in Members : confirmed[n] => email'[n] = email[n])
  BY <1>14 DEF TypeOK, Registered, CompleteTogether, Applicants, MarkMobile, Done
<1>15. ASSUME NEW r \in Requests, ConfirmEmail(r) PROVE (\A n \in Members : confirmed[n] => email'[n] = email[n])
  BY <1>15 DEF TypeOK, Registered, CompleteTogether, Applicants, ConfirmEmail, ApplyDecision, Done
<1>16. ASSUME NEW r \in Requests, ReadAddress(r) PROVE (\A n \in Members : confirmed[n] => email'[n] = email[n])
  BY <1>16 DEF TypeOK, Registered, CompleteTogether, Applicants, ReadAddress, Done
<1>17. ASSUME NEW r \in Requests, MailCode(r) PROVE (\A n \in Members : confirmed[n] => email'[n] = email[n])
  BY <1>17 DEF TypeOK, Registered, CompleteTogether, Applicants, MailCode, Issue, Done
<1>18. ASSUME NEW r \in Requests, NEW m \in Members, StartSend(r, m) PROVE (\A n \in Members : confirmed[n] => email'[n] = email[n])
  BY <1>18 DEF TypeOK, Registered, CompleteTogether, Applicants, StartSend
<1>19. ASSUME NEW r \in Requests, NEW m \in Members, NEW e \in Emails, ChangeEmail(r, m, e) PROVE (\A n \in Members : confirmed[n] => email'[n] = email[n])
  BY <1>19 DEF TypeOK, Registered, CompleteTogether, Applicants, ChangeEmail
<1>20. ASSUME NEW m \in Members, NEW v \in Verdicts, Decide(m, v) PROVE (\A n \in Members : confirmed[n] => email'[n] = email[n])
  BY <1>20 DEF TypeOK, Registered, CompleteTogether, Applicants, Decide, ApplyDecision
<1>21. CASE StartAutoApprove
  BY <1>21 DEF TypeOK, Registered, CompleteTogether, Applicants, StartAutoApprove
<1>22. ASSUME NEW m \in due, Approves(m) PROVE (\A n \in Members : confirmed[n] => email'[n] = email[n])
  BY <1>22 DEF TypeOK, Registered, CompleteTogether, Applicants, Approves, ApplyDecision
<1>23. CASE JobFails
  BY <1>23 DEF TypeOK, Registered, CompleteTogether, Applicants, JobFails
<1>24. ASSUME NEW c \in Codes, NEW e \in Emails, NEW p \in Mobiles, ChangeContact(c, e, p) PROVE (\A n \in Members : confirmed[n] => email'[n] = email[n])
  BY <1>24 DEF TypeOK, Registered, CompleteTogether, Applicants, ChangeContact, Issue, ContactEditable
<1>25. ASSUME NEW c \in Codes, Lapse(c) PROVE (\A n \in Members : confirmed[n] => email'[n] = email[n])
  BY <1>25 DEF TypeOK, Registered, CompleteTogether, Applicants, Lapse
<1>26. CASE Cleanup
  BY <1>26 DEF TypeOK, Registered, CompleteTogether, Applicants, Cleanup
<1>27. ASSUME NEW m \in Members, TimePasses(m) PROVE (\A n \in Members : confirmed[n] => email'[n] = email[n])
  BY <1>27 DEF TypeOK, Registered, CompleteTogether, Applicants, TimePasses
<1> QED
  BY <1>1, <1>2, <1>3, <1>4, <1>5, <1>6, <1>7, <1>8, <1>9, <1>10, <1>11, <1>12, <1>13, <1>14, <1>15, <1>16, <1>17, <1>18, <1>19, <1>20, <1>21, <1>22, <1>23, <1>24, <1>25, <1>26, <1>27, EveryStep

\* A confirmed address is not changed by onboarding (changeContact, changeEmail).
THEOREM ConfirmedAddressFixedTheorem == Spec => ConfirmedAddressFixed
<1>1. IInv /\ [Next]_vars => [\A m \in Members : confirmed[m] => email'[m] = email[m]]_vars
  BY AddressKept DEF IInv, People
<1> QED
  BY Invariance, <1>1, PTL DEF Spec, ConfirmedAddressFixed

\* Only the job approves by itself, and only rows it read.
LEMMA RuleKept == TypeOK /\ Known /\ Settled /\ [Next]_vars => (\A n \in Members :
       automatic'[n] /\ ~automatic[n] /\ state'[n] = "approved"
           => submitted[n] = "day" /\ language[n] = "german")
<1> SUFFICES ASSUME TypeOK, Known, Settled, [Next]_vars PROVE (\A n \in Members :
       automatic'[n] /\ ~automatic[n] /\ state'[n] = "approved"
           => submitted[n] = "day" /\ language[n] = "german")
  OBVIOUS
<1> USE OnboardingAssumption DEF contact, application, codes, locals, history
<1>1. CASE UNCHANGED vars
  BY <1>1 DEF vars, TypeOK
<1>2. ASSUME NEW r \in Requests, NEW e \in Emails, NEW p \in Mobiles, NEW l \in Languages, StartRegister(r, e, p, l) PROVE (\A n \in Members :
       automatic'[n] /\ ~automatic[n] /\ state'[n] = "approved"
           => submitted[n] = "day" /\ language[n] = "german")
  BY <1>2 DEF TypeOK, StartRegister
<1>3. ASSUME NEW r \in Requests, NEW m \in Members, Inserts(r, m) PROVE (\A n \in Members :
       automatic'[n] /\ ~automatic[n] /\ state'[n] = "approved"
           => submitted[n] = "day" /\ language[n] = "german")
  BY <1>3 DEF TypeOK, Inserts, Issue, Done
<1>4. ASSUME NEW r \in Requests, GivesUp(r) PROVE (\A n \in Members :
       automatic'[n] /\ ~automatic[n] /\ state'[n] = "approved"
           => submitted[n] = "day" /\ language[n] = "german")
  BY <1>4 DEF TypeOK, GivesUp, InsertConflict, ResumeConflict, Crash, Done
<1>5. ASSUME NEW r \in Requests, NEW m \in Members, NEW p \in Mobiles, NEW l \in Languages, StartResume(r, m, p, l) PROVE (\A n \in Members :
       automatic'[n] /\ ~automatic[n] /\ state'[n] = "approved"
           => submitted[n] = "day" /\ language[n] = "german")
  BY <1>5 DEF TypeOK, StartResume
<1>6. ASSUME NEW r \in Requests, Resume(r) PROVE (\A n \in Members :
       automatic'[n] /\ ~automatic[n] /\ state'[n] = "approved"
           => submitted[n] = "day" /\ language[n] = "german")
  BY <1>6 DEF TypeOK, Resume, Issue, Done
<1>7. ASSUME NEW r \in Requests, NEW c \in Codes, StartResend(r, c) PROVE (\A n \in Members :
       automatic'[n] /\ ~automatic[n] /\ state'[n] = "approved"
           => submitted[n] = "day" /\ language[n] = "german")
  BY <1>7 DEF TypeOK, StartResend
<1>8. ASSUME NEW r \in Requests, Resend(r) PROVE (\A n \in Members :
       automatic'[n] /\ ~automatic[n] /\ state'[n] = "approved"
           => submitted[n] = "day" /\ language[n] = "german")
  BY <1>8 DEF TypeOK, Resend, Issue, Done
<1>9. ASSUME NEW r \in Requests, NEW c \in Codes, VerifyMobile(r, c) PROVE (\A n \in Members :
       automatic'[n] /\ ~automatic[n] /\ state'[n] = "approved"
           => submitted[n] = "day" /\ language[n] = "german")
  BY <1>9 DEF TypeOK, VerifyMobile, PresentCode
<1>10. ASSUME NEW r \in Requests, NEW c \in Codes, NEW m \in Members, VerifyEmail(r, c, m) PROVE (\A n \in Members :
       automatic'[n] /\ ~automatic[n] /\ state'[n] = "approved"
           => submitted[n] = "day" /\ language[n] = "german")
  BY <1>10 DEF TypeOK, VerifyEmail, PresentCode
<1>11. ASSUME NEW r \in Requests, WrongCode(r) PROVE (\A n \in Members :
       automatic'[n] /\ ~automatic[n] /\ state'[n] = "approved"
           => submitted[n] = "day" /\ language[n] = "german")
  BY <1>11 DEF TypeOK, WrongCode, Done
<1>12. ASSUME NEW r \in Requests, RightMobileCode(r) PROVE (\A n \in Members :
       automatic'[n] /\ ~automatic[n] /\ state'[n] = "approved"
           => submitted[n] = "day" /\ language[n] = "german")
  BY <1>12 DEF TypeOK, RightMobileCode
<1>13. ASSUME NEW r \in Requests, RightEmailCode(r) PROVE (\A n \in Members :
       automatic'[n] /\ ~automatic[n] /\ state'[n] = "approved"
           => submitted[n] = "day" /\ language[n] = "german")
  BY <1>13 DEF TypeOK, RightEmailCode, Done
<1>14. ASSUME NEW r \in Requests, MarkMobile(r) PROVE (\A n \in Members :
       automatic'[n] /\ ~automatic[n] /\ state'[n] = "approved"
           => submitted[n] = "day" /\ language[n] = "german")
  BY <1>14 DEF TypeOK, MarkMobile, Done
<1>15. ASSUME NEW r \in Requests, ConfirmEmail(r) PROVE (\A n \in Members :
       automatic'[n] /\ ~automatic[n] /\ state'[n] = "approved"
           => submitted[n] = "day" /\ language[n] = "german")
  <2>1. CASE submitted[who[r]] = "no" /\ language[who[r]] = "non_german"
    <3>1. /\ state' = [state EXCEPT ![who[r]] = "denied"]
          /\ automatic' = [automatic EXCEPT ![who[r]] = TRUE]
      BY <1>15, <2>1 DEF ConfirmEmail, ApplyDecision
    <3> QED
      BY <3>1 DEF TypeOK
  <2>2. CASE ~(submitted[who[r]] = "no" /\ language[who[r]] = "non_german")
    <3>1. UNCHANGED automatic
      BY <1>15, <2>2 DEF ConfirmEmail
    <3> QED
      BY <3>1
  <2> QED
    BY <2>1, <2>2
<1>16. ASSUME NEW r \in Requests, ReadAddress(r) PROVE (\A n \in Members :
       automatic'[n] /\ ~automatic[n] /\ state'[n] = "approved"
           => submitted[n] = "day" /\ language[n] = "german")
  BY <1>16 DEF TypeOK, ReadAddress, Done
<1>17. ASSUME NEW r \in Requests, MailCode(r) PROVE (\A n \in Members :
       automatic'[n] /\ ~automatic[n] /\ state'[n] = "approved"
           => submitted[n] = "day" /\ language[n] = "german")
  BY <1>17 DEF TypeOK, MailCode, Issue, Done
<1>18. ASSUME NEW r \in Requests, NEW m \in Members, StartSend(r, m) PROVE (\A n \in Members :
       automatic'[n] /\ ~automatic[n] /\ state'[n] = "approved"
           => submitted[n] = "day" /\ language[n] = "german")
  BY <1>18 DEF TypeOK, StartSend
<1>19. ASSUME NEW r \in Requests, NEW m \in Members, NEW e \in Emails, ChangeEmail(r, m, e) PROVE (\A n \in Members :
       automatic'[n] /\ ~automatic[n] /\ state'[n] = "approved"
           => submitted[n] = "day" /\ language[n] = "german")
  BY <1>19 DEF TypeOK, ChangeEmail
<1>20. ASSUME NEW m \in Members, NEW v \in Verdicts, Decide(m, v) PROVE (\A n \in Members :
       automatic'[n] /\ ~automatic[n] /\ state'[n] = "approved"
           => submitted[n] = "day" /\ language[n] = "german")
  BY <1>20 DEF TypeOK, Decide, ApplyDecision
<1>21. CASE StartAutoApprove
  BY <1>21 DEF TypeOK, StartAutoApprove
<1>22. ASSUME NEW m \in due, Approves(m) PROVE (\A n \in Members :
       automatic'[n] /\ ~automatic[n] /\ state'[n] = "approved"
           => submitted[n] = "day" /\ language[n] = "german")
  <2>1. submitted[m] = "day" /\ language[m] = "german"
    BY DEF Settled
  <2>2. UNCHANGED automatic \/ automatic' = [automatic EXCEPT ![m] = TRUE]
    BY <1>22 DEF Approves, ApplyDecision
  <2>3. \A n \in Members : n # m => automatic'[n] = automatic[n]
    BY <2>2 DEF TypeOK
  <2> QED
    BY <2>1, <2>3
<1>23. CASE JobFails
  BY <1>23 DEF TypeOK, JobFails
<1>24. ASSUME NEW c \in Codes, NEW e \in Emails, NEW p \in Mobiles, ChangeContact(c, e, p) PROVE (\A n \in Members :
       automatic'[n] /\ ~automatic[n] /\ state'[n] = "approved"
           => submitted[n] = "day" /\ language[n] = "german")
  BY <1>24 DEF TypeOK, ChangeContact, Issue
<1>25. ASSUME NEW c \in Codes, Lapse(c) PROVE (\A n \in Members :
       automatic'[n] /\ ~automatic[n] /\ state'[n] = "approved"
           => submitted[n] = "day" /\ language[n] = "german")
  BY <1>25 DEF TypeOK, Lapse
<1>26. CASE Cleanup
  BY <1>26 DEF TypeOK, Cleanup
<1>27. ASSUME NEW m \in Members, TimePasses(m) PROVE (\A n \in Members :
       automatic'[n] /\ ~automatic[n] /\ state'[n] = "approved"
           => submitted[n] = "day" /\ language[n] = "german")
  BY <1>27 DEF TypeOK, TimePasses
<1> QED
  BY <1>1, <1>2, <1>3, <1>4, <1>5, <1>6, <1>7, <1>8, <1>9, <1>10, <1>11, <1>12, <1>13, <1>14, <1>15, <1>16, <1>17, <1>18, <1>19, <1>20, <1>21, <1>22, <1>23, <1>24, <1>25, <1>26, <1>27, EveryStep

\* The job approves German speakers a day after they applied (autoApproveDue).
THEOREM AutoApprovalTheorem == Spec => AutoApprovalRule
<1>1. IInv /\ [Next]_vars =>
        [\A m \in Members :
            automatic'[m] /\ ~automatic[m] /\ state'[m] = "approved"
                => submitted[m] = "day" /\ language[m] = "german"]_vars
  BY RuleKept DEF IInv
<1> QED
  BY Invariance, <1>1, PTL DEF Spec, AutoApprovalRule

\* What the stage of an application depends on.
LEMMA StageSame ==
    ASSUME UNCHANGED <<state, told>>,
           \A m \in Members : (email'[m] = "none" <=> email[m] = "none")
                              /\ (submitted'[m] = "no" <=> submitted[m] = "no")
    PROVE  UNCHANGED <<Stage, told>>
BY DEF Stage

LEMMA StageMoves ==
    ASSUME NEW m \in Members, NEW from, NEW to, Stage[m] = from,
           Stage'[m] = to,
           \A n \in Members \ {m} :
               email'[n] = email[n] /\ state'[n] = state[n] /\ submitted'[n] = submitted[n]
    PROVE  Promise!Move(m, from, to)
<1>1. \A n \in Members \ {m} : Stage'[n] = Stage[n]
  BY DEF Stage
<1>2. Stage = [n \in Members |-> Stage[n]] /\ Stage' = [n \in Members |-> Stage'[n]]
  BY DEF Stage
<1>3. Stage' = [Stage EXCEPT ![m] = to]
  BY <1>1, <1>2
<1> QED
  BY <1>3 DEF Promise!Move

LEMMA DecisionMoves ==
    ASSUME TypeOK, Registered, NEW m \in Members, NEW v \in Verdicts, NEW b,
           Decidable(m), ApplyDecision(m, v, b), UNCHANGED <<email, submitted>>
    PROVE  Promise!Next
<1>1. /\ state[m] = "pending" /\ submitted[m] # "no" /\ email[m] # "none"
      /\ state' = [state EXCEPT ![m] = v]
      /\ told' = [told EXCEPT ![m] = @ \cup {v}]
  BY DEF Decidable, ApplyDecision, Registered, Applicants
<1>2. Stage[m] = "waiting" /\ Stage'[m] = v
  <2>1. state'[m] = v /\ v # "pending" /\ email'[m] # "none"
    BY <1>1 DEF TypeOK
  <2> QED
    BY <1>1, <2>1 DEF Stage
<1>3. Promise!Move(m, "waiting", v)
  BY <1>1, <1>2, StageMoves DEF TypeOK
<1> QED
  BY <1>1, <1>3 DEF Promise!Next, Promise!Decide, Promise!Mail, Promise!Verdicts

\* A step is a step of the promise, or none.
LEMMA StepPromised == TypeOK /\ CodesKnown /\ Known /\ Registered /\ CompleteTogether /\ [Next]_vars => [Promise!Next]_<<Stage, told>>
<1> SUFFICES ASSUME TypeOK, CodesKnown, Known, Registered, CompleteTogether, [Next]_vars PROVE [Promise!Next]_<<Stage, told>>
  OBVIOUS
<1> USE OnboardingAssumption DEF contact, application, codes, locals, history
<1>1. CASE UNCHANGED vars
  BY <1>1 DEF vars, Stage
<1>2. ASSUME NEW r \in Requests, NEW e \in Emails, NEW p \in Mobiles, NEW l \in Languages, StartRegister(r, e, p, l) PROVE [Promise!Next]_<<Stage, told>>
  <2>1. UNCHANGED <<email, state, submitted, told>>
    BY <1>2 DEF StartRegister
  <2> QED
    BY <2>1, StageSame
<1>3. ASSUME NEW r \in Requests, NEW m \in Members, Inserts(r, m) PROVE [Promise!Next]_<<Stage, told>>
  <2>1. /\ email[m] = "none" /\ mail[r] \in Emails /\ state[m] = "pending" /\ submitted[m] = "no"
        /\ email' = [email EXCEPT ![m] = mail[r]]
        /\ UNCHANGED <<state, submitted, told>>
    BY <1>3 DEF Inserts, Known, KnownAt, Registered, Applicants
  <2>2. Stage[m] = "none" /\ Stage'[m] = "open"
    BY <2>1 DEF Stage, TypeOK
  <2>3. Promise!Move(m, "none", "open")
    BY <2>1, <2>2, StageMoves DEF TypeOK
  <2> QED
    BY <2>1, <2>3 DEF Promise!Next, Promise!Open
<1>4. ASSUME NEW r \in Requests, GivesUp(r) PROVE [Promise!Next]_<<Stage, told>>
  <2>1. UNCHANGED <<email, state, submitted, told>>
    BY <1>4 DEF GivesUp, InsertConflict, ResumeConflict, Crash, Done
  <2> QED
    BY <2>1, StageSame
<1>5. ASSUME NEW r \in Requests, NEW m \in Members, NEW p \in Mobiles, NEW l \in Languages, StartResume(r, m, p, l) PROVE [Promise!Next]_<<Stage, told>>
  <2>1. UNCHANGED <<email, state, submitted, told>>
    BY <1>5 DEF StartResume
  <2> QED
    BY <2>1, StageSame
<1>6. ASSUME NEW r \in Requests, Resume(r) PROVE [Promise!Next]_<<Stage, told>>
  <2>1. UNCHANGED <<email, state, submitted, told>>
    BY <1>6 DEF Resume, Issue, Done
  <2> QED
    BY <2>1, StageSame
<1>7. ASSUME NEW r \in Requests, NEW c \in Codes, StartResend(r, c) PROVE [Promise!Next]_<<Stage, told>>
  <2>1. UNCHANGED <<email, state, submitted, told>>
    BY <1>7 DEF StartResend
  <2> QED
    BY <2>1, StageSame
<1>8. ASSUME NEW r \in Requests, Resend(r) PROVE [Promise!Next]_<<Stage, told>>
  <2>1. UNCHANGED <<email, state, submitted, told>>
    BY <1>8 DEF Resend, Issue, Done
  <2> QED
    BY <2>1, StageSame
<1>9. ASSUME NEW r \in Requests, NEW c \in Codes, VerifyMobile(r, c) PROVE [Promise!Next]_<<Stage, told>>
  <2>1. UNCHANGED <<email, state, submitted, told>>
    BY <1>9 DEF VerifyMobile, PresentCode
  <2> QED
    BY <2>1, StageSame
<1>10. ASSUME NEW r \in Requests, NEW c \in Codes, NEW m \in Members, VerifyEmail(r, c, m) PROVE [Promise!Next]_<<Stage, told>>
  <2>1. UNCHANGED <<email, state, submitted, told>>
    BY <1>10 DEF VerifyEmail, PresentCode
  <2> QED
    BY <2>1, StageSame
<1>11. ASSUME NEW r \in Requests, WrongCode(r) PROVE [Promise!Next]_<<Stage, told>>
  <2>1. UNCHANGED <<email, state, submitted, told>>
    BY <1>11 DEF WrongCode, Done
  <2> QED
    BY <2>1, StageSame
<1>12. ASSUME NEW r \in Requests, RightMobileCode(r) PROVE [Promise!Next]_<<Stage, told>>
  <2>1. UNCHANGED <<email, state, submitted, told>>
    BY <1>12 DEF RightMobileCode
  <2> QED
    BY <2>1, StageSame
<1>13. ASSUME NEW r \in Requests, RightEmailCode(r) PROVE [Promise!Next]_<<Stage, told>>
  <2>1. UNCHANGED <<email, state, submitted, told>>
    BY <1>13 DEF RightEmailCode, Done
  <2> QED
    BY <2>1, StageSame
<1>14. ASSUME NEW r \in Requests, MarkMobile(r) PROVE [Promise!Next]_<<Stage, told>>
  <2>1. UNCHANGED <<email, state, submitted, told>>
    BY <1>14 DEF MarkMobile, Done
  <2> QED
    BY <2>1, StageSame
<1>15. ASSUME NEW r \in Requests, ConfirmEmail(r) PROVE [Promise!Next]_<<Stage, told>>
  <2>1. /\ who[r] \in Members /\ email[who[r]] # "none" /\ UNCHANGED email
        /\ submitted[who[r]] = "no" => state[who[r]] = "pending"
    BY <1>15 DEF ConfirmEmail, Known, KnownAt, Registered, CompleteTogether, Applicants
  <2>2. CASE submitted[who[r]] # "no"
    <3>1. UNCHANGED <<email, state, submitted, told>>
      BY <1>15, <2>2 DEF ConfirmEmail
    <3> QED
      BY <3>1, StageSame
  <2>3. CASE submitted[who[r]] = "no" /\ language[who[r]] = "non_german"
    <3>1. /\ submitted' = [submitted EXCEPT ![who[r]] = "recent"]
          /\ state' = [state EXCEPT ![who[r]] = "denied"]
          /\ told' = [told EXCEPT ![who[r]] = @ \cup {"denied"}]
      BY <1>15, <2>3 DEF ConfirmEmail, ApplyDecision
    <3>2. Stage[who[r]] = "open" /\ Stage'[who[r]] = "denied"
      <4>1. state'[who[r]] = "denied" /\ email'[who[r]] # "none"
        BY <2>1, <2>3, <3>1 DEF TypeOK
      <4> QED
        BY <2>1, <2>3, <4>1 DEF Stage
    <3>3. Promise!Move(who[r], "open", "denied")
      BY <2>1, <3>1, <3>2, StageMoves DEF TypeOK
    <3> QED
      BY <2>1, <3>1, <3>3 DEF Promise!Next, Promise!Refuse, Promise!Mail
  <2>4. CASE submitted[who[r]] = "no" /\ language[who[r]] # "non_german"
    <3>1. /\ submitted' = [submitted EXCEPT ![who[r]] = "recent"]
          /\ told' = [told EXCEPT ![who[r]] = @ \cup {"thank-you"}]
          /\ UNCHANGED state
      BY <1>15, <2>4 DEF ConfirmEmail
    <3>2. Stage[who[r]] = "open" /\ Stage'[who[r]] = "waiting"
      <4>1. state'[who[r]] = "pending" /\ submitted'[who[r]] # "no" /\ email'[who[r]] # "none"
        BY <2>1, <2>4, <3>1 DEF TypeOK
      <4> QED
        BY <2>1, <2>4, <4>1 DEF Stage
    <3>3. Promise!Move(who[r], "open", "waiting")
      BY <2>1, <3>1, <3>2, StageMoves DEF TypeOK
    <3> QED
      BY <2>1, <3>1, <3>3 DEF Promise!Next, Promise!Submit, Promise!Mail
  <2> QED
    BY <2>2, <2>3, <2>4
<1>16. ASSUME NEW r \in Requests, ReadAddress(r) PROVE [Promise!Next]_<<Stage, told>>
  <2>1. UNCHANGED <<email, state, submitted, told>>
    BY <1>16 DEF ReadAddress, Done
  <2> QED
    BY <2>1, StageSame
<1>17. ASSUME NEW r \in Requests, MailCode(r) PROVE [Promise!Next]_<<Stage, told>>
  <2>1. UNCHANGED <<email, state, submitted, told>>
    BY <1>17 DEF MailCode, Issue, Done
  <2> QED
    BY <2>1, StageSame
<1>18. ASSUME NEW r \in Requests, NEW m \in Members, StartSend(r, m) PROVE [Promise!Next]_<<Stage, told>>
  <2>1. UNCHANGED <<email, state, submitted, told>>
    BY <1>18 DEF StartSend
  <2> QED
    BY <2>1, StageSame
<1>19. ASSUME NEW r \in Requests, NEW m \in Members, NEW e \in Emails, ChangeEmail(r, m, e) PROVE [Promise!Next]_<<Stage, told>>
  <2>1. /\ email' = [email EXCEPT ![m] = e] /\ email[m] # "none" /\ e # "none"
        /\ UNCHANGED <<state, submitted, told>>
    BY <1>19 DEF ChangeEmail, Registered, Applicants
  <2> QED
    BY <2>1, StageSame DEF TypeOK
<1>20. ASSUME NEW m \in Members, NEW v \in Verdicts, Decide(m, v) PROVE [Promise!Next]_<<Stage, told>>
  <2>1. /\ Decidable(m) /\ ApplyDecision(m, v, FALSE) /\ UNCHANGED <<email, submitted>>
    BY <1>20 DEF Decide
  <2> QED
    BY <2>1, DecisionMoves
<1>21. CASE StartAutoApprove
  <2>1. UNCHANGED <<email, state, submitted, told>>
    BY <1>21 DEF StartAutoApprove
  <2> QED
    BY <2>1, StageSame
<1>22. ASSUME NEW m \in due, Approves(m) PROVE [Promise!Next]_<<Stage, told>>
  <2>1. CASE Decidable(m)
    <3>1. /\ m \in Members /\ ApplyDecision(m, "approved", TRUE) /\ UNCHANGED <<email, submitted>>
      BY <1>22, <2>1 DEF Approves, TypeOK
    <3> QED
      BY <2>1, <3>1, DecisionMoves
  <2>2. CASE ~Decidable(m)
    <3>1. UNCHANGED <<email, state, submitted, told>>
      BY <1>22, <2>2 DEF Approves
    <3> QED
      BY <3>1, StageSame
  <2> QED
    BY <2>1, <2>2
<1>23. CASE JobFails
  <2>1. UNCHANGED <<email, state, submitted, told>>
    BY <1>23 DEF JobFails
  <2> QED
    BY <2>1, StageSame
<1>24. ASSUME NEW c \in Codes, NEW e \in Emails, NEW p \in Mobiles, ChangeContact(c, e, p) PROVE [Promise!Next]_<<Stage, told>>
  <2>1. /\ email' = [email EXCEPT ![holder[c]] = e] /\ email[holder[c]] # "none" /\ e # "none"
        /\ UNCHANGED <<state, submitted, told>>
    BY <1>24 DEF ChangeContact, ContactEditable, CodesKnown, Applicants
  <2> QED
    BY <2>1, StageSame DEF TypeOK
<1>25. ASSUME NEW c \in Codes, Lapse(c) PROVE [Promise!Next]_<<Stage, told>>
  <2>1. UNCHANGED <<email, state, submitted, told>>
    BY <1>25 DEF Lapse
  <2> QED
    BY <2>1, StageSame
<1>26. CASE Cleanup
  <2>1. UNCHANGED <<email, state, submitted, told>>
    BY <1>26 DEF Cleanup
  <2> QED
    BY <2>1, StageSame
<1>27. ASSUME NEW m \in Members, TimePasses(m) PROVE [Promise!Next]_<<Stage, told>>
  <2>1. /\ submitted[m] = "recent" /\ submitted' = [submitted EXCEPT ![m] = "day"]
        /\ UNCHANGED <<email, state, told>>
    BY <1>27 DEF TimePasses
  <2> QED
    BY <2>1, StageSame DEF TypeOK
<1> QED
  BY <1>1, <1>2, <1>3, <1>4, <1>5, <1>6, <1>7, <1>8, <1>9, <1>10, <1>11, <1>12, <1>13, <1>14, <1>15, <1>16, <1>17, <1>18, <1>19, <1>20, <1>21, <1>22, <1>23, <1>24, <1>25, <1>26, <1>27, EveryStep

\* Whoever decides, an application is decided once, only when it is complete, and
\* the mail says what was decided: Onboarding implements MembershipDecision.
THEOREM DecidesOnceTheorem == Spec => DecidesOnce
<1>1. Init => Promise!Init
  BY DEF Init, Promise!Init, Stage
<1>2. IInv /\ [Next]_vars => [Promise!Next]_<<Stage, told>>
  BY StepPromised DEF IInv, People
<1> QED
  BY Invariance, <1>1, <1>2, PTL DEF Spec, DecidesOnce, Promise!Spec

\* The code behind a confirmed address or a verified number went to the contact the
\* member has, unless it was changed while the old one was still at work (changeEmail,
\* changeContact, register).
THEOREM ProvenTheorem == Spec => []ProvenUnlessOutrun
<1>1. IInv => ProvenUnlessOutrun
  BY DEF IInv, Kept, EmailsKept, EmailKept, MobilesKept, MobileKept, ProvenUnlessOutrun
<1> QED
  BY Invariance, <1>1, PTL

\* An address or a number is one member's, who redeemed a code once to prove it: an
\* address a mailed one, and, unless outrun, one that went there (register,
\* verifyChallenge, verifyEmail, changeEmail, changeContact).
THEOREM ContactsTheorem == Spec => []ContactsProven
BY OneHolderTheorem, CodeSpentOnceTheorem, ConfirmedByMailTheorem, ProvenTheorem,
   PTL DEF ContactsProven

\* An application is decided once, when complete, and by the job only as its rule
\* says (applyDecision, autoApproveDue).
THEOREM DecisionTheorem == Spec => DecidedByTheRules
BY DecidesOnceTheorem, AutoApprovalTheorem DEF DecidedByTheRules
=============================================================================
