------------------------------ MODULE Providers ------------------------------
(***************************************************************************)
(* What NotificationService sends through: the templates, EmailService and *)
(* the providers of apps/api, one of each kind per deployment.  A provider *)
(* call is the set of its outcomes: was the message delivered, and what is *)
(* the caller told?                                                        *)
(***************************************************************************)
Channel == {"EMAIL", "TELEGRAM"}

EmailProviders == {"resend", "mailhog", "noop"}
TelegramProviders == {"http", "noop"}

\* TEMPLATES: the channels for which a kind has a body that is not empty.
Template == [register_confirmation |-> Channel,
             email_verify          |-> {"EMAIL"},
             telegram_link         |-> {"TELEGRAM"},
             rewards_credited      |-> Channel,
             delegation_matched    |-> Channel]

\* The service at the far end, or the network before it: an answer of success
\* is given for what it delivered, and "unread" is a success whose body is no
\* JSON; a message may have been delivered though no answer comes back.
FarEnd == {o \in [delivered : BOOLEAN, answer : {"ok", "unread", "refused", "none"}] :
             /\ o.answer \in {"ok", "unread"} => o.delivered
             /\ o.answer = "refused" => ~o.delivered}

Told(o, status) == [delivered |-> o.delivered, status |-> status]

\* Mutated form: the status of the answer is not looked at.
ResendSendAnyStatus ==
  {Told(o, IF o.answer \in {"ok", "refused"} THEN "sent" ELSE "failed") : o \in FarEnd}

\* A status that is not ok, a body that is no JSON and a throw of fetch fail.
ResendSend == {Told(o, IF o.answer = "ok" THEN "sent" ELSE "failed") : o \in FarEnd}

\* SMTP: sendMail resolves, whatever the answer says, or throws.
MailHogSend ==
  {Told(o, IF o.answer \in {"ok", "unread"} THEN "sent" ELSE "failed") : o \in FarEnd}

\* Nothing is sent, and the caller is told that it was.
NoopSend == {[delivered |-> FALSE, status |-> "sent"]}

\* useFactory of EMAIL_PROVIDER
EmailProviderSend(provider) ==
  CASE provider = "mailhog" -> MailHogSend
    [] provider = "resend"  -> ResendSend
    [] OTHER                -> NoopSend

\* EmailService.send: a subject and a body, or a BadRequestException; what the
\* provider answers is passed through, and none of them throws.
EmailServiceSend(provider, kind) ==
  IF "EMAIL" \in Template[kind]
    THEN EmailProviderSend(provider)
    ELSE {[delivered |-> FALSE, status |-> "thrown"]}

\* The body is parsed before its ok and the status are looked at; the Bot API
\* refuses an empty text.
HttpSendMessage(kind) ==
  {Told(o, IF o.answer = "ok" THEN "sent" ELSE "failed") :
     o \in {f \in FarEnd : f.delivered => "TELEGRAM" \in Template[kind]}}

NoopSendMessage == {[delivered |-> FALSE, status |-> "sent"]}

\* useFactory of TELEGRAM_PROVIDER_TOKEN
TelegramSend(provider, kind) ==
  IF provider = "http" THEN HttpSendMessage(kind) ELSE NoopSendMessage
=============================================================================
