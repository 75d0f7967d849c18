--------------------------- MODULE MCNotifications ---------------------------
(* Instances of Notifications for TLC: see the .cfg file.                   *)
EXTENDS Notifications, TLC

MCSymmetry == Permutations(Wallet)

\* Production, development, and a bot tried out without e-mail.
MCDeployments == {[email |-> "resend", telegram |-> "http"],
                  [email |-> "mailhog", telegram |-> "noop"],
                  [email |-> "noop", telegram |-> "http"]}
==============================================================================
