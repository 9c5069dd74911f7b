---------------------------- MODULE MCMailServer ----------------------------
(***************************************************************************)
(* Small instances of MailServer for TLC: which mails are sent, what their *)
(* URLs contain and where requests are redirected.                         *)
(***************************************************************************)
EXTENDS MailServer, TLC

CONSTANTS a1, a2,                \* addresses
          s1, s2, p1, p2, w1, w2 \* threads

(* URLs: u1 and u2 contain an encoding of the recipient's address, u2 two  *)
(* of them; u0 none.  u2 belongs to a third party, the domain of u0 cannot *)
(* be told.                                                                *)
MCURL == {"u0", "u1", "u2"}
MCDomainOf == [u \in MCURL |-> CASE u = "u0" -> "" [] u = "u1" -> "shop" [] u = "u2" -> "ads"]
MCEncodings == [u \in MCURL |-> CASE u = "u0" -> 0 [] u = "u1" -> 1 [] u = "u2" -> 2]
MCChains == [u \in MCURL |-> CASE u = "u0" -> {<<>>} [] u = "u1" -> {<<>>, <<"u0", "u2">>}
                               [] u = "u2" -> {<<"u1">>}]

MCThread == SmtpThread \cup PoolThread \cup WebThread

(* a1 registered with the site that leaks to a third party; or perhaps not *)
(* at all, or for a URL without a domain.                                  *)
OneRegistered == {(a1 :> "shop")}
MaybeRegistered == {<<>>, (a1 :> "shop"), (a1 :> "")}

Text(to) == [to |-> to, subject |-> TRUE, body |-> "text", links |-> <<>>,
             confirm |-> <<>>, pixels |-> {}, others |-> {}, visit |-> <<>>]

(* Mails for a1: one lacks a subject, which fails as a first mail and is   *)
(* sent again; the other asks for a confirmation.                          *)
NoSubject == [Text(a1) EXCEPT !.subject = FALSE]

Confirmation(u) == [Text(a1) EXCEPT !.confirm = <<u>>]
ConfirmationMails == {Confirmation("u0"), Confirmation("u1")}
SessionMails == {NoSubject, Confirmation("u0")}

(* A mail with a pixel and one of two other images to request, and another *)
(* mail for a1, both with a confirmation.                                  *)
ImageMails == {[Text(a1) EXCEPT !.body = "html", !.confirm = <<"u0">>, !.pixels = {"u1"},
                                !.others = {"u0", "u2"}],
               Confirmation("u1")}

(* A mail with links to visit, and a confirmation before them.             *)
LinkMails == {[Text(a1) EXCEPT !.body = "html", !.confirm = <<"u1">>,
                               !.visit = <<"u0">>]}

NoReports == {}
LinkReports == {<<"u0", "u1">>, <<"u2">>}
=============================================================================
