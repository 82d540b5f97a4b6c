------------------------------ MODULE MCAround ------------------------------
(* Three parts of the server around the engine, which share no state: each is run for itself. *)
EXTENDS ScheduledSends, MailIntake, Commissions

CONSTANTS m1, thread1, ann, bob, eve, invoice

VARIABLE part

MCConversationOf(m) == thread1
MCPaidBy(i) == eve

MCInit ==
  /\ part \in {"sends", "mail", "commissions"} /\ SendInit /\ MailInit /\ CommissionInit
  /\ part # "mail" => thread[thread1] = "open"

MCNext ==
  /\ UNCHANGED part
  /\ \/ part = "sends" /\ SendNext /\ UNCHANGED <<mailVars, commissionVars>>
     \/ part = "mail" /\ MailNext /\ UNCHANGED <<sendVars, commissionVars>>
     \/ part = "commissions" /\ CommissionNext /\ UNCHANGED <<sendVars, mailVars>>

MCSpec ==
  MCInit /\ [][MCNext]_<<part, sendVars, mailVars, commissionVars>> /\ SendFairness /\ MailFairness

(* The variables of the three parts have their types. *)
AroundTypeOK == SendTypeOK /\ MailTypeOK /\ CommissionTypeOK
=============================================================================
