----------------------------- MODULE Administration ----------------------------
(***************************************************************************)
(* The pages of an administrator's browser, what the server does with      *)
(* elections and accounts, and the readers of rosters. A behaviour is      *)
(* about one part: the browser shows one page at a time and the pages keep *)
(* no state for one another; the others rest meanwhile, with any budget.   *)
(***************************************************************************)
EXTENDS UsersPage, RosterImport, AuditLog, ElectionPage, Elections, Accounts, RosterParsing

pagesVars == <<usersPageVars, rosterImportVars, auditLogVars, electionPageVars>>
serversVars == <<electionVars, accountsVars, rosterParsingVars>>

AnyOf(S) == CHOOSE x \in S : TRUE

AdministrationInit ==
  /\ part \in {"users", "import", "audit", "election", "elections", "accounts", "rosters"}
  /\ UsersPageInit /\ RosterImportInit /\ AuditLogInit /\ ElectionPageInit
  /\ ElectionsInit /\ AccountsInit /\ RosterParsingInit
  /\ part # "users" => usersBudget = AnyOf(PageBudgets)
  /\ part # "audit" => auditBudget = AnyOf(AuditBudgets)
  /\ part # "election" => electionBudget = AnyOf(ElectionPageBudgets)
  /\ part # "accounts" => accountRow = FirstRows(AnyOf(Beginnings))

AdministrationNext ==
  \/ At("users") /\ UsersPageNext /\ UNCHANGED <<rosterImportVars, auditLogVars, electionPageVars, serversVars>>
  \/ At("import") /\ RosterImportNext /\ UNCHANGED <<usersPageVars, auditLogVars, electionPageVars, serversVars>>
  \/ At("audit") /\ AuditLogNext /\ UNCHANGED <<usersPageVars, rosterImportVars, electionPageVars, serversVars>>
  \/ At("election") /\ ElectionPageNext /\ UNCHANGED <<usersPageVars, rosterImportVars, auditLogVars, serversVars>>
  \/ At("elections") /\ ElectionsNext /\ UNCHANGED <<pagesVars, accountsVars, rosterParsingVars>>
  \/ At("accounts") /\ AccountsNext /\ UNCHANGED <<pagesVars, electionVars, rosterParsingVars>>
  \/ At("rosters") /\ RosterParsingNext /\ UNCHANGED <<pagesVars, electionVars, accountsVars>>

AdministrationSpec ==
  /\ AdministrationInit /\ [][AdministrationNext]_<<part, pagesVars, serversVars>>
  /\ UsersPageFairness /\ RosterImportFairness /\ AuditLogFairness /\ ElectionPageFairness

\* No page is stuck: handlers end, the search settles, imports and loads come to an
\* end, and so does what the page of an election saves or refreshes.
\* Parts that are not followed are at rest.
AdministrationProgress == HandlersEnd /\ SearchSettles /\ ImportEnds /\ AuditLoadEnds /\ ElectionPageSettles
=============================================================================
