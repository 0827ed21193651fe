----------------------------- MODULE DeskPeople ------------------------------
(* The dialogs, lists and pages of the owner's directory of people and teams *)
(* (features/people).                                                        *)
EXTENDS DeskForms

------------------------------------------------------------------------------
(* Lists.  The directory keeps keys of its own beside those of queryKeys.js. *)

People == Query("people", <<"people">>, {"person"})
Teams == Query("teams", <<"teams">>, {"team"})
Membership == Query("who is in which team", <<"directory-membership">>, {"member"})
UsersHistory == Query("journal", <<"users-history">>, {"audit"})
Applications == Query("applications", <<"people", "applications">>,
                      {"application"})

Compensation == QueryById("salary", <<"emp-comp">>, {"salary"})
CompensationHistory ==
    QueryById("salary history", <<"emp-comp-history">>, {"salary"})
Configs == QueryById("rates", <<"emp-configs">>, {"rate"})
ConfigHistory == QueryById("rate history", <<"emp-config-history">>, {"rate"})
UserHistory == QueryById("history", <<"user-history">>, {"audit"})
Documents == QueryById("documents", <<"user-documents">>, {"document"})
CourierRules == QueryById("courier's tariffs", <<"courier-tariffs">>, {"tariff"})

ProfileTeams == Query("all teams", <<"people", "teams">>, {"team"})
TeamMembers == QueryById("members", <<"people", "teams", "members">>, {"member"})

Histories == {UserHistory.key, UsersHistory.key}

------------------------------------------------------------------------------
(* Dialogs of the directory.                                                 *)

CreateEmployeeModal ==
    Form("CreateEmployeeModal", <<Send("add", {"person"}, {People.key})>>,
         {"guarded", "closes", "forgets"})
\* A new team has its members under a key of its own.
CreateTeamModal ==
    Form("CreateTeamModal", <<Send("add", {"team"}, {People.key, Teams.key})>>,
         {"guarded", "closes", "forgets"})
\* One dialog per application; its late answer closes the next one's.
WorkerApplicationDetailModal ==
    Form("WorkerApplicationDetailModal",
         <<Send("add", {"person", "application"}, {People.key})>>,
         {"plain", "guarded", "closes", "forgets"})

------------------------------------------------------------------------------
(* A person's card.                                                          *)

EditEmployeeModal ==
    Form("EditEmployeeModal",
         <<Send("set", {"person", "audit"}, {People.key} \cup Histories)>>,
         {"guarded", "closes", "forgets"})
\* The editor closes when it saves, whatever the answer will be.
SaveStatus ==
    Form("SaveStatus",
         <<Send("set", {"person", "audit"}, {People.key} \cup Histories)>>,
         {"guarded", "hasty"})
\* The file, then the reference to it.
AvatarUpload ==
    Form("AvatarUpload",
         <<Send("set", {}, {}),
           Send("set", {"person", "audit"}, {People.key} \cup Histories)>>,
         {"plain", "hasty"})

DocumentKeys == {Documents.key} \cup Histories
\* The files chosen, one after another (two of them here): one that fails
\* leaves those before it stored, and renews nothing.
UploadDocuments ==
    Form("UploadDocuments",
         <<Send("add", {"document", "audit"}, {}),
           Send("set", {"document", "audit"}, DocumentKeys)>>,
         {"plain", "guarded", "hasty"})
DeleteDocument ==
    Form("DeleteDocument",
         <<Send("set", {"document", "audit"}, DocumentKeys)>>,
         {"plain", "guarded"})
DocumentStatus ==
    Form("DocumentStatus",
         <<Send("set", {"document", "audit"}, DocumentKeys)>>,
         {"plain", "guarded"})

------------------------------------------------------------------------------
(* A person's pay.                                                           *)

SetSalaryModal ==
    Form("SetSalaryModal",
         <<Send("add", {"salary"}, {Compensation.key, CompensationHistory.key,
                                    UsersHistory.key})>>,
         {"guarded", "closes"})
CourierTariffsModal ==
    Form("CourierTariffsModal", <<Send("add", {"tariff"}, {CourierRules.key})>>,
         {"guarded", "clears"})
RemoveRule ==
    Form("RemoveRule", <<Send("set", {"tariff"}, {CourierRules.key})>>,
         {"plain"})
\* The old rate is switched off, then the new one is made.
PersonalRateModal ==
    Form("PersonalRateModal",
         <<Send("set", {"rate"}, {}),
           Send("add", {"rate"}, {Configs.key, ConfigHistory.key,
                                  UsersHistory.key})>>,
         {"guarded", "closes"})
\* The place in the hierarchy, then the team's lead or manager.  What it
\* renews are the keys of the profile pages, none of the directory's.
AssignTeamModal ==
    Form("AssignTeamModal",
         <<Send("set", {"member"}, {}),
           Send("set", {"team", "member"},
                {<<"people", "hierarchy">>, <<"people", "teams">>,
                 <<"people", "employees">>})>>,
         {"guarded", "closes"})

------------------------------------------------------------------------------
(* A team's page.                                                            *)

EditTeamModal ==
    Form("EditTeamModal", <<Send("set", {"team", "member"}, {People.key})>>,
         {"guarded", "closes", "forgets", "keeps"})
DeactivateTeamModal ==
    Form("DeactivateTeamModal", <<Send("set", {"team"}, {People.key})>>,
         {"plain", "guarded", "closes", "forgets"})

------------------------------------------------------------------------------
(* Pages.                                                                    *)

TeamDirectoryPage ==
    Page({CreateEmployeeModal, CreateTeamModal, WorkerApplicationDetailModal},
         {People, Teams, Membership, UsersHistory, Applications})
DetailPanel ==
    Page({EditEmployeeModal, SaveStatus, AvatarUpload},
         {Compensation, CompensationHistory, Configs, ConfigHistory, UserHistory})
DocumentsField ==
    Page({UploadDocuments, DeleteDocument, DocumentStatus}, {Documents})
PayPanel ==
    Page({AssignTeamModal, SetSalaryModal, CourierTariffsModal, RemoveRule,
          PersonalRateModal}, {CourierRules})
TeamProfilePage ==
    Page({EditTeamModal, DeactivateTeamModal}, {ProfileTeams, TeamMembers})
PeoplePages ==
    {TeamDirectoryPage, DetailPanel, DocumentsField, PayPanel, TeamProfilePage}

\* The dialogs that are filled from a list, anew whenever the list changes.
PeopleFills ==
    {<<EditEmployeeModal, People>>, <<PersonalRateModal, Configs>>,
     <<EditTeamModal, ProfileTeams>>}
==============================================================================
