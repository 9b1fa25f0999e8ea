----------------------------- MODULE ApiTables -----------------------------
(***************************************************************************)
(* The operations of the HTTP API as the generated code knows them:         *)
(* - the chi routes of HandlerWithOptions: operation to method and path     *)
(*   ("_" stands for a path parameter);                                     *)
(* - the ServerInterfaceWrapper methods: whether the wrapper marks the      *)
(*   request as needing a credential, and which parameters it parses before *)
(*   the handler (a bad one is answered 400);                               *)
(* - the strictHandler methods: which body they decode before the handler;  *)
(* - the responses: the statuses their writers set, errors included, and    *)
(*   which of them carry no JSON;                                           *)
(* - the client's request builders: method, path and body of each call, and *)
(*   its parsers: the statuses they decode.                                 *)
(* Ranges of the generated files are tabulated in their own order, one      *)
(* record per stretch of the file.                                          *)
(***************************************************************************)
EXTENDS TLC

\* HandlerWithOptions: the routes.
RoutesAdminToScoreboard ==
    [AdminListChallenges |-> <<"GET", <<"admin", "challenges">>>>,
     AdminCreateChallenge |-> <<"POST", <<"admin", "challenges">>>>,
     AdminDeleteChallenge |-> <<"DELETE", <<"admin", "challenges", "_">>>>,
     AdminGetChallenge |-> <<"GET", <<"admin", "challenges", "_">>>>,
     AdminUpdateChallenge |-> <<"PATCH", <<"admin", "challenges", "_">>>>,
     AdminUploadAttachment |-> <<"POST", <<"admin", "challenges", "_", "attachments">>>>,
     AdminDeleteAttachment |-> <<"DELETE", <<"admin", "challenges", "_", "attachments", "_">>>>,
     AdminDestroyInstance |-> <<"DELETE", <<"admin", "challenges", "_", "instance">>>>,
     AdminGetInstance |-> <<"GET", <<"admin", "challenges", "_", "instance">>>>,
     AdminDeployInstance |-> <<"POST", <<"admin", "challenges", "_", "instance">>>>,
     AdminGetInstanceLogs |-> <<"GET", <<"admin", "challenges", "_", "instance", "logs">>>>,
     AdminRestartInstance |-> <<"POST", <<"admin", "challenges", "_", "instance", "restart">>>>,
     AdminGetEvent |-> <<"GET", <<"admin", "event">>>>,
     AdminUpdateEvent |-> <<"PATCH", <<"admin", "event">>>>,
     AdminListInstances |-> <<"GET", <<"admin", "instances">>>>,
     AdminDestroyInstanceById |-> <<"DELETE", <<"admin", "instances", "_">>>>,
     AdminListPlugins |-> <<"GET", <<"admin", "plugins">>>>,
     AdminReloadPlugin |-> <<"POST", <<"admin", "plugins", "_", "reload">>>>,
     AdminGetStats |-> <<"GET", <<"admin", "stats">>>>,
     AdminListSubmissions |-> <<"GET", <<"admin", "submissions">>>>,
     AdminListTeams |-> <<"GET", <<"admin", "teams">>>>,
     AdminUpdateTeam |-> <<"PATCH", <<"admin", "teams", "_">>>>,
     AdminListTokens |-> <<"GET", <<"admin", "tokens">>>>,
     AdminRevokeToken |-> <<"DELETE", <<"admin", "tokens", "_">>>>,
     AdminListUsers |-> <<"GET", <<"admin", "users">>>>,
     AdminUpdateUser |-> <<"PATCH", <<"admin", "users", "_">>>>,
     AdminResetPassword |-> <<"POST", <<"admin", "users", "_", "password">>>>,
     Login |-> <<"POST", <<"auth", "login">>>>,
     Logout |-> <<"POST", <<"auth", "logout">>>>,
     GetMe |-> <<"GET", <<"auth", "me">>>>,
     ChangePassword |-> <<"PATCH", <<"auth", "me", "password">>>>,
     ListAuthProviders |-> <<"GET", <<"auth", "providers">>>>,
     Register |-> <<"POST", <<"auth", "register">>>>,
     CompleteProviderLogin |-> <<"GET", <<"auth", "_", "callback">>>>,
     BeginProviderLogin |-> <<"GET", <<"auth", "_", "login">>>>,
     ListChallenges |-> <<"GET", <<"challenges">>>>,
     GetChallenge |-> <<"GET", <<"challenges", "_">>>>,
     DownloadAttachment |-> <<"GET", <<"challenges", "_", "attachments", "_">>>>,
     StopInstance |-> <<"DELETE", <<"challenges", "_", "instance">>>>,
     StartInstance |-> <<"POST", <<"challenges", "_", "instance">>>>,
     ExtendInstance |-> <<"POST", <<"challenges", "_", "instance", "extend">>>>,
     SubmitFlag |-> <<"POST", <<"challenges", "_", "submit">>>>,
     GetEvent |-> <<"GET", <<"event">>>>,
     GetScoreboard |-> <<"GET", <<"scoreboard">>>>]

RoutesTeamsToUsers ==
    [ListTeams |-> <<"GET", <<"teams">>>>,
     CreateTeam |-> <<"POST", <<"teams">>>>,
     JoinTeam |-> <<"POST", <<"teams", "join">>>>,
     LeaveTeam |-> <<"POST", <<"teams", "leave">>>>,
     GetTeam |-> <<"GET", <<"teams", "_">>>>,
     RenameTeam |-> <<"PATCH", <<"teams", "_">>>>,
     RegenerateInviteCode |-> <<"POST", <<"teams", "_", "invite-code">>>>,
     ListTokens |-> <<"GET", <<"tokens">>>>,
     CreateToken |-> <<"POST", <<"tokens">>>>,
     RevokeToken |-> <<"DELETE", <<"tokens", "_">>>>,
     GetUser |-> <<"GET", <<"users", "_">>>>]

\* ServerInterfaceWrapper: <<needs a credential, parameters parsed>>.
BindAdminListChallenges ==
    [AdminListChallenges |-> <<TRUE, {"query"}>>,
     AdminCreateChallenge |-> <<TRUE, {}>>,
     AdminDeleteChallenge |-> <<TRUE, {"path", "query"}>>]

BindAdminGetChallenge ==
    [AdminGetChallenge |-> <<TRUE, {"path"}>>,
     AdminUpdateChallenge |-> <<TRUE, {"path"}>>,
     AdminUploadAttachment |-> <<TRUE, {"path"}>>,
     AdminDeleteAttachment |-> <<TRUE, {"path"}>>]

BindAdminDestroyInstance ==
    [AdminDestroyInstance |-> <<TRUE, {"path"}>>,
     AdminGetInstance |-> <<TRUE, {"path"}>>,
     AdminDeployInstance |-> <<TRUE, {"path"}>>,
     AdminGetInstanceLogs |-> <<TRUE, {"path", "query"}>>]

BindAdminRestartInstance ==
    [AdminRestartInstance |-> <<TRUE, {"path"}>>,
     AdminGetEvent |-> <<TRUE, {}>>, AdminUpdateEvent |-> <<TRUE, {}>>,
     AdminListInstances |-> <<TRUE, {}>>,
     AdminDestroyInstanceById |-> <<TRUE, {"path"}>>]

BindAdminListPlugins ==
    [AdminListPlugins |-> <<TRUE, {}>>,
     AdminReloadPlugin |-> <<TRUE, {"path"}>>, AdminGetStats |-> <<TRUE, {}>>]

BindAdminListSubmissions ==
    [AdminListSubmissions |-> <<TRUE, {"query"}>>,
     AdminListTeams |-> <<TRUE, {"query"}>>]

BindAdminUpdateTeam ==
    [AdminUpdateTeam |-> <<TRUE, {"path"}>>,
     AdminListTokens |-> <<TRUE, {"query"}>>,
     AdminRevokeToken |-> <<TRUE, {"path"}>>]

BindAdminListUsers ==
    [AdminListUsers |-> <<TRUE, {"query"}>>,
     AdminUpdateUser |-> <<TRUE, {"path"}>>,
     AdminResetPassword |-> <<TRUE, {"path"}>>]

BindLogin ==
    [Login |-> <<FALSE, {}>>, Logout |-> <<TRUE, {}>>, GetMe |-> <<TRUE, {}>>,
     ChangePassword |-> <<TRUE, {}>>, ListAuthProviders |-> <<FALSE, {}>>,
     Register |-> <<FALSE, {}>>,
     CompleteProviderLogin |-> <<FALSE, {"path"}>>]

BindBeginProviderLogin ==
    [BeginProviderLogin |-> <<FALSE, {"path"}>>,
     ListChallenges |-> <<TRUE, {}>>, GetChallenge |-> <<TRUE, {"path"}>>,
     DownloadAttachment |-> <<TRUE, {"path"}>>]

BindStopInstance ==
    [StopInstance |-> <<TRUE, {"path"}>>,
     StartInstance |-> <<TRUE, {"path"}>>,
     ExtendInstance |-> <<TRUE, {"path"}>>, SubmitFlag |-> <<TRUE, {"path"}>>,
     GetEvent |-> <<FALSE, {}>>]

BindGetScoreboard ==
    [GetScoreboard |-> <<FALSE, {}>>, ListTeams |-> <<FALSE, {}>>,
     CreateTeam |-> <<TRUE, {}>>, JoinTeam |-> <<TRUE, {}>>,
     LeaveTeam |-> <<TRUE, {}>>, GetTeam |-> <<FALSE, {"path"}>>,
     RenameTeam |-> <<TRUE, {"path"}>>]

BindRegenerateInviteCode ==
    [RegenerateInviteCode |-> <<TRUE, {"path"}>>, ListTokens |-> <<TRUE, {}>>,
     CreateToken |-> <<TRUE, {}>>, RevokeToken |-> <<TRUE, {"path"}>>,
     GetUser |-> <<FALSE, {"path"}>>]

\* strictHandler: the body decoded.
ServeAdminListChallenges ==
    [AdminListChallenges |-> "none", AdminCreateChallenge |-> "json",
     AdminDeleteChallenge |-> "none", AdminGetChallenge |-> "none",
     AdminUpdateChallenge |-> "json"]

ServeAdminUploadAttachment ==
    [AdminUploadAttachment |-> "multi", AdminDeleteAttachment |-> "none",
     AdminDestroyInstance |-> "none", AdminGetInstance |-> "none",
     AdminDeployInstance |-> "none"]

ServeAdminGetInstanceLogs ==
    [AdminGetInstanceLogs |-> "none", AdminRestartInstance |-> "none",
     AdminGetEvent |-> "none", AdminUpdateEvent |-> "json",
     AdminListInstances |-> "none"]

ServeAdminDestroyInstanceById ==
    [AdminDestroyInstanceById |-> "none", AdminListPlugins |-> "none",
     AdminReloadPlugin |-> "none", AdminGetStats |-> "none",
     AdminListSubmissions |-> "none", AdminListTeams |-> "none"]

ServeAdminUpdateTeam ==
    [AdminUpdateTeam |-> "json", AdminListTokens |-> "none",
     AdminRevokeToken |-> "none", AdminListUsers |-> "none",
     AdminUpdateUser |-> "json"]

ServeAdminResetPassword ==
    [AdminResetPassword |-> "json", Login |-> "json", Logout |-> "none",
     GetMe |-> "none", ChangePassword |-> "json"]

ServeListAuthProviders ==
    [ListAuthProviders |-> "none", Register |-> "json",
     CompleteProviderLogin |-> "none", BeginProviderLogin |-> "none",
     ListChallenges |-> "none"]

ServeGetChallenge ==
    [GetChallenge |-> "none", DownloadAttachment |-> "none",
     StopInstance |-> "none", StartInstance |-> "none",
     ExtendInstance |-> "none"]

ServeSubmitFlag ==
    [SubmitFlag |-> "json", GetEvent |-> "none", GetScoreboard |-> "none",
     ListTeams |-> "none", CreateTeam |-> "json"]

ServeJoinTeam ==
    [JoinTeam |-> "json", LeaveTeam |-> "none", GetTeam |-> "none",
     RenameTeam |-> "json", RegenerateInviteCode |-> "none"]

ServeListTokens ==
    [ListTokens |-> "none", CreateToken |-> "json", RevokeToken |-> "none",
     GetUser |-> "none"]

\* The client's New...Request functions: <<method, path, body>>.
RequestAdminListChallenges ==
    [AdminListChallenges |-> <<"GET", <<"admin", "challenges">>, "none">>]

RequestAdminCreateChallenge ==
    [AdminCreateChallenge |-> <<"POST", <<"admin", "challenges">>, "json">>,
     AdminDeleteChallenge |-> <<"DELETE", <<"admin", "challenges", "_">>, "none">>,
     AdminGetChallenge |-> <<"GET", <<"admin", "challenges", "_">>, "none">>]

RequestAdminUpdateChallenge ==
    [AdminUpdateChallenge |-> <<"PATCH", <<"admin", "challenges", "_">>, "json">>,
     AdminUploadAttachment |-> <<"POST", <<"admin", "challenges", "_", "attachments">>, "multi">>,
     AdminDeleteAttachment |-> <<"DELETE", <<"admin", "challenges", "_", "attachments", "_">>, "none">>]

RequestAdminDestroyInstance ==
    [AdminDestroyInstance |-> <<"DELETE", <<"admin", "challenges", "_", "instance">>, "none">>,
     AdminGetInstance |-> <<"GET", <<"admin", "challenges", "_", "instance">>, "none">>,
     AdminDeployInstance |-> <<"POST", <<"admin", "challenges", "_", "instance">>, "none">>]

RequestAdminGetInstanceLogs ==
    [AdminGetInstanceLogs |-> <<"GET", <<"admin", "challenges", "_", "instance", "logs">>, "none">>,
     AdminRestartInstance |-> <<"POST", <<"admin", "challenges", "_", "instance", "restart">>, "none">>,
     AdminGetEvent |-> <<"GET", <<"admin", "event">>, "none">>]

RequestAdminUpdateEvent ==
    [AdminUpdateEvent |-> <<"PATCH", <<"admin", "event">>, "json">>,
     AdminListInstances |-> <<"GET", <<"admin", "instances">>, "none">>,
     AdminDestroyInstanceById |-> <<"DELETE", <<"admin", "instances", "_">>, "none">>,
     AdminListPlugins |-> <<"GET", <<"admin", "plugins">>, "none">>]

RequestAdminReloadPlugin ==
    [AdminReloadPlugin |-> <<"POST", <<"admin", "plugins", "_", "reload">>, "none">>,
     AdminGetStats |-> <<"GET", <<"admin", "stats">>, "none">>]

RequestAdminListSubmissions ==
    [AdminListSubmissions |-> <<"GET", <<"admin", "submissions">>, "none">>]

RequestAdminListTeams ==
    [AdminListTeams |-> <<"GET", <<"admin", "teams">>, "none">>,
     AdminUpdateTeam |-> <<"PATCH", <<"admin", "teams", "_">>, "json">>]

RequestAdminListTokens ==
    [AdminListTokens |-> <<"GET", <<"admin", "tokens">>, "none">>,
     AdminRevokeToken |-> <<"DELETE", <<"admin", "tokens", "_">>, "none">>]

RequestAdminListUsers ==
    [AdminListUsers |-> <<"GET", <<"admin", "users">>, "none">>]

RequestAdminUpdateUser ==
    [AdminUpdateUser |-> <<"PATCH", <<"admin", "users", "_">>, "json">>,
     AdminResetPassword |-> <<"POST", <<"admin", "users", "_", "password">>, "json">>,
     Login |-> <<"POST", <<"auth", "login">>, "json">>]

RequestLogout ==
    [Logout |-> <<"POST", <<"auth", "logout">>, "none">>,
     GetMe |-> <<"GET", <<"auth", "me">>, "none">>,
     ChangePassword |-> <<"PATCH", <<"auth", "me", "password">>, "json">>,
     ListAuthProviders |-> <<"GET", <<"auth", "providers">>, "none">>]

RequestRegister ==
    [Register |-> <<"POST", <<"auth", "register">>, "json">>,
     CompleteProviderLogin |-> <<"GET", <<"auth", "_", "callback">>, "none">>,
     BeginProviderLogin |-> <<"GET", <<"auth", "_", "login">>, "none">>,
     ListChallenges |-> <<"GET", <<"challenges">>, "none">>]

RequestGetChallenge ==
    [GetChallenge |-> <<"GET", <<"challenges", "_">>, "none">>,
     DownloadAttachment |-> <<"GET", <<"challenges", "_", "attachments", "_">>, "none">>,
     StopInstance |-> <<"DELETE", <<"challenges", "_", "instance">>, "none">>,
     StartInstance |-> <<"POST", <<"challenges", "_", "instance">>, "none">>]

RequestExtendInstance ==
    [ExtendInstance |-> <<"POST", <<"challenges", "_", "instance", "extend">>, "none">>,
     SubmitFlag |-> <<"POST", <<"challenges", "_", "submit">>, "json">>,
     GetEvent |-> <<"GET", <<"event">>, "none">>,
     GetScoreboard |-> <<"GET", <<"scoreboard">>, "none">>]

RequestListTeams ==
    [ListTeams |-> <<"GET", <<"teams">>, "none">>,
     CreateTeam |-> <<"POST", <<"teams">>, "json">>,
     JoinTeam |-> <<"POST", <<"teams", "join">>, "json">>,
     LeaveTeam |-> <<"POST", <<"teams", "leave">>, "none">>]

RequestGetTeam ==
    [GetTeam |-> <<"GET", <<"teams", "_">>, "none">>,
     RenameTeam |-> <<"PATCH", <<"teams", "_">>, "json">>,
     RegenerateInviteCode |-> <<"POST", <<"teams", "_", "invite-code">>, "none">>,
     ListTokens |-> <<"GET", <<"tokens">>, "none">>]

RequestCreateToken ==
    [CreateToken |-> <<"POST", <<"tokens">>, "json">>,
     RevokeToken |-> <<"DELETE", <<"tokens", "_">>, "none">>,
     GetUser |-> <<"GET", <<"users", "_">>, "none">>]

\* The responses' Visit methods: <<statuses written, those without a JSON body>>.
VisitAdminListChallenges ==
    [AdminListChallenges |-> <<{200, 401, 403}, {}>>,
     AdminCreateChallenge |-> <<{201, 401, 403, 409, 422}, {}>>]

VisitAdminDeleteChallenge ==
    [AdminDeleteChallenge |-> <<{204, 401, 403, 404, 409}, {204}>>,
     AdminGetChallenge |-> <<{200, 401, 403, 404}, {}>>]

VisitAdminUpdateChallenge ==
    [AdminUpdateChallenge |-> <<{200, 401, 403, 404, 409, 422}, {}>>,
     AdminUploadAttachment |-> <<{201, 401, 403, 404, 409, 422}, {}>>]

VisitAdminDeleteAttachment ==
    [AdminDeleteAttachment |-> <<{204, 401, 403, 404}, {204}>>,
     AdminDestroyInstance |-> <<{204, 401, 403, 404, 503}, {204}>>]

VisitAdminGetInstance ==
    [AdminGetInstance |-> <<{200, 401, 403, 404}, {}>>,
     AdminDeployInstance |-> <<{200, 401, 403, 404, 409, 503}, {}>>]

VisitAdminGetInstanceLogs ==
    [AdminGetInstanceLogs |-> <<{200, 401, 403, 404, 503}, {}>>,
     AdminRestartInstance |-> <<{200, 401, 403, 404, 503}, {}>>]

VisitAdminGetEvent ==
    [AdminGetEvent |-> <<{200, 401, 403}, {}>>,
     AdminUpdateEvent |-> <<{200, 401, 403, 422}, {}>>,
     AdminListInstances |-> <<{200, 401, 403}, {}>>]

VisitAdminDestroyInstanceById ==
    [AdminDestroyInstanceById |-> <<{204, 401, 403, 404, 503}, {204}>>,
     AdminListPlugins |-> <<{200, 401, 403}, {}>>]

VisitAdminReloadPlugin ==
    [AdminReloadPlugin |-> <<{204, 401, 403, 404, 503}, {204}>>,
     AdminGetStats |-> <<{200, 401, 403}, {}>>,
     AdminListSubmissions |-> <<{200, 401, 403}, {}>>]

VisitAdminListTeams ==
    [AdminListTeams |-> <<{200, 401, 403}, {}>>,
     AdminUpdateTeam |-> <<{200, 401, 403, 404, 422}, {}>>,
     AdminListTokens |-> <<{200, 401, 403}, {}>>]

VisitAdminRevokeToken ==
    [AdminRevokeToken |-> <<{204, 401, 403, 404}, {204}>>,
     AdminListUsers |-> <<{200, 401, 403}, {}>>]

VisitAdminUpdateUser ==
    [AdminUpdateUser |-> <<{200, 401, 403, 404, 409, 422}, {}>>,
     AdminResetPassword |-> <<{204, 401, 403, 404, 422}, {204}>>]

VisitLogin ==
    [Login |-> <<{200, 401, 422, 429}, {}>>,
     Logout |-> <<{204, 401}, {204}>>,
     GetMe |-> <<{200, 401}, {}>>]

VisitChangePassword ==
    [ChangePassword |-> <<{204, 401, 403, 422}, {204}>>,
     ListAuthProviders |-> <<{200}, {}>>,
     Register |-> <<{201, 403, 409, 422, 429}, {}>>,
     CompleteProviderLogin |-> <<{302}, {302}>>]

VisitBeginProviderLogin ==
    [BeginProviderLogin |-> <<{302, 404, 503}, {302}>>,
     ListChallenges |-> <<{200, 401, 403}, {}>>,
     GetChallenge |-> <<{200, 401, 403, 404}, {}>>]

VisitDownloadAttachment ==
    [DownloadAttachment |-> <<{200, 401, 403, 404}, {200}>>,
     StopInstance |-> <<{204, 401, 403, 404, 503}, {204}>>]

VisitStartInstance ==
    [StartInstance |-> <<{200, 201, 401, 403, 404, 409, 503}, {}>>]

VisitExtendInstance ==
    [ExtendInstance |-> <<{200, 401, 403, 404, 409, 503}, {}>>]

VisitSubmitFlag ==
    [SubmitFlag |-> <<{200, 401, 403, 404, 409, 422, 429}, {}>>,
     GetEvent |-> <<{200}, {}>>,
     GetScoreboard |-> <<{200}, {}>>,
     ListTeams |-> <<{200}, {}>>]

VisitCreateTeam ==
    [CreateTeam |-> <<{201, 401, 409, 422}, {}>>,
     JoinTeam |-> <<{200, 401, 404, 409, 422}, {}>>,
     LeaveTeam |-> <<{204, 401, 404}, {204}>>]

VisitGetTeam ==
    [GetTeam |-> <<{200, 404}, {}>>,
     RenameTeam |-> <<{200, 401, 403, 404, 409, 422}, {}>>,
     RegenerateInviteCode |-> <<{200, 401, 403, 404}, {}>>]

VisitListTokens ==
    [ListTokens |-> <<{200, 401, 403}, {}>>,
     CreateToken |-> <<{201, 401, 403, 422}, {}>>,
     RevokeToken |-> <<{204, 401, 403, 404}, {204}>>]

VisitGetUser ==
    [GetUser |-> <<{200, 404}, {}>>]

\* The client's parsers: the statuses whose body they decode.
ParseAdminListChallenges ==
    [AdminListChallenges |-> {200, 401, 403},
     AdminCreateChallenge |-> {201, 401, 403, 409, 422},
     AdminDeleteChallenge |-> {401, 403, 404, 409}]

ParseAdminGetChallenge ==
    [AdminGetChallenge |-> {200, 401, 403, 404},
     AdminUpdateChallenge |-> {200, 401, 403, 404, 409, 422}]

ParseAdminUploadAttachment ==
    [AdminUploadAttachment |-> {201, 401, 403, 404, 409, 422},
     AdminDeleteAttachment |-> {401, 403, 404},
     AdminDestroyInstance |-> {401, 403, 404, 503}]

ParseAdminGetInstance ==
    [AdminGetInstance |-> {200, 401, 403, 404},
     AdminDeployInstance |-> {200, 401, 403, 404, 409, 503}]

ParseAdminGetInstanceLogs ==
    [AdminGetInstanceLogs |-> {200, 401, 403, 404, 503},
     AdminRestartInstance |-> {200, 401, 403, 404, 503},
     AdminGetEvent |-> {200, 401, 403}]

ParseAdminUpdateEvent ==
    [AdminUpdateEvent |-> {200, 401, 403, 422},
     AdminListInstances |-> {200, 401, 403},
     AdminDestroyInstanceById |-> {401, 403, 404, 503}]

ParseAdminListPlugins ==
    [AdminListPlugins |-> {200, 401, 403},
     AdminReloadPlugin |-> {401, 403, 404, 503},
     AdminGetStats |-> {200, 401, 403}]

ParseAdminListSubmissions ==
    [AdminListSubmissions |-> {200, 401, 403},
     AdminListTeams |-> {200, 401, 403},
     AdminUpdateTeam |-> {200, 401, 403, 404, 422}]

ParseAdminListTokens ==
    [AdminListTokens |-> {200, 401, 403},
     AdminRevokeToken |-> {401, 403, 404}, AdminListUsers |-> {200, 401, 403}]

ParseAdminUpdateUser ==
    [AdminUpdateUser |-> {200, 401, 403, 404, 409, 422},
     AdminResetPassword |-> {401, 403, 404, 422}]

ParseLogin ==
    [Login |-> {200, 401, 422, 429}, Logout |-> {401}, GetMe |-> {200, 401},
     ChangePassword |-> {401, 403, 422}]

ParseListAuthProviders ==
    [ListAuthProviders |-> {200}, Register |-> {201, 403, 409, 422, 429},
     CompleteProviderLogin |-> {}, BeginProviderLogin |-> {404, 503}]

ParseListChallenges ==
    [ListChallenges |-> {200, 401, 403},
     GetChallenge |-> {200, 401, 403, 404},
     DownloadAttachment |-> {401, 403, 404}]

ParseStopInstance ==
    [StopInstance |-> {401, 403, 404, 503},
     StartInstance |-> {200, 201, 401, 403, 404, 409, 503}]

ParseExtendInstance ==
    [ExtendInstance |-> {200, 401, 403, 404, 409, 503},
     SubmitFlag |-> {200, 401, 403, 404, 409, 422, 429}]

ParseGetEvent ==
    [GetEvent |-> {200}, GetScoreboard |-> {200}, ListTeams |-> {200},
     CreateTeam |-> {201, 401, 409, 422}]

ParseJoinTeam ==
    [JoinTeam |-> {200, 401, 404, 409, 422}, LeaveTeam |-> {401, 404},
     GetTeam |-> {200, 404}]

ParseRenameTeam ==
    [RenameTeam |-> {200, 401, 403, 404, 409, 422},
     RegenerateInviteCode |-> {200, 401, 403, 404},
     ListTokens |-> {200, 401, 403}]

ParseCreateToken ==
    [CreateToken |-> {201, 401, 403, 422}, RevokeToken |-> {401, 403, 404},
     GetUser |-> {200, 404}]

Routes ==
    [o \in DOMAIN RoutesAdminToScoreboard \cup DOMAIN RoutesTeamsToUsers |->
        IF o \in DOMAIN RoutesTeamsToUsers THEN RoutesTeamsToUsers[o]
        ELSE RoutesAdminToScoreboard[o]]

Wrapper ==
    BindAdminListChallenges @@ BindAdminGetChallenge
       @@ BindAdminDestroyInstance @@ BindAdminRestartInstance
       @@ BindAdminListPlugins @@ BindAdminListSubmissions
       @@ BindAdminUpdateTeam @@ BindAdminListUsers @@ BindLogin
       @@ BindBeginProviderLogin @@ BindStopInstance @@ BindGetScoreboard
       @@ BindRegenerateInviteCode

Decodes ==
    ServeAdminListChallenges @@ ServeAdminUploadAttachment
       @@ ServeAdminGetInstanceLogs @@ ServeAdminDestroyInstanceById
       @@ ServeAdminUpdateTeam @@ ServeAdminResetPassword
       @@ ServeListAuthProviders @@ ServeGetChallenge @@ ServeSubmitFlag
       @@ ServeJoinTeam @@ ServeListTokens

Sends ==
    RequestAdminListChallenges @@ RequestAdminCreateChallenge
       @@ RequestAdminUpdateChallenge @@ RequestAdminDestroyInstance
       @@ RequestAdminGetInstanceLogs @@ RequestAdminUpdateEvent
       @@ RequestAdminReloadPlugin @@ RequestAdminListSubmissions
       @@ RequestAdminListTeams @@ RequestAdminListTokens
       @@ RequestAdminListUsers @@ RequestAdminUpdateUser @@ RequestLogout
       @@ RequestRegister @@ RequestGetChallenge @@ RequestExtendInstance
       @@ RequestListTeams @@ RequestGetTeam @@ RequestCreateToken

Ops == DOMAIN Routes

Writes ==
    VisitAdminListChallenges @@ VisitAdminDeleteChallenge
       @@ VisitAdminUpdateChallenge @@ VisitAdminDeleteAttachment
       @@ VisitAdminGetInstance @@ VisitAdminGetInstanceLogs
       @@ VisitAdminGetEvent @@ VisitAdminDestroyInstanceById
       @@ VisitAdminReloadPlugin @@ VisitAdminListTeams
       @@ VisitAdminRevokeToken @@ VisitAdminUpdateUser @@ VisitLogin
       @@ VisitChangePassword @@ VisitBeginProviderLogin
       @@ VisitDownloadAttachment @@ VisitStartInstance @@ VisitExtendInstance
       @@ VisitSubmitFlag @@ VisitCreateTeam @@ VisitGetTeam
       @@ VisitListTokens @@ VisitGetUser

Reads ==
    ParseAdminListChallenges @@ ParseAdminGetChallenge
       @@ ParseAdminUploadAttachment @@ ParseAdminGetInstance
       @@ ParseAdminGetInstanceLogs @@ ParseAdminUpdateEvent
       @@ ParseAdminListPlugins @@ ParseAdminListSubmissions
       @@ ParseAdminListTokens @@ ParseAdminUpdateUser @@ ParseLogin
       @@ ParseListAuthProviders @@ ParseListChallenges @@ ParseStopInstance
       @@ ParseExtendInstance @@ ParseGetEvent @@ ParseJoinTeam
       @@ ParseRenameTeam @@ ParseCreateToken
=============================================================================
