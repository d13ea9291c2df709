---------------------------- MODULE AppHandlers ----------------------------
(***************************************************************************)
(* The handlers of the applications and of what hangs on them: assignments *)
(* of users and groups, scopes, roles, features, settings and the profile  *)
(* schema.  The definitions are named as in OrgHandlers.                   *)
(***************************************************************************)
EXTENDS HandlerSteps

\* What the applications share.  An update brings the status about before
\* anything else, and is done when nothing else has changed.  Only where the
\* replacement goes through UpdateAppById, a 404 is no error.
FetchApp == Forgets
UpdateAppById(request) == Quiet(Put(request))
HandleAppLogo == Aside
CreateOrUpdateAuthenticationPolicy == Aside
AppUpdateStatus == When({"status_changed"}, SetStatus)
DeleteApplication == When({"active"}, Deactivate) \o Remove
App(facets, create, read, update, delete) ==
  Guarded({"remove"}, Resource(facets \cup {"status"}, create, read, update, delete))
CreateApp(request, more) ==
  Post(request \cup {"status"}) \o SetId \o HandleAppLogo \o more \o ReadBack
UpdateApp(replacement, more) ==
  AppUpdateStatus \o
  When({"attributes_changed"}, replacement \o HandleAppLogo \o more \o ReadBack)

\* okta_app_auto_login.
AppAutoLoginRequest == {"body"}
AppAutoLoginRead == FetchApp
AppAutoLoginUpdate == UpdateApp(UpdateAppById(AppAutoLoginRequest), << >>)
AppAutoLogin == App({"body"},
  CreateApp(AppAutoLoginRequest, << >>), AppAutoLoginRead, AppAutoLoginUpdate,
  DeleteApplication)

\* okta_app_basic_auth.
AppBasicAuthRead == FetchApp
AppBasicAuth == App({"body"},
  CreateApp({"body"}, << >>), AppBasicAuthRead, UpdateApp(Put({"body"}), << >>),
  DeleteApplication)

\* okta_app_bookmark.
AppBookmarkCreate == CreateApp({"body"}, CreateOrUpdateAuthenticationPolicy)
AppBookmarkRead == FetchApp
AppBookmarkUpdate == UpdateApp(Put({"body"}), CreateOrUpdateAuthenticationPolicy)
AppBookmark == App({"body"},
  AppBookmarkCreate, AppBookmarkRead, AppBookmarkUpdate, DeleteApplication)

\* okta_app_secure_password_store.
AppSecurePasswordStoreRequest == {"body"}
AppSecurePasswordStoreRead == FetchApp
AppSecurePasswordStoreUpdate == UpdateApp(Put(AppSecurePasswordStoreRequest), << >>)
AppSecurePasswordStore == App({"body"},
  CreateApp(AppSecurePasswordStoreRequest, << >>), AppSecurePasswordStoreRead,
  AppSecurePasswordStoreUpdate, DeleteApplication)

\* okta_app_shared_credentials.
AppSharedCredentialsRequest == {"body"}
AppSharedCredentialsRead == FetchApp
AppSharedCredentialsUpdate == UpdateApp(Put(AppSharedCredentialsRequest), << >>)
AppSharedCredentials == App({"body"},
  CreateApp(AppSharedCredentialsRequest, << >>), AppSharedCredentialsRead,
  AppSharedCredentialsUpdate, DeleteApplication)

\* okta_app_swa.
AppSwaRequest == {"body"}
AppSwaCreate == CreateApp(AppSwaRequest, << >>)
AppSwaRead == FetchApp
AppSwaUpdate == UpdateApp(Put(AppSwaRequest), << >>)
AppSwa == App({"body"}, AppSwaCreate, AppSwaRead, AppSwaUpdate, DeleteApplication)

\* okta_app_three_field.
AppThreeFieldRequest == {"body"}
AppThreeFieldRead == FetchApp
AppThreeFieldUpdate == UpdateApp(Put(AppThreeFieldRequest), << >>)
AppThreeField == App({"body"},
  CreateApp(AppThreeFieldRequest, << >>), AppThreeFieldRead, AppThreeFieldUpdate,
  DeleteApplication)

\* okta_app_oauth.  The groups claim is set by a call of its own, with another
\* client.
ValidateAppOAuth == Check
ValidateGrantTypes == Check
AppOAuthRequest == {"frozen", "body"}
SetAppOauthGroupsClaim == Aside
AppOAuthCreate ==
  ValidateGrantTypes \o ValidateAppOAuth \o
  CreateApp(AppOAuthRequest, SetAppOauthGroupsClaim \o CreateOrUpdateAuthenticationPolicy)
AppOAuthRead == FetchApp
AppOAuthUpdate ==
  UpdateApp(ValidateGrantTypes \o ValidateAppOAuth \o Put(AppOAuthRequest),
  SetAppOauthGroupsClaim \o CreateOrUpdateAuthenticationPolicy)
AppOAuth == App({"frozen", "body"},
  AppOAuthCreate, AppOAuthRead, AppOAuthUpdate, DeleteApplication)

\* okta_app_saml.  A certificate is generated, and the application replaced
\* once more to use it.
ValidateAppSaml == Check
AppSamlRequest == {"body"}
GenerateCertificate == Aside
TryCreateCertificate == GenerateCertificate \o Put(AppSamlRequest)
AppSamlCreate ==
  ValidateAppSaml \o Post(AppSamlRequest \cup {"status"}) \o SetId \o TryCreateCertificate \o
  HandleAppLogo \o CreateOrUpdateAuthenticationPolicy \o ReadBack
AppSamlRead == FetchApp
AppSamlUpdate ==
  ValidateAppSaml \o
  UpdateApp(Put(AppSamlRequest) \o TryCreateCertificate, CreateOrUpdateAuthenticationPolicy)
AppSaml == App({"frozen", "body"},
  AppSamlCreate, AppSamlRead, AppSamlUpdate, DeleteApplication)

\* okta_app_saml_app_settings.
AppSamlSettingsPut == Look \o Put({"body"})
AppSamlSettingsRead == Forgets
AppSamlSettings == Singleton(Resource({"body"},
  AppSamlSettingsPut \o SetId \o ReadBack, AppSamlSettingsRead,
  AppSamlSettingsPut \o ReadBack, << >>))

-----------------------------------------------------------------------------
\* okta_app_access_policy_assignment.
AccessPolicyAssignmentCreate == Look \o Put({"body"}) \o SetId
AccessPolicyAssignmentRead == FailsIfMissing
AccessPolicyAssignmentUpdate == Look \o When({"attributes_changed"}, Put({"body"}))
AccessPolicyAssignment == Framework(Singleton(Resource({"body"},
  AccessPolicyAssignmentCreate, AccessPolicyAssignmentRead,
  AccessPolicyAssignmentUpdate, << >>)))

\* okta_app_connection.  A creation activates, and never deactivates.
AppConnectionRequest == {"body"}
AppConnectionCreate == Put(AppConnectionRequest) \o When({"active"}, Activate) \o SetId
AppConnectionRead == FailsIfMissing
AppConnectionUpdate == Put(AppConnectionRequest) \o SetStatus
AppConnection == Framework(Singleton(Resource({"body", "status"},
  AppConnectionCreate, AppConnectionRead, AppConnectionUpdate, << >>)))

\* okta_app_features.
AppFeaturesRequest == {"body"}
AppFeaturesCreate == Put(AppFeaturesRequest) \o SetId
AppFeaturesRead == FailsIfMissing
AppFeaturesUpdate == Put(AppFeaturesRequest)
AppFeatures == Framework(Singleton(Resource({"body"},
  AppFeaturesCreate, AppFeaturesRead, AppFeaturesUpdate, << >>)))

\* okta_app_federated_claim.
FederatedClaimRead == FailsIfMissing
FederatedClaimUpdate == Put({"body"})
FederatedClaim == Framework(Resource({"home", "body"},
  Post({"body"}) \o SetId, FederatedClaimRead, FederatedClaimUpdate, Remove))

\* okta_app_group_assignment, and one that is to be retained.
AppGroupAssignmentRequest == {"body"}
AppGroupAssignmentCreate == Post(AppGroupAssignmentRequest) \o SetId \o ReadBack
AppGroupAssignmentRead == Forgets
AppGroupAssignment == Keyed(Resource({"frozen", "body"},
  AppGroupAssignmentCreate, AppGroupAssignmentRead,
  Post(AppGroupAssignmentRequest) \o ReadBack, Remove))
AppGroupAssignmentRetained == [AppGroupAssignment EXCEPT !.delete = << >>]

\* okta_app_group_assignments.  All groups are assigned again, as any of their
\* attributes may have changed.
AddGroupAssignments == AddParts
DeleteGroupAssignments == Quiet(DropParts)
AppGroupAssignmentsSplit == DiffAnew
AppGroupAssignmentsCreate == AppGroupAssignmentsSplit \o AddParts \o SetId \o ReadBack
AppGroupAssignmentsRead == Forgets
AppGroupAssignmentsUpdate ==
  AppGroupAssignmentsSplit \o DeleteGroupAssignments \o AddGroupAssignments \o ReadBack
AppGroupAssignments == Singleton(Resource({"parts"},
  AppGroupAssignmentsCreate, AppGroupAssignmentsRead, AppGroupAssignmentsUpdate,
  DiffState \o Quiet(DropParts)))

\* okta_app_oauth_api_scope.  The ID is set by what reads the scopes.
ApiScopeIds == Check
ApiScopeUpdateLists == DiffListing
AppOAuthAPIScopeUpdate ==
  ApiScopeUpdateLists \o AddParts \o ApiScopeIds \o Quiet(DropParts) \o ReadBack
AppOAuthAPIScope == Singleton(Resource({"parts"},
  DiffState \o AddParts \o SetId \o ReadBack, Forgets, AppOAuthAPIScopeUpdate,
  ApiScopeIds \o DiffState \o Quiet(DropParts)))

\* okta_app_oauth_role_assignment.
AppOAuthRoleCreate == Post({"body"}) \o SetId
AppOAuthRoleRead == FailsIfMissing
AppOAuthRole == Framework(Resource({"frozen"},
  AppOAuthRoleCreate, AppOAuthRoleRead, Refuse, Remove))

\* okta_app_token.  It can be imported and revoked.
AppToken == Framework(Imported(Resource({"frozen"},
  Refuse, FailsIfMissing, Refuse, Remove)))

\* okta_app_user, and one that is to be retained.
AppUserCreate == Check \o Post({"body"}) \o SetId \o ReadBack
AppUserRead == Forgets
AppUserUpdate == Check \o Put({"body"}) \o ReadBack
AppUser == Keyed(Resource({"home", "body"},
  AppUserCreate, AppUserRead, AppUserUpdate, Remove))
AppUserRetained == [AppUser EXCEPT !.delete = << >>]

-----------------------------------------------------------------------------
\* okta_app_user_base_schema_property.
AppUserBaseSubschema == Check \o Put({"body"})
AppUserBaseSchema == Singleton(Resource({"body"},
  AppUserBaseSubschema \o SetId \o ReadBack, Forgets, AppUserBaseSubschema \o ReadBack,
  << >>))

\* okta_app_user_schema_property.  The ID comes first; the property is set
\* wherever the application and the index say.
AppUserSubSchemaProperty == Post({"body"})
SetAppUserSchemaProperty == Check \o AppUserSubSchemaProperty \o Check
AppUserSchemaPropertyRead == Forgets
AppUserSchemaProperty == Keyed(Resource({"frozen", "home", "body"},
  SetId \o SetAppUserSchemaProperty \o ReadBack, AppUserSchemaPropertyRead,
  SetAppUserSchemaProperty \o ReadBack, Remove))
=============================================================================
