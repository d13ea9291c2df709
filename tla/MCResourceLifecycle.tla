------------------------ MODULE MCResourceLifecycle ------------------------
(***************************************************************************)
(* All resources of the provider, with the exceptions from each property.  *)
(***************************************************************************)
EXTENDS ResourceLifecycle, HandlerDisciplines, ProviderResources
CONSTANTS x, y, v, w

\* The handlers, which TLC evaluates once, as a constant of another module.
ProviderHandlers == LET handlers == AllResources IN handlers

\* The ID is set, or the state written, after further calls: a failure of one
\* of them leaves an object behind that Terraform does not know.
SetsIdLate == {
    "AppSignOnPolicy", "Brand", "EntityRiskRule", "Group", "GroupRole",
    "GroupSchema", "IdentitySourceMembership", "IdentitySourceUser",
    "LogStream", "PolicyRuleMfa", "PolicyRuleSignOn", "RealmAssignment",
    "RequestCondition", "SecurityEventsProvider", "UserSchema" }
\* Where requests look for the object, its parent, can be changed without
\* replacing it: the update fails, and the new place is saved.
Moves == {
    "AppUser", "AppUserRetained", "AppUserSchemaProperty", "AuthServerClaim",
    "AuthServerPolicy", "AuthServerPolicyRule", "AuthServerScope",
    "CustomizedSignInPage", "EmailCustomization", "PreviewSignInPage" }
Stranding == SetsIdLate \cup Moves

\* The status of the request is compared with itself, so that it never changes,
\* or no call is made for it.
IgnoresStatus == { "IdpOidc", "IdpSaml", "IdpSocial", "NetworkZoneReserved" }
\* The configured status, or all that is configured, is not sent by Create.
CreatesActive == { "AppConnection", "AuthServer", "Theme" }
\* What was there before a Create, or an earlier one that failed had added, is
\* neither read nor removed.
OnlyAdds == {
    "AppGroupAssignments", "AppOAuthAPIScope", "LinkValue",
    "PolicyProfileEnrollmentApps", "RoleTargets", "TrustedServer",
    "UserAdminRoles" }
\* Create takes over the object that is there, with the attributes that it has.
TakesOver == { "Authenticator", "AuthenticatorOTP" }
\* Attributes that no update sends: the domain, the metadata of a value that stays.
NeverSent == { "EmailDomain", "LabelMetadata" }
Lagging == IgnoresStatus \cup CreatesActive \cup OnlyAdds \cup TakesOver \cup NeverSent

\* An update brings the status about before the attributes.
Premature == {
    "AppAutoLogin", "AppBasicAuth", "AppBookmark", "AppOAuth", "AppSaml",
    "AppSecurePasswordStore", "AppSharedCredentials", "AppSwa",
    "AppThreeField", "AuthServer", "AuthServerDefault", "AuthServerManual",
    "GroupRule", "NetworkZoneEnhanced", "TrustedOrigin" }

\* Updates that deactivate, change and activate, or that take a role away from
\* its user and give it back.
Interrupted == { "GroupRule", "RealmAssignment", "RoleTargets" }

\* The update of a federated claim whose application changed finds nothing, and
\* its targets cannot be given to a role that was taken away.
Restless == IgnoresStatus \cup NeverSent \cup { "FederatedClaim", "RoleTargets" }

\* All others have the discipline from which ResourceLifecycleProofs deduces
\* NothingStranded, for any values and bounds.
ASSUME DisciplineAssumption == \A k \in Kinds \ Stranding : Disciplined(Handlers[k])

\* And all but the exceptions have those from which it deduces StaysInForce and
\* ActivatedAsConfigured.
ASSUME SteadfastAssumption == \A k \in Kinds \ Interrupted : Steadfast(Handlers[k])
ASSUME AttributesFirstAssumption == \A k \in Kinds \ Premature : AttributesFirst(Handlers[k])

\* Read does not show all that is configured.
Unread == { "Device", "DomainCertificate", "Feature", "GroupRole", "ResourceOwner" }
\* The status is undone and redone on the way: deactivated, changed and activated,
\* each under a condition of its own.
Detours == { "GroupRule" }

\* And all others but those that lag have that from which it deduces InForce.
ASSUME EffectiveAssumption ==
  \A k \in Kinds \ (Lagging \cup Unread \cup Detours) : Effective(Handlers[k])

\* And all of these but one have that from which it deduces SettlesSoon.
ASSUME PromptAssumption ==
  \A k \in Kinds \ (Lagging \cup Unread \cup Detours \cup {"FederatedClaim"}) :
    Prompt(Handlers[k])
=============================================================================
