------------------------- MODULE ProviderResources -------------------------
(***************************************************************************)
(* The resources that the provider registers and that have handlers of the *)
(* common form, those that are not modelled or that have a module of their *)
(* own left out.                                                           *)
(***************************************************************************)
EXTENDS OrgHandlers, PolicyHandlers, AuthenticationHandlers, DirectoryHandlers,
        AppHandlers, GovernanceHandlers, TLC

\* Of the plugin SDK.
SdkResources == [
  AdminRoleCustom |-> AdminRoleCustom, AppAutoLogin |-> AppAutoLogin,
  AppBasicAuth |-> AppBasicAuth, AppBookmark |-> AppBookmark,
  AppGroupAssignment |-> AppGroupAssignment,
  AppGroupAssignmentRetained |-> AppGroupAssignmentRetained,
  AppGroupAssignments |-> AppGroupAssignments, AppOAuth |-> AppOAuth,
  AppOAuthAPIScope |-> AppOAuthAPIScope, AppSaml |-> AppSaml,
  AppSamlSettings |-> AppSamlSettings,
  AppSecurePasswordStore |-> AppSecurePasswordStore,
  AppSharedCredentials |-> AppSharedCredentials,
  AppSignOnPolicyRule |-> AppSignOnPolicyRule, AppSwa |-> AppSwa,
  AppThreeField |-> AppThreeField, AppUser |-> AppUser,
  AppUserBaseSchema |-> AppUserBaseSchema, AppUserRetained |-> AppUserRetained,
  AppUserSchemaProperty |-> AppUserSchemaProperty, AuthServer |-> AuthServer,
  AuthServerClaim |-> AuthServerClaim,
  AuthServerClaimDefault |-> AuthServerClaimDefault,
  AuthServerDefault |-> AuthServerDefault, AuthServerManual |-> AuthServerManual,
  AuthServerPolicy |-> AuthServerPolicy, AuthServerPolicyRule |-> AuthServerPolicyRule,
  AuthServerScope |-> AuthServerScope, Authenticator |-> Authenticator,
  AuthenticatorOTP |-> AuthenticatorOTP, Behavior |-> Behavior, Captcha |-> Captcha,
  CaptchaOrgWideSettings |-> CaptchaOrgWideSettings,
  CustomAssignments |-> CustomAssignments, Domain |-> Domain,
  DomainCertificate |-> DomainCertificate, EmailCustomization |-> EmailCustomization,
  EmailDomain |-> EmailDomain, EmailSMTP |-> EmailSMTP, EventHook |-> EventHook,
  Factor |-> Factor, FactorQuestion |-> FactorQuestion, FactorTotp |-> FactorTotp,
  Group |-> Group, GroupRole |-> GroupRole, GroupRule |-> GroupRule,
  GroupSchema |-> GroupSchema, IdpOidc |-> IdpOidc, IdpSaml |-> IdpSaml,
  IdpSocial |-> IdpSocial, InlineHook |-> InlineHook, LinkDefinition |-> LinkDefinition,
  LinkValue |-> LinkValue, NetworkZone |-> NetworkZone,
  NetworkZoneEnhanced |-> NetworkZoneEnhanced, NetworkZoneReserved |-> NetworkZoneReserved,
  OrgConfiguration |-> OrgConfiguration, PolicyMfa |-> PolicyMfa,
  PolicyMfaDefault |-> PolicyMfaDefault, PolicyPassword |-> PolicyPassword,
  PolicyPasswordDefault |-> PolicyPasswordDefault,
  PolicyProfileEnrollment |-> PolicyProfileEnrollment,
  PolicyProfileEnrollmentApps |-> PolicyProfileEnrollmentApps,
  PolicyRuleIdpDiscovery |-> PolicyRuleIdpDiscovery, PolicyRuleMfa |-> PolicyRuleMfa,
  PolicyRulePassword |-> PolicyRulePassword,
  PolicyRuleProfileEnrollment |-> PolicyRuleProfileEnrollment,
  PolicyRuleSignOn |-> PolicyRuleSignOn, PolicySignOn |-> PolicySignOn,
  ProfileMapping |-> ProfileMapping, ResourceSet |-> ResourceSet,
  RoleSubscription |-> RoleSubscription, RoleTargets |-> RoleTargets,
  SecurityNotificationEmails |-> SecurityNotificationEmails,
  TemplateSms |-> TemplateSms, Theme |-> Theme,
  ThreatInsightSettings |-> ThreatInsightSettings, TrustedOrigin |-> TrustedOrigin,
  UserAdminRoles |-> UserAdminRoles, UserBaseSchema |-> UserBaseSchema,
  UserSchema |-> UserSchema, UserType |-> UserType ]

\* Of the framework.
FWResources == [
  APIServiceIntegration |-> APIServiceIntegration, APIToken |-> APIToken,
  AccessPolicyAssignment |-> AccessPolicyAssignment,
  AgentPoolUpdate |-> AgentPoolUpdate, AppConnection |-> AppConnection,
  AppFeatures |-> AppFeatures, AppOAuthRole |-> AppOAuthRole,
  AppSignOnPolicy |-> AppSignOnPolicy, AppToken |-> AppToken, Brand |-> Brand,
  CustomAAGUID |-> CustomAAGUID, CustomizedSignInPage |-> CustomizedSignInPage,
  Device |-> Device, DeviceAssuranceAndroid |-> DeviceAssuranceAndroid,
  DeviceAssuranceChromeOS |-> DeviceAssuranceChromeOS,
  DeviceAssuranceIOS |-> DeviceAssuranceIOS,
  DeviceAssuranceMacOS |-> DeviceAssuranceMacOS,
  DeviceAssuranceWindows |-> DeviceAssuranceWindows,
  EmailTemplateSettings |-> EmailTemplateSettings, EntityRiskRule |-> EntityRiskRule,
  Feature |-> Feature, FederatedClaim |-> FederatedClaim, GroupOwner |-> GroupOwner,
  GroupOwners |-> GroupOwners, HookKey |-> HookKey,
  IdentitySourceGroup |-> IdentitySourceGroup,
  IdentitySourceMembership |-> IdentitySourceMembership,
  IdentitySourceUser |-> IdentitySourceUser, LogStream |-> LogStream,
  MethodWebauthn |-> MethodWebauthn, NotificationSettings |-> NotificationSettings,
  PostAuthSessionRule |-> PostAuthSessionRule, PreviewSignInPage |-> PreviewSignInPage,
  PrincipalRateLimits |-> PrincipalRateLimits, PushGroup |-> PushGroup,
  PushProvider |-> PushProvider, RateLimit |-> RateLimit, Realm |-> Realm,
  RealmAssignment |-> RealmAssignment,
  SecurityEventsProvider |-> SecurityEventsProvider,
  SessionViolationRule |-> SessionViolationRule, TrustedServer |-> TrustedServer,
  UISchema |-> UISchema, UserRisk |-> UserRisk, WarningThreshold |-> WarningThreshold ]

\* Of identity governance.
GovernanceResources == [
  Campaign |-> Campaign, Entitlement |-> Entitlement,
  EntitlementBundle |-> EntitlementBundle, Label |-> Label,
  LabelMetadata |-> LabelMetadata, MyRequest |-> MyRequest,
  OrganizationSettings |-> OrganizationSettings, RequestCondition |-> RequestCondition,
  RequestSequence |-> RequestSequence, RequestV2 |-> RequestV2,
  ResourceOwner |-> ResourceOwner, ResourceSettings |-> ResourceSettings ]

AllResources ==
  LET ofTheFramework == FWResources @@ GovernanceResources IN
  SdkResources @@ ofTheFramework
=============================================================================
