---------------------------- MODULE PolicyHandlers ----------------------------
(***************************************************************************)
(* The handlers of policies and their rules.  Each definition is one       *)
(* function of the resource's file: X the schema, XRequest what is sent,   *)
(* XStatus the calls for its status, XShown what an answer puts into the   *)
(* state, and the handlers.                                                *)
(***************************************************************************)
EXTENDS HandlerSteps

\* What the kinds of policies share: a priority that the API did not take over
\* is an error, the default policy for a check is looked up first.
PolicyActivate == SetStatus
CreatePolicy(with) == Check \o Post(with) \o SetId \o Check \o PolicyActivate
CreatePolicyV6(with) == Check \o Post(with) \o SetId \o Check \o PolicyActivate
GetPolicyV6 == Forgets
SyncPolicyFromUpstream == {"body", "status"}
SyncPolicyFromUpstreamV6 == {"body", "status"}
UpdatePolicy(with) == Put(with) \o Check \o PolicyActivate
ReplacePolicyV6(with) == Put(with) \o PolicyActivate
DeletePolicy == Remove
SetDefaultPolicy == Check \o SetId
SetDefaultPasswordPolicyV6 == Check \o SetId
PolicySchema == {"body", "status"}

\* okta_policy_mfa.
MfaPolicyRequest == {"body", "status?"}
PolicyMfa == Resource(PolicySchema,
  Check \o CreatePolicy(MfaPolicyRequest) \o ReadBack,
  Showing(SyncPolicyFromUpstream, Forgets),
  Check \o UpdatePolicy(MfaPolicyRequest) \o ReadBack, DeletePolicy)

\* okta_policy_signon.
PolicySignOn == Resource(PolicySchema,
  CreatePolicy({"body", "status?"}) \o ReadBack,
  Showing(SyncPolicyFromUpstream, Forgets),
  UpdatePolicy({"body", "status?"}) \o ReadBack, DeletePolicy)

\* okta_policy_password.
PasswordPolicyRequest == {"body", "status?"}
PolicyPasswordRead == Showing(SyncPolicyFromUpstreamV6, GetPolicyV6)
PolicyPassword == Resource(PolicySchema,
  CreatePolicyV6(PasswordPolicyRequest) \o ReadBack, PolicyPasswordRead,
  ReplacePolicyV6(PasswordPolicyRequest) \o ReadBack, Remove)

\* okta_policy_mfa_default and okta_policy_password_default: found, never created.
PolicyMfaDefaultUpdate == Check \o SetDefaultPolicy \o Put({"body"}) \o ReadBack
PolicyMfaDefault == Singleton(Resource({"body"},
  PolicyMfaDefaultUpdate, Forgets, PolicyMfaDefaultUpdate, << >>))

PasswordPolicyDefaultRequest == {"body"}
PolicyPasswordDefaultUpdate ==
  SetDefaultPasswordPolicyV6 \o Check \o Put(PasswordPolicyDefaultRequest) \o ReadBack
PolicyPasswordDefaultRead == Forgets
PolicyPasswordDefault == Singleton(Resource({"body"}, PolicyPasswordDefaultUpdate,
  PolicyPasswordDefaultRead, PolicyPasswordDefaultUpdate, << >>))

\* okta_policy_profile_enrollment.
PolicyProfileEnrollmentUpdate ==
  Put({"body", "status?"}) \o When({"status_changed"}, SetStatus) \o ReadBack
PolicyProfileEnrollment == Resource({"body", "status"},
  Post({"body", "status?"}) \o SetId \o When({"inactive"}, Deactivate) \o ReadBack,
  Forgets, PolicyProfileEnrollmentUpdate, Remove)

\* okta_policy_profile_enrollment_apps: the applications, moved one by one from
\* the default policy to this one and back.
ProfileEnrollmentAppsDefault == Check
PolicyProfileEnrollmentAppsCreate == ProfileEnrollmentAppsDefault \o DiffState \o AddParts \o SetId
PolicyProfileEnrollmentAppsList == {"parts"}
PolicyProfileEnrollmentAppsUpdate == DiffState \o AddParts \o DropParts
PolicyProfileEnrollmentApps == Singleton(Resource({"parts"},
  PolicyProfileEnrollmentAppsCreate,
  Showing(PolicyProfileEnrollmentAppsList, FailsIfMissing),
  PolicyProfileEnrollmentAppsUpdate, DiffState \o DropParts))

-----------------------------------------------------------------------------
\* What the kinds of rules share.  A rule that is to be inactive is deactivated
\* before its ID is set.
CreateRule(with) ==
  Check \o Post(with) \o When({"inactive"}, Deactivate) \o SetId \o Check
GetPolicyRule == Forgets
PolicyRuleActivate == SetStatus
UpdateRule(with) == Put(with) \o Check \o PolicyRuleActivate
\* System rules, which stay, and default ones, which are refused, are not created
\* by a resource and left out.
DeleteRule == Find \o Remove

\* okta_policy_rule_signon and okta_policy_rule_mfa.
SignOnPolicyRuleRequest == {"body", "status?"}
PolicyRuleSignOnRead == GetPolicyRule
PolicyRuleSignOn == Resource({"frozen", "body", "status"},
  CreateRule(SignOnPolicyRuleRequest) \o ReadBack, PolicyRuleSignOnRead,
  UpdateRule(SignOnPolicyRuleRequest) \o ReadBack, DeleteRule)

MfaPolicyRuleRequest == {"body", "status?"}
PolicyRuleMfaRead == GetPolicyRule
PolicyRuleMfa == Resource({"frozen", "body", "status"},
  CreateRule(MfaPolicyRuleRequest) \o ReadBack, PolicyRuleMfaRead,
  UpdateRule(MfaPolicyRuleRequest) \o ReadBack, DeleteRule)

\* okta_policy_rule_idp_discovery.
IdpDiscoveryRuleRequest == {"body", "status?"}
IdpDiscoveryRuleStatus == When({"status_differs"}, SetStatus)
PolicyRuleIdpDiscoveryCreate ==
  Post(IdpDiscoveryRuleRequest) \o SetId \o IdpDiscoveryRuleStatus \o ReadBack
PolicyRuleIdpDiscoveryRead == Forgets
PolicyRuleIdpDiscoveryUpdate == Put(IdpDiscoveryRuleRequest) \o IdpDiscoveryRuleStatus \o ReadBack
PolicyRuleIdpDiscovery == Resource({"frozen", "body", "status"},
  PolicyRuleIdpDiscoveryCreate, PolicyRuleIdpDiscoveryRead,
  PolicyRuleIdpDiscoveryUpdate, Quiet(Remove))

\* okta_policy_rule_password.
PasswordPolicyRuleRequest == {"body", "status?"}
PolicyRulePasswordCreate ==
  Check \o Post(PasswordPolicyRuleRequest) \o SetId
        \o When({"inactive"}, Deactivate) \o Check \o ReadBack
PolicyRulePasswordRead == Forgets
PolicyRulePasswordUpdate ==
  Check \o Put(PasswordPolicyRuleRequest) \o Check \o SetStatus \o ReadBack
PolicyRulePassword == Resource({"frozen", "body", "status"},
  PolicyRulePasswordCreate, PolicyRulePasswordRead, PolicyRulePasswordUpdate, Remove)

\* okta_policy_rule_profile_enrollment: the one rule of its policy.
ProfileEnrollmentRuleRequest == {"body"}
PolicyRuleProfileEnrollmentCreate ==
  Check \o Check \o Put(ProfileEnrollmentRuleRequest) \o SetId \o ReadBack
PolicyRuleProfileEnrollmentRead == Forgets
PolicyRuleProfileEnrollment == Singleton(Resource({"body"},
  PolicyRuleProfileEnrollmentCreate, PolicyRuleProfileEnrollmentRead,
  Put(ProfileEnrollmentRuleRequest) \o ReadBack, << >>))

\* okta_entity_risk_policy_rule.
EntityRiskRuleRequest == {"body"}
EntityRiskRuleShown == {"body", "status"}
EntityRiskRuleCreate ==
  Post(EntityRiskRuleRequest) \o When({"inactive"}, Deactivate) \o ReadBack \o SetId
EntityRiskRuleUpdate ==
  Put(EntityRiskRuleRequest) \o When({"status_changed"}, SetStatus) \o ReadBack
EntityRiskRule == Framework(Resource({"frozen", "body", "status"},
  EntityRiskRuleCreate, Showing(EntityRiskRuleShown, Forgets), EntityRiskRuleUpdate,
  Remove))

\* okta_post_auth_session_policy_rule and okta_session_violation_policy_rule,
\* which exist with their policy and can only be imported.
PostAuthSessionRuleRequest == {"body"}
PostAuthSessionRuleShown == {"body", "status"}
PostAuthSessionRuleUpdate ==
  Put(PostAuthSessionRuleRequest) \o When({"status_changed"}, SetStatus) \o ReadBack
PostAuthSessionRule == Framework(Singleton(Resource({"body", "status"},
  Refuse, Showing(PostAuthSessionRuleShown, Forgets), PostAuthSessionRuleUpdate,
  << >>)))

SessionViolationRuleRequest == {"body"}
SessionViolationRuleShown == {"body", "status"}
SessionViolationRuleUpdate ==
  Put(SessionViolationRuleRequest) \o When({"status_changed"}, SetStatus) \o ReadBack
SessionViolationRule == Framework(Singleton(Resource({"body", "status"},
  Refuse, Showing(SessionViolationRuleShown, Forgets), SessionViolationRuleUpdate,
  << >>)))

\* okta_app_signon_policy.  The creation may go on to the catch-all rule; the
\* deletion first gives its applications the default policy.
AppSignOnPolicyShown == {"body"}
AppSignOnPolicyCreate == Post({"body"}) \o Check \o SetId
AppSignOnPolicyRead == Showing(AppSignOnPolicyShown, FailsIfMissing)
AppSignOnPolicyUpdate == Put({"body"})
AppSignOnPolicyDelete == Check \o Check \o Remove
AppSignOnPolicy == Framework(Resource({"body"},
  AppSignOnPolicyCreate, AppSignOnPolicyRead, AppSignOnPolicyUpdate, AppSignOnPolicyDelete))

\* okta_app_signon_policy_rule, one handler at a time.
AppSignOnPolicyRuleRequest == {"body"}
AppSignOnPolicyRuleCreate ==
  Post(AppSignOnPolicyRuleRequest) \o SetId \o When({"inactive"}, Deactivate) \o ReadBack
AppSignOnPolicyRuleRead == Forgets
AppSignOnPolicyRuleUpdate ==
  Put(AppSignOnPolicyRuleRequest) \o When({"status_changed"}, SetStatus) \o ReadBack
AppSignOnPolicyRule == Resource({"frozen", "body", "status"},
  AppSignOnPolicyRuleCreate, AppSignOnPolicyRuleRead, AppSignOnPolicyRuleUpdate, Remove)
=============================================================================
