--------------------------- MODULE DirectoryHandlers ---------------------------
(***************************************************************************)
(* The handlers of the resources of the directory: groups, their rules,    *)
(* roles and owners, factors, risk and types of users, profile schemas and *)
(* mappings, linked objects, identity sources, push groups, devices,       *)
(* realms and administrator roles.  Each definition is one function of the *)
(* resource's file: X the schema, XRequest what is sent, XShown what an    *)
(* answer puts into the state, XParts what the API lists, XAdd and XDrop   *)
(* the requests for parts, and the handlers.                               *)
(***************************************************************************)
EXTENDS HandlerSteps

\* okta_group.  The ID is set when the group has become visible.
GroupCreate == Post({"body"}) \o Check \o SetId \o ReadBack
GroupRead == Forgets
Group == Resource({"body"}, GroupCreate, GroupRead, Put({"body"}) \o ReadBack, Remove)

\* okta_group_rule.  An active rule cannot be replaced or deleted.
GroupRuleRequest == {"body", "status?"}
GroupRuleStatus == SetStatus
GroupRuleCreate == Post(GroupRuleRequest) \o SetId \o GroupRuleStatus \o ReadBack
GroupRuleRead == Forgets
\* Mutant: what was deactivated for the replacement stays so.
GroupRuleReplace ==
  When({"status_changed"}, GroupRuleStatus) \o
  When({"attributes_changed"}, When({"active"}, Deactivate) \o Put(GroupRuleRequest \ {"status?"})) \o
  ReadBack
GroupRuleUpdate ==
  When({"status_changed"}, GroupRuleStatus) \o
  When({"attributes_changed"},
       When({"active"}, Deactivate) \o Put(GroupRuleRequest \ {"status?"}) \o
       When({"active"}, Activate)) \o
  ReadBack
\* Mutant: the rule is deleted as it is.
GroupRuleDeleteActive == Remove
GroupRuleDelete == When({"active"}, Deactivate) \o Remove
GroupRule == Guarded({"put", "remove"}, Resource({"frozen", "body", "status"},
  GroupRuleCreate, GroupRuleRead, GroupRuleUpdate, GroupRuleDelete))

\* okta_group_role.  The ID is set after the targets; targets are only shown
\* when there are some, and a resource that loses all is replaced.
GroupRoleParts == DiffListing
GroupRoleDrop == Quiet(DropParts)
GroupRoleFind == Forgets
GroupRoleCreate == Post({"body"}) \o DiffState \o AddParts \o SetId \o ReadBack
GroupRoleRead == Except({"no_parts"}, GroupRoleFind)
GroupRoleUpdate ==
  When({"attributes_changed"}, Put({"body"})) \o
  When({"parts_changed"}, GroupRoleParts \o AddParts \o GroupRoleDrop) \o ReadBack
GroupRole == ReplacedIfEmptied(Resource({"frozen", "body", "parts"},
  GroupRoleCreate, GroupRoleRead, GroupRoleUpdate, Quiet(Remove)))

\* okta_group_owner and okta_group_owners, the latter with all owners of a group.
GroupOwnerCreate == Post({"body"}) \o SetId
GroupOwnerRead == Showing({"body"}, Forgets)
GroupOwner == Framework(Resource({"frozen"},
  GroupOwnerCreate, GroupOwnerRead, << >>, Quiet(Remove)))

GroupOwnersParts == DiffListing
GroupOwnersCreate == DiffState \o AddParts \o GroupOwnersParts \o Quiet(DropParts) \o SetId
GroupOwnersRead == Showing({"parts"}, Forgets)
GroupOwnersUpdate == GroupOwnersParts \o AddParts \o Quiet(DropParts)
GroupOwnersDelete == GroupOwnersParts \o Quiet(DropParts)
GroupOwners == Framework(Singleton(Resource({"parts"},
  GroupOwnersCreate, GroupOwnersRead, GroupOwnersUpdate, GroupOwnersDelete)))

-----------------------------------------------------------------------------
\* okta_user_factor_question, okta_factor and okta_factor_totp.
FactorQuestionKey == Check
\* A disabled factor, whose removal is refused and counts as made, is left out.
FactorQuestion == Resource({"frozen", "body"},
  FactorQuestionKey \o Post({"body"}) \o SetId \o ReadBack, Forgets,
  FactorQuestionKey \o Put({"body"}) \o ReadBack, Remove)

FactorPut == Look \o When({"status_differs"}, SetStatus) \o SetId \o ReadBack
Factor == Singleton(Resource({"status"},
  FactorPut, Forgets, FactorPut, When({"active"}, Deactivate)))

FactorTotp == Resource({"frozen", "body"},
  Post({"body"}) \o SetId \o ReadBack, Forgets, Put({"body"}) \o ReadBack, Remove)

\* okta_user_type, okta_user_admin_roles and okta_user_risk.
UserType == Resource({"body"},
  Post({"body"}) \o SetId \o ReadBack, Forgets, Put({"body"}) \o ReadBack, Remove)

AssignAdminRolesToUser == AddParts
UserAdminRolesUpdate == DiffState \o Check \o Quiet(DropParts) \o AssignAdminRolesToUser
UserAdminRoles == Singleton(Resource({"parts"},
  DiffState \o AssignAdminRolesToUser \o SetId, Forgets, UserAdminRolesUpdate,
  DiffListing \o Quiet(DropParts)))

UserRiskCreate == Put({"body"}) \o Check \o SetId
UserRiskUpdate == Put({"body"}) \o Check
UserRisk == Framework(Singleton(Resource({"body"},
  UserRiskCreate, Showing({"body"}, FailsIfMissing), UserRiskUpdate, << >>)))

-----------------------------------------------------------------------------
\* Properties of the profile schemas, known by their names.  A change is sent
\* again until it is seen, and the deletion of what is not there is no error.
AlterCustomUserSchema(with) == Post(with) \o Check
UserSchemaPut == AlterCustomUserSchema({"body"}) \o SetId
UserSchemaRead == Forgets
UserSchema == Keyed(Resource({"frozen", "body"},
  UserSchemaPut, UserSchemaRead, UserSchemaPut, Quiet(Remove) \o Check))

AlterCustomGroupSchema(with) == Post(with) \o Check
GroupSchemaPut == AlterCustomGroupSchema({"body"}) \o SetId
GroupSchema == Keyed(Resource({"frozen", "body"},
  GroupSchemaPut, Forgets, GroupSchemaPut, Quiet(Remove) \o Check))

\* okta_user_base_schema_property, one handler at a time.
UserBaseSubschema == Check \o Put({"body"})
UserBaseSchemaPut == UserBaseSubschema \o SetId \o ReadBack
UserBaseSchema == Singleton(Resource({"body"},
  UserBaseSchemaPut, Forgets, UserBaseSchemaPut, << >>))

\* okta_profile_mapping: found, never created, and emptied in the end.
ProfileMappingRequest == {"body"}
ProfileMappingApply == Check
ProfileMappingFind == Look
ProfileMappingCreate ==
  ProfileMappingFind \o SetId \o Put(ProfileMappingRequest) \o ProfileMappingApply \o ReadBack
ProfileMappingRead == Forgets
ProfileMappingUpdate == Look \o Put(ProfileMappingRequest) \o ProfileMappingApply \o ReadBack
ProfileMappingDelete == Look \o Reset
ProfileMapping == Singleton(Resource({"body"},
  ProfileMappingCreate, ProfileMappingRead, ProfileMappingUpdate, ProfileMappingDelete))

\* okta_link_definition, one handler at a time, and okta_link_value.
LinkDefinitionCreate == Post({}) \o SetId
LinkDefinition == Resource({"frozen"},
  LinkDefinitionCreate, Forgets, << >>, Quiet(Remove))

LinkValueCreate == Look \o SetId \o DiffState \o AddParts
LinkValueRead == Forgets
LinkValueUpdate == DiffState \o AddParts \o DropParts
LinkValue == Singleton(Resource({"parts"},
  LinkValueCreate, LinkValueRead, LinkValueUpdate, DiffState \o Quiet(DropParts)))

-----------------------------------------------------------------------------
\* okta_identity_source_group, _group_membership and _user.  Where the answer
\* to a creation is empty, the object is read before its ID is known.
IdentitySourceGroupCreate == Post({"body"}) \o SetId
IdentitySourceGroupRead == Forgets
IdentitySourceGroupUpdate == Put({"body"})
IdentitySourceGroup == Framework(Resource({"frozen", "body"},
  IdentitySourceGroupCreate, IdentitySourceGroupRead, IdentitySourceGroupUpdate,
  Remove))

IdentitySourceMembershipCreate == Post({}) \o Check \o SetId
IdentitySourceMembershipRead == Forgets
IdentitySourceMembershipDelete == Remove
IdentitySourceMembership == Framework(Resource({"frozen"},
  IdentitySourceMembershipCreate, IdentitySourceMembershipRead, << >>,
  IdentitySourceMembershipDelete))

IdentitySourceUserCreate == Post({"body"}) \o ReadBack \o SetId
IdentitySourceUserRead == Showing({"body"}, Forgets)
IdentitySourceUserUpdate == Put({"body"})
IdentitySourceUser == Framework(Resource({"frozen", "body"},
  IdentitySourceUserCreate, IdentitySourceUserRead, IdentitySourceUserUpdate, Remove))

\* okta_push_group.  The status alone can be changed, and the status in the
\* state decides whether the mapping is made inactive before it is deleted.
PushGroupShown == {"status"}
PushGroupCreate == Check \o Post({"status"}) \o SetId
PushGroupRead == Showing(PushGroupShown, FailsIfMissing)
PushGroupUpdate == Put({"status"})
PushGroupDelete == When({"active"}, Deactivate) \o Remove
PushGroup == Guarded({"remove"}, Framework(Resource({"frozen", "status"},
  PushGroupCreate, PushGroupRead, PushGroupUpdate, PushGroupDelete)))

\* okta_push_provider.
PushProviderRequest == {"body"}
PushProviderCreate == Post(PushProviderRequest) \o SetId
PushProviderRead == Showing({"body"}, FailsIfMissing)
PushProviderUpdate == Put(PushProviderRequest)
PushProvider == Framework(Resource({"frozen", "body"},
  PushProviderCreate, PushProviderRead, PushProviderUpdate, Remove))

\* okta_device, which can only be imported.  The action that was configured is
\* not read back.
DeviceRead == Showing({}, FailsIfMissing)
DeviceUpdate == SetStatus \o Check
Device == Framework(Imported(Resource({"status"},
  Refuse, DeviceRead, DeviceUpdate, Remove)))

-----------------------------------------------------------------------------
\* okta_realm, and okta_realm_assignment, which is inactive whenever it is new
\* or replaced.
RealmCreate == Post({"body"}) \o SetId
RealmRead == FailsIfMissing
RealmUpdate == Put({"body"})
Realm == Framework(Resource({"body"}, RealmCreate, RealmRead, RealmUpdate, Remove))

RealmAssignmentCreate == Post({"body", "inactive"}) \o When({"active"}, Activate) \o SetId
RealmAssignmentRead == FailsIfMissing
RealmAssignmentUpdate == Deactivate \o Put({"body"}) \o When({"active"}, Activate)
RealmAssignmentDelete == Deactivate \o Remove
RealmAssignment == Guarded({"put", "remove"}, Framework(Resource({"body", "status"},
  RealmAssignmentCreate, RealmAssignmentRead, RealmAssignmentUpdate, RealmAssignmentDelete)))

\* okta_admin_role_custom.
AdminRoleCustomRead == Forgets
AdminRoleCustomUpdate ==
  When({"attributes_changed"}, Put({"body"})) \o
  When({"parts_changed"}, DiffState \o AddParts \o DropParts)
AdminRoleCustom == Resource({"frozen", "body", "parts"},
  Post({"body", "parts"}) \o SetId, AdminRoleCustomRead, AdminRoleCustomUpdate,
  Quiet(Remove))

\* okta_admin_role_custom_assignments: the members of a role for a resource set.
CustomAssignmentsParts == Check
CustomAssignmentsDrop == CustomAssignmentsParts \o DropParts
CustomAssignmentsUpdate ==
  When({"parts_changed"}, DiffState \o AddAll \o CustomAssignmentsDrop)
CustomAssignments == Singleton(Resource({"parts"},
  Put({"parts"}) \o SetId \o ReadBack, Showing({"parts"}, FailsIfMissing),
  CustomAssignmentsUpdate, DiffState \o DropParts))

\* okta_admin_role_targets: the targets of a role that a user has.  All are
\* removed by taking the role from the user and giving it back; it has no ID in
\* between.
RoleTargetsCheck == Look
RoleTargetsParts == DiffListing
RoleTargetsAdd == AddParts
RoleTargetsRemoveAll == Quiet(Remove) \o UnsetId \o Post({}) \o SetId
RoleTargetsRead == Forgets
RoleTargetsUpdate ==
  When({"no_parts"}, RoleTargetsRemoveAll) \o
  When({"some_parts"}, RoleTargetsParts \o RoleTargetsAdd \o DropParts \o ReadBack)
RoleTargets == Singleton(Resource({"parts"},
  RoleTargetsCheck \o DiffState \o RoleTargetsAdd \o SetId \o ReadBack, RoleTargetsRead,
  RoleTargetsUpdate, RoleTargetsRemoveAll))

\* okta_resource_set.
ResourceSetRequest == {"body", "parts"}
ResourceSetParts == Check
ResourceSetAdd == AddAll
ResourceSetDrop == ResourceSetParts \o DropParts
ResourceSetRead == Forgets
ResourceSetUpdate ==
  When({"attributes_changed"}, Put(ResourceSetRequest \ {"parts"}))
    \o When({"parts_changed"}, DiffState \o ResourceSetAdd \o ResourceSetDrop)
ResourceSet == Resource({"body", "parts"},
  Post(ResourceSetRequest) \o SetId \o ReadBack, ResourceSetRead, ResourceSetUpdate,
  Quiet(Remove))
=============================================================================
