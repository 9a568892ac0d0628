SPECIFICATION Spec
CONSTANTS
    p = p
    secret = secret
    approval = approval
    Profile = {p}
    Pickable = {p}
    Default = Default
    Unset = Unset
    Field = {secret, approval}
    FieldOrder <- MCOrder
    Choice = {approval}
    Credentials = {secret}
    Buffer = 1
INVARIANTS
    ChoiceDecides
