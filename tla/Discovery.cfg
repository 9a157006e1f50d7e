SPECIFICATION FairSpec
CONSTANTS
    cube = cube
    panel = panel
    value = value
    data = data
    Nodes = {cube, panel}
    Microphone = microphone
    MicrophoneField = data
    Buttons = buttons
    SystemButton = system_button
    Names = {microphone, buttons, system_button}
    Fields = {value, data}
    Description <- CubeAndPanel
    PreferredName <- CubeAndPanelNames
    IsCube = {cube}
    TransferIds = {0}
    Prompt <- AllButFieldsOfTheCube
    Publishers = {cube}
    MaxTasks = 1
    MaxExpiries = 1
    None = None
INVARIANTS TypeOK MetadataComplete NamespaceUnambiguous OrderDoesNotMatter PublicationsUnderstood
PROPERTIES DiscoverySettles
